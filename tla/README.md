# Formal models of voter-api

TLA+ models of the parts of voter-api that keep state - jobs, imports, records,
answers and published files - the TLC configurations that check them on small
instances, and TLAPS proofs for every value of the constants. Paths below are relative to `src/voter_api/`.

- [1. The system](#1-the-system)
- [2. The modules](#2-the-modules)
- [3. What the runs check](#3-what-the-runs-check)
- [4. What is proved](#4-what-is-proved)
- [5. Where code and documents disagree](#5-where-code-and-documents-disagree)
- [6. What is not modelled](#6-what-is-not-modelled)
- [7. Plan](#7-plan)
- [8. Running the checks](#8-running-the-checks)

## 1. The system

voter-api is one FastAPI process over PostgreSQL/PostGIS, plus a Typer command
line that opens its own sessions on the same database. Long work (geocoding,
imports, analysis, exports) is handed by a request handler to an in-process
task runner and goes on after the response; the command line awaits the same
service functions in its own event loop. The database is the only thing the
processes share. The deployment runs one replica; a rolling update has two
servers alive for a moment.

| part | state | operations | interacts with | hard behaviour | correct when |
|---|---|---|---|---|---|
| task runner `core/background.py` | `_jobs`, `_tasks`, a semaphore | `submit_task`, `get_status` | every background job | exceptions and cancellation inside the semaphore, death of the process | no permit is lost or made up; whoever waits gets one |
| geocoding jobs `services/geocoding_service.py` | `geocoding_jobs` row, the worker's counters | create, process, cancel, mark failed, recover at boot | runner, providers, locations | a cancel between two batches, three commits per batch, crash between commits | bounded work after a cancel; counters agree with the data; every job ends |
| geocoded locations (same file) | `geocoded_locations`, `voters.official_*` | store, add manual, set primary, override, clear | geocoding jobs, voter API | READ COMMITTED snapshots, row locks, ORM writes only changed columns | one primary; the official location is the best one or the override |
| bulk-import bracket `services/import_service.py`, `voter_history_service.py` | indexes and autovacuum setting of a table | drop, rebuild, disable, enable, verify at boot | imports of API, CLI, seed | overlapping brackets, death inside one, two rebuilds at a time | a dropped index always has somebody who will rebuild it |
| voter imports `services/import_service.py` | `voters`, `import_jobs`, seen registration numbers | create, chunks, soft delete, complete, fail, abandon | bracket, runner, CLI | two imports at a time, failure after some chunks, record limit | removed voters were absent from a completed file; the county is its file |
| voter history imports `services/voter_history_service.py` | `voter_history` owned by import jobs | chunks, commit every 50, replace earlier import | bracket, imports | same file imported twice at once, failed import's partial rows, one participation in two files | a completed import owns exactly what it read; only a replacement deletes |
| analysis runs `services/analysis_service.py`, `lib/analyzer` | `analysis_runs`, `analysis_results`, `voters.has_district_mismatch` | trigger, process page by page, resume, flag | locations, imports | keyset paging over changing voters, resumption, two runs finishing in any order | a completed run has everybody who was there throughout; counters are its rows'; a flag has a completed run |
| addresses `services/address_service.py` | `addresses`, `voters.residence_address_id` | upsert, backfill | geocoding | offset paging over a set that shrinks, kills | run again and again, it links everybody |
| geocoder answers `lib/geocoder` | `geocoder_cache` | geocode one, all, a batch voter's fallback, verify | geocoding jobs, providers | one cache filled under different rules; rows of several providers, and of several voters of a household, locked in one transaction | what the public gets is in Georgia; the best of what was heard is told |
| meetings `services/meeting_service.py`, `agenda_item_service.py`, attachments, video embeds, bodies | meeting tree with soft deletes and approval, files | create, edit, approve, reject, delete with cascade, reorder, search | users, disk | check-then-write without locks; immediate unique index during a permutation; file and row | no active child under a deleted parent unless it raced; every row has its file; one decision |
| elections `services/election_service.py`, `lib/election_tracker` | elections, statewide and county results | create, edit, refresh loop, requested refresh, manual results | HTTP feed | overlapping refreshes; failures and conflicts inside the loop's shared session | counties are of one version; an active election catches up |
| election answers `api/v1/elections.py` | none; reads the above | results, county and precinct GeoJSON, filter options, lists | clients' and proxies' caches | several statements per answer, a cache lifetime decided by another | a day-long answer has the results of the last finalization before it was begun; the options fit the lists; no vote for a precinct on record is lost in the map |
| officials `services/elected_official_service.py` | officials and their sources | sync, auto-create, admin create, rename, approve, delete | provider feeds | select-then-insert, two commits, overlapping syncs | a sync that ends leaves no source unlinked that it stored, or that lies in a district it stored one of |
| accounts `services/auth_service.py` | users, tokens, recovery codes, invitations | reset, invite, accept, enrol, confirm, disable | mailer | mail before commit; several awaits between check and write | codes belong to the verified credential; every stored token was mailed, a mailed link works |
| candidate, JSONL, results and calendar imports | elections, candidates, candidacies, results, `import_jobs` | chunks, sub-batches, savepoints, matching | admins, each other | a caught failure inside a lost transaction, caches outside a savepoint, conflict targets | the tables say what the files said last; an item is whole or absent; a contest's records stay together |
| absentee ballots `services/absentee_service.py` | `absentee_ballot_applications` | chunk upserts, statistics | each other | row locks, NULL in a unique key | last committed chunk wins; checkpoint tells what is there |
| boundaries `services/boundary_service.py`, precinct metadata | `boundaries`, `precinct_metadata` | parallel imports, adoption of old rows | each other | lookup then insert; NULL counties; second transaction for metadata | one row per boundary; metadata is the boundary's |
| election resolution `services/election_resolution_service.py` | `voter_history.election_id`, event ids | backfill, tiers 0 to 2 | imports, admins | a run of many statements beside writers | a row gets the election of another county only where none is known for it; nothing left that a run could give out |
| exports, publishing `services/export_service.py`, `publish_service.py`, `lib/publisher` | export jobs and files; bucket, manifest, its cache | export; publish, redirect | imports, readers | files written while tables change; read-merge-write of a manifest | a download is one moment's; a manifest names only files that exist |
| voter queries, audit log, middleware, converters, configuration | read-only SQL, appends, text tools | | | none between actors | function of their input |

`PROJECT.json` lists every part with its status and, under `hazards`, what is
hard to test in it, each at its line.

## 2. The modules

```
TaskRunner <--- INSTANCE --- GeocodingJobs <- EXTENDS - GeocodingJobsProofs

VoterLocations  ImportBracket  VoterImport         (each with its Proofs module)

RecordKeeping   <- EXTENDS - RecordsProofs
ImportedRecords <- EXTENDS - ImportsProofs, ElectionDataProofs
PublicAnswers   <- EXTENDS - AnswersProofs

records    RecordKeeping = TaskRunner + AnalysisRuns, DistrictChecks, Meetings, Accounts, Officials, ElectionRefresh
imports    ImportedRecords = VoterHistoryImport + CandidateImport, JsonlImport, ResultsImport,
           ElectionResolution, BoundaryImports, AbsenteeBallots
answers    PublicAnswers = GeocodingJobs + GeocoderAnswers, Publishing, Exports, ElectionAnswers, PrecinctMaps
recovery   ImportBracket + TaskRunner, AddressBackfill, ElectionRefresh
```

Modules that share state are composed: the geocoding jobs run on the task
runner they instance. Modules that share none are put *side by side* in one
module (RecordKeeping, ImportedRecords, PublicAnswers, MCRecovery): `part` says
which of them a behaviour is of, fixed from its first state. In the first
three, about which RecordsProofs, ImportsProofs and ElectionDataProofs, and
AnswersProofs prove, each of them has variables of its own, which rest at `Nil`
when it is not its turn, and MCRecords, MCImports and MCAnswers give the
constants their values; in MCRecovery, which exists only for TLC, the slots
`s1`, `s2`, ...
stand for the variables of the module whose turn it is. The state space is the
disjoint union of the parts', not their product, and a property named
`XHolds` or `XHold` there is the conjunction of what the module states, conjunct by
conjunct, under its own name and comment. A definition marked "Wrong variant"
is a plausible bug; it is in no specification, and shows for a property that a
change of the code would break it. One marked "Not so", "What does not hold" or
"What the documents say" is a claim that TLC refutes (section 5).

**One action per commit.** Sessions of different processes meet only in the
database, so an action is the code from one commit (or, in VoterLocations,
one statement) to the next; between two actions anything of another session
can happen. Within the server process coroutines also interleave at every
`await`, which the same granularity covers: what a coroutine keeps across an
`await` is in its own variables.

**Faults.** An exception anywhere in a `try` body, the death of the server,
its graceful stop, and *losses* (a failure that the program itself does not
repair: the commit that should record the failure fails, a command line is
killed, a boot recovery raises and is swallowed) are actions, counted in
`spent` or in `crashes` and `losses`. Properties that need the repair say
"unless a loss occurred"; nothing else is excused.

### TaskRunner — `core/background.py`

`jobs` is `_jobs` (with "none" for a task not submitted), `permits` and `queue`
are the semaphore's value and its waiters in order. `Submit` is `submit_task`
with the coroutine reaching `async with`; `Acquire` and `Finish` are its entry
and exit, the latter on success, on exception and on cancellation; `Exit` is
the end of the process, after which the registry is empty. Asyncio's semaphore
is fair, hence a queue.

### GeocodingJobs — `process_geocoding_job` and its surroundings

It composes the runner (`Runner == INSTANCE TaskRunner`), the row, the worker,
the administrators, the server's life and the CLI. `pc` is the place in the
worker: created, queued, starting, count, loop (the check), batch, checkpoint,
final (the check before the end), complete, raise and interrupt (the two
`except` clauses). `row` is the persisted job, `work` the local counters,
`data` the voters whose outcome is committed. Voters are counted, not named:
which voter is where does not matter to a job, how many does. `late` counts the
batches committed after the row became terminal and restarts when a worker
starts. `Count` may find any number of voters up to `MaxTotal`, and a batch any
number up to `BatchSize`: other jobs and imports change the set meanwhile.

### VoterLocations — locations of one voter

One voter is enough: no statement touches two voters' rows. A transaction has
its pending writes (`wrote`, `cols`), the voter as loaded (`base`) and as
modified (`mem`); `Seen` is what its next statement sees under READ COMMITTED.
`lock` has the writer of every row, or of the unique entry of a row to be
inserted. `Flush` writes only the columns that differ from what was loaded,
which is how SQLAlchemy turns a stale read into a mixed row. `Requests` are the
endpoints: store one location (a job or one geocode), store several in a
transaction (`geocode_voter_all_providers`), add manual, set primary, override,
clear. The history variables `overlap` (transactions were open together) and
`raced` (and then a location was inserted) delimit what the code promises:
nothing locks the voter before reading, so agreement of the columns holds while
requests follow one another, and the rest at all times.

### ImportBracket — dropping and rebuilding indexes

An owner is one import with its own optimisation, or the bulk context around
many. `indexes` and `autovacuum` stand for the table's; all droppable indexes
are dropped in one transaction and rebuilt in one, so one Boolean represents
them. `Verified` tells the table the boot check knows (voters) from the one it
does not (voter_history). The rebuild is in two steps because it holds a SHARE
lock for minutes: two rebuilds can overlap, and the second then fails on the
names and ends its teardown.

### VoterImport — importing a county's file

`voters` is the table restricted to what an import decides on: county, present,
last import seen, and (history) the import that soft-deleted it. `todo` is the
unread rest of the file, `kept` is `imported_reg_numbers`, `absent` the list
computed before the soft delete. A chunk may be any part of what is left, with
any of its records invalid. `Capped` imports can stop at a record limit and
then remove nobody. The server part is as in GeocodingJobs; note that
`except Exception` does not catch cancellation here, so a stopped import leaves
its row to the next boot.

### VoterHistoryImport — importing and re-importing a history file

`owner` is the `import_job_id` of each row of `voter_history`, which is all an
import decides on. Rows are upserted chunk by chunk into `dirty`, where their
unique entries lock out other imports (`Unlocked`), and become visible with a
commit every `CommitEvery` chunks and at the end of the file. `SelectPrevious`
reads the earlier jobs of the file, `Replace` deletes what they still own,
supersedes them and completes the job in one commit; between the two another
import can commit. `marks` are the earlier jobs that were not superseded when
they were read: SQLAlchemy writes an attribute only if it changes. `kept` is
history: the valid records read so far. `spent.overlap` records that an import
was created while another was live: nothing locks a file against a second
import, and the properties that say what is in the table afterwards hold for
imports that follow one another. The index bracket around the import is in
ImportBracket and does not touch rows.

### AnalysisRuns and DistrictChecks — `services/analysis_service.py`, `lib/analyzer`

`verdict` is what comparing a voter would give now (`None`: not eligible);
imports and geocodes change it at any time. `Begin`, `Fetch`, `Flush` and
`Complete` are the coroutine's transactions: `cursor` is `last_voter_id`,
`page` the results not committed, `tally` the local counts, `row` the persisted
ones. `Resume` is processing a failed run again,
which starts behind the last stored result. `steady` (history) are the voters
eligible since the run began. The end writes the flags of its own results, so
of two runs the last to finish wins whatever it read; `FlagsHaveRun` is what is
left. DistrictChecks puts the two answers to "is this voter in its district"
next to each other, with their different rules for padding and prefixes:
`Compare` is the comparator, `Check` the batch check, over every placement of
boundaries whose types do not overlap.

### Meetings — the meeting tree

`row` is the tree with soft deletion, `approval` the decision columns, `order`
the agenda positions, `files` the attachments on disk. A request reads in one
step (the routers) and writes in a later one; `raced` (history) are rows whose
parent was being deleted while they were created. `Reorder` writes the rows one
by one in the order of their ids under the immediate unique index, as the flush
does; `ReorderFails` is the permutation it refuses. `PlacesDiffer` says that
no two active items of an agenda share a place, and `AsAsked` in which order a
reordering leaves those that it has placed. Three instances: two items
of an agenda, an item with an embed, a meeting with a file.

### Accounts — `services/auth_service.py`

A request is one session, split at its awaits: `Reset` and `Invite` mail first
and commit after, `MailFails` is the delivery error. `serial` numbers
credential rows and tokens so that an old one is told from a new one. `Age` is
time passing until a user may ask for another reset.

### Officials — `services/elected_official_service.py`

A sync fetches (`Fetch`), commits the sources (`UpsertSources`), reads per
district what is unlinked (`ReadUnlinked`) and creates officials
(`AutoCreate`); admins work between. Names are equal regardless of case, rows
are not. What a provider lists may be any part of its records, and another one
next time. `Visited` are the districts somebody is listed for: only there the
command looks for unlinked sources (`cli/officials_cmd.py:152-155`), those of
runs that failed included. So `SyncedLinked` speaks of the sources that a sync
stored itself and of those in the same districts; one that a failed run stored
in a district where nobody is listed any more stays unlinked, and current, since
nothing clears `is_current`.

### ElectionRefresh — the refresh loop and what races it

`task` has the loop and the requested refreshes, each between its reads, its
fetch, its flush and its commit; `base` in it is the statewide row as loaded,
since the ORM writes only columns that differ from it. `version` is the feed's.
`Conflict` is the unique violation of two first results: it breaks the loop's
session and with it the rest of its cycle. Manual results are checked against
the election, then select their row for update: one that was inserted in the
meantime is overwritten; only where there was none to lock (`NoRowToLock`) can
another's insert still get in between. `LoopStep` is fair and each election's fetch
succeeds now and then (strong fairness): the loop must then bring every active
election up to date.

### AddressBackfill — `services/address_service.py`

`BackfillVoterAddresses` is the run page by page; the offset advances by the
page while each commit takes the page's voters out of the set that is paged.

### CandidateImport, JsonlImport, ResultsImport, ElectionResolution

CandidateImport: a chunk resolves the election of each record statement by
statement, then upserts; a statement that fails there is caught and the
transaction is gone, so the whole chunk is (`job.offset` and the counters are
what was committed). `kept` is the election of each record that is upserted, by
its place in the chunk. The cache goes by name, date, county and municipality
(`Key`), the query by name and date only (`Found`): a record of a contest at
another place asks again, and gets what others have committed since, an error
if the contest has two elections by then (`LookUp`). `wrote` (history) has for
each record of a committed chunk the election it was written to; admins may
remove elections beside all this (`RemoveElection`). `LastRecordWins` speaks of
the records kept for one election, `ContestStaysWhole` says that this is one
election for all records of a contest, as long as none of theirs is removed;
with removals they can be spread over two, whose candidacies then differ. That
an election found gets its county and municipality filled in, and that an admin
renames one to the name of another contest, is left out. JsonlImport: one
transaction per file, one statement per sub-batch, with COALESCE on some
columns and the rest overwritten, `ballot_order` also with NULL (`Overwritten`);
`told` is what a dry run said, `base` what the tables held when a load began;
the files of a directory are taken in the order `Pipeline` numbers them, and
between commands the directory may be converted anew (`Convert`).
ResultsImport: a savepoint per ballot item; `draft` is the open transaction,
`mark` the savepoint, and the cache of matched elections and the counters live
outside of both. Calendars are merged before they are imported.
ElectionResolution: a run is one transaction of many statements, each seeing
what is committed when it starts (`Seen`): `BackfillDistricts`, `Tier0`, then
`Tier1` or `PlanTier2` and `Tier2` date by date. `Tier0` returns before it gives
elections their events when no row is without one (`Blank`). `scope` is
history: a row's last election as it was when the row was given it, and
`alone` whether it was the only one of its day. An election's columns depend on
how it came to be (`Created`): by the feed, with its name parsed; by results,
with district and party but no county; by hand, with a boundary; or by an
import. An election that is alone on its day goes by the county recorded for
it, or else by its boundary's (`CountyOf`: the column, or the name of a county;
`home` is that county); of several on a day a district of a county goes by the
recorded county only. `NoLeak` says that rows stay in the county that the code
so knows, and `OneCounty`, that rows of a county's district are all of one
county, does not hold (section 5).

### BoundaryImports and AbsenteeBallots

BoundaryImports: `Look` finds the row of the record or adopts one without a
county, after flushing the record before; `Write` updates or inserts; `Describe`
and `Store` are the second transaction for metadata. Rows written are locked,
NULL counties are never equal. A row that a record without a county wrote may be
taken over by a later record of the same name (`Placed`). AbsenteeBallots: `Upsert` is one statement over
a sub-batch, `CommitChunk` commits it with the checkpoint; records without a
date never conflict.

### GeocoderAnswers, ElectionAnswers, PrecinctMaps

GeocoderAnswers: one address; requests of four kinds over one cache, `order`
being the configured providers. A batch is one transaction over all its voters
(`services/geocoding_service.py:546-630`), of whom those at the address are
taken one after another (`turn`, `NextVoter`) and keep the cache rows they have
upserted locked to the end; whether a batch falls back at all is its job's
choice (`fallback`). Requests that wait for each other have a batch
among them that is `OutOfOrder`: it falls back, and its provider is not the
first of the order or it is at a later voter of the address. All others lock in
the configured order, or one row. Only the rows of one address are modelled:
jobs over the same addresses of several households can lock each other out on
the rows of two of them, too. ElectionAnswers: an answer is put together by
`ReadElection`, `ReadStatewide`, `ReadCounties` while elections are finalized
and refreshed; the county GeoJSON then looks the election up again to set its
lifetime, and may see a row newer than its results, or the one its session
still holds (`LookedUp`). `DayCachedIsFinal` gives every answer the results of
the last finalization before it was begun, and all but the county GeoJSON those
of the finalization it is kept for. The type and date of an election do not
change here: an administrator's edit has neither field
(`ElectionUpdateRequest`, `schemas/election.py:53`), and what an import or the
resolution writes to them while options are read is left out.
PrecinctMaps: the votes turned round, those without a precinct id left out
(`Counted`), and the three-stage search for a shape, over every mixture of ids
and names.

### Publishing and Exports

Publishing: a command reads the table, uploads file by file, and writes the
manifest last, merged with the one it fetched; the server's cache expires and is
fetched in a thread. Exports: a job asks, queries, writes, completes; a faulty
or killed one is not downloadable. `asked` and `since` (history) are what the job's query
would have read when it was asked for, and at every moment from then on.

## 3. What the runs check

Twelve runs: seven that pass and five that end in a counterexample.

| run | instance | distinct states | shows |
|---|---|---|---|
| `records` | task runner: 4 tasks, 2 permits. Analysis: 2 voters, one server and one CLI run, pages of 1, one change, fault and restart. District checks: every placement of 2 numbers, 2 widths and 2 counties around a point. Meetings: the three trees of section 2, two requests. Accounts: 2 addresses, 1 invitation, 2 requests. Officials: 1 provider of 2 people in 2 districts, of whom it lists any part, 1 sync command run again and again. Elections: 2 with 2 feeds, 1 request beside the loop | 1 329 549 | `PermitsConserved`, `RunsHold`, `AnswersAgree`, `RecordsHold`, `ReorderAsAsked`, `AccountsHold`, `SyncedLinked`, `CountiesAgree` |
| `imports` | History: 2 participations; a server and a CLI import of one file, an import of another; 1 exception, 1 crash, 1 loss. Two overlapping imports each of candidates, results, boundaries and ballots; the JSONL directory in four states, converted anew between 2 commands, with 2 edits; 2 resolutions over 4 elections (with a boundary, of a county's district, of the state's, and of a school board without a county) and 2 rows of 2 counties; 2 calendars | 1 081 719 | `OnePerFile`, `CompletedIsThere`, `RemovedByReplacement`, `ReplacesExactly`, `RegistersHold` (`RosterHolds`, `BoundariesHold`, `AbsenteeHold`), `ElectionDataHolds` (`FilesHold`, `ResultsHold`, `ResolutionHolds`), `AgainHolds` |
| `answers` | One geocoding job: at most 3 voters in batches of at most 2, 2 crashes, 1 error, 1 loss. Four geocoding requests, one of each kind, over 2 providers in either order, the batch with 2 voters of the address and with or without fallback; 2 publish commands; 2 exports, of the API and of a CLI; 2 elections; 2 precinct feeds with 4 spellings | 2 673 890 | `AtMostOneLateBatch`, `CheckpointBehindData`, `CompletedIsExact`, `SettledIsFinal`, `PublishedHold`, `AnswersHold` |
| `geocoding_two` | 2 jobs for 1 permit, 1 voter each, one fault of each kind | 550 023 | `NoPhantomJobs`, `RunnerAgreesWithRow`, `JobsTerminate` |
| `locations` | 3 sources, 2 overrides, 3 transactions | 116 225 | `OnePrimary`, `OfficialIsBest`, `OverrideSticks`, `SourceNamesPoint`, `NoLockCycle` |
| `recovery` | 2 brackets of the server and 1 of a CLI, 2 crashes, 1 loss; the runner's queue; 4 voters in pages of 2 with a kill; 2 elections with 1 feed and 1 request | 51 043 | `IndexesHaveRebuilder`, `AutovacuumHasEnabler`, `TableRecovers`, `NoStarvation`, `Converges`, `CatchesUp` |
| `voter_import` | 2 voters, 2 counties, one server and one CLI import, one fault of each kind | 415 833 | `RemovedByCompleted`, `NoPhantomImports`, `CountyIsFile`, `NoStrangersLeft`, `ImportsTerminate` |
| `geocoding_terminal`, `locations_second_primary`, `bracket_history`, `voter_import_other_county`, `voter_history_other_file` | as above | | the disagreements of section 5 |

**Bounds.** The protocols compare two actors at a time: worker and
administrator, worker and boot, two brackets and a crash, two imports, a reader
and a writer. Two jobs for one permit are the least that make somebody wait;
three voters in batches of two give a full batch, a partial one, and the
boundary between them; four voters in pages of two let an offset skip a whole
page; three transactions let one of them wait while two interleave; two items
of an agenda are the least that can be permuted; files have a record twice, an
invalid one, and one that another file has too; a household of two voters is
the least that can lock rows against their order. Each kind of fault occurs at
least once, crashes twice where a crash during the recovery of the first is
possible. For the theorems of section 4 no bound matters.

**Symmetry** is declared where the elements of a set are only compared with
each other and no liveness is checked: the participations of history imports
and the transactions of VoterLocations.

**Deadlock.** `CHECK_DEADLOCK FALSE` is set where the instance really stops:
jobs, requests, files and brackets are used once each, so a state in which all
have ended and all faults are used has no successor. That nobody waits for
ever is a property where code waits: `NoLockCycle`, `OneOrder`,
`JobsTerminate`, `NoStarvation`.

**Fairness.** Weak fairness of a worker's next step: its awaits are queries and
provider calls with timeouts (`httpx` and asyncpg), and asyncio runs ready
tasks in turn. Weak fairness of the end of a stopping server and of its
restart: the orchestrator kills and restarts it (`restartPolicy: Always`). In
GeocodingJobs a stopping loop cancels its tasks, so `Interrupt` is fair for
them. The refresh loop sleeps and runs again, and a feed that is asked again
and again answers now and then for each election (strong fairness of its
fetch). `Converges` assumes that somebody runs the backfill again, which is what
its docstring asks for. No fault, no administrator and no request is fair. In
the task runner fairness of `Finish` assumes that submitted coroutines end,
which is what `JobsTerminate` and `ImportsTerminate` establish for the two
kinds modelled.

**Not by construction.** Every property has a wrong variant of an action in
the module that breaks it under the same configuration (`mutants` in
`PROJECT.json`): a check left out, an exception swallowed, a permit kept, a
recovery that forgets pending rows, an offset that advances by the batch size,
a page cut by offset, a failed item whose savepoint is not rolled back, an
export read page by page, a soft delete committed before the job, and so on.

## 4. What is proved

All theorems hold for every finite set of jobs or tasks, every number of
permits, every set of voters, counties, elections, files and sources and every
page, chunk and batch size the assumptions of the modules allow. Every safety
property that a passing run checks is proved, but for `AgainHolds`.

| module | theorem | argument |
|---|---|---|
| RecordsProofs | `RunnerTypes` | each action |
| | `QueueIsAlwaysPending` | the queue is duplicate-free; removing its head and resetting the head's status go together |
| | `PermitsAreConserved`, `SlotsAreRespected` | cardinality of the running set changes by one exactly when `permits` does |
| | `RunnerBeside` | a behaviour of RecordKeeping is one of the task runner, as every step of another part leaves it alone: what the lines above say of `Spec` holds of `RecordsSpec` |
| GeocodingJobsProofs | `GeocodingTypes` | each action, using the runner's lemma for its part |
| | `JobsUseRunner` | refinement: every step is a step of the runner or leaves it alone |
| | `OneLateBatch` | `LateInv`: while a late batch has been counted and the row is terminal, the worker is past the batch, and the next check stops it |
| | `CheckpointIsSafe`, `CompletedJobsAreExact` | `CountsInv`: at each place of the worker, how the local counters, the row's and the committed data relate; the property alone is not inductive because the checkpoint copies local counters |
| | `NoPhantoms` | open rows have a live worker unless the server is down |
| | `RecordsAgree`, `SettledStays` | `EndedInv`: a coroutine the runner reports as ended has its worker at its end, so no later step of the worker can write the row |
| | `NoPermitLeaks` | `HoldersInv`: the runner's running set is the set of server workers in their body; then `PermitsAreConserved` through `JobsUseRunner` |
| ImportBracketProofs | `BracketTypes`, `IndexesComeBack`, `AutovacuumComesBack` | the properties are strengthened to the times the server is down |
| VoterImportProofs | `ImportTypes`, `RemovalsAreAccounted`, `NoPhantoms` | `RemovalInv`: the absent list is disjoint from the seen set and empty before it is computed, and a completed import is done |
| | `StrangersAreRemoved`, `CountyBecomesFile` | `AccountedInv`: an import about to remove the absent has every voter present in its county in its hands, as kept or as absent, because no other import adds to that county or because none overlaps it; while none overlaps, what it kept is present |
| ImportsProofs | `HistoryTypes` | each action |
| | `Superseded`, `Removals` | `LifeInv`: a job in a list of earlier jobs is of the same file and over, unless a command line runs it; the server's live jobs are open, and none outlives the server. Without it a superseded job could still write |
| | `OneCompletes` | `TurnInv`: while imports follow one another one is live, so its list of earlier jobs still has every completed or superseded import of the file when it is used |
| | `ReadsStay` | `KeptInv`: an import that is alone owns, or is about to own, what it read; its replacement spares completed imports of other files and supersedes those of its own, so what it deletes of a completed import is in its own file, too |
| | `ReplacementsAreExact` | from `TurnInv` and `KeptInv`: what it owns it has read and it owns all it has read, and only jobs outside its list, which neither completed nor were superseded, keep rows of its file |
| | `OneImportPerFile` | `OneCompletes` and `Superseded` |
| | `RegistersTheorem` | `RosterTheorem`, `BoundariesTheorem` and `AbsenteeTheorem` |
| | `HistoryBeside` | a behaviour of ImportedRecords is one of the voter history import, so that the theorems above hold of `ImportsSpec` |
| | `AbsenteeTheorem` | `BallotsInv`: no two rows share a key, committed or not, whoever wrote them; what an import has written of its chunk is what the records before its place say, the last of a key winning; its counters are the number of records behind it. `LatestThere` then holds by the commit, as a key that was dated before is overwritten and never added again |
| | `RosterTheorem` | `RosterInv`: what a job has kept or written is of the election cached for the contest and place of the record, so a candidacy is of the election of its candidate's row, and the last record kept for it in the committed chunks wins over those before; good, failed and repeated records add up to those read. `WholeInv`: an election a job has cached is removed or among those its lookups see, so a later lookup for its contest finds that one, or several and is an error, and the job creates another only where all it had found were removed |
| | `BoundariesTheorem` | `ShapesInv`: the unique constraint holds in the table, in what each transaction sees, and between the rows two transactions have written. While imports run one at a time the one that runs sees each boundary once, finds what it looked for, and metadata is behind only where it has still to write it |
| ElectionDataProofs | `ResolutionTheorem` | `ResolutionInv`: every row and election, committed or pending, fits by itself (its election is of its date and, where the code then knew a county for it, of the row's; its event of its date and type), and no two transactions write one row. For `Settled`, `Progress`: if nothing changes beside it, a full run has given an event to all rows it sees, and what is left of its plan is all that is left to serve |
| | `DirectoryTheorem` | `DirectoryInv`: what the command has written is of the records it has sent, each row is what its record asks of the row that was committed, and a whole run has loaded the files it is past; a conversion comes between commands and starts the account anew. Since a value that is kept once is kept again, a row that was due for the table of before stays due after later loads and edits |
| | `ResultsTheorem` | `ReturnsInv`: an open transaction, its savepoint and the tables are each made of whole items. A result in them is that of the item that wrote it, with its counties and its candidates, unless another completed file that shares no candidate with it has taken the election; a job about to write has its candidates in its draft, and drafts share none, so that a commit beside it can change the votes it has read only in that case (`OthersPrepared`). `JobClaims`: where an id stands for one contest, what is cached, targeted or taken for an item is an election meant for its contest. `KnownIn`: rows of elections of before keep what was known |
| | `ElectionDataTheorem` | `DirectoryTheorem`, `ResultsTheorem` and `ResolutionTheorem` |
| VoterLocationsProofs | `LocationTypes` | each action, with where a transaction stands given its request |
| | `PrimaryIsKept` | `LocksInv`: a row that is written is locked by its writer. `PrimaryInv`: a transaction has written a primary, or has demoted none and only added to others, so whichever commits leaves one. `OneInv`: while nothing is inserted after an overlap, a transaction that inserts nothing either writes no primary or has every row written |
| | `OfficialStaysBest`, `OverridesAreKept`, `SourcesAreRight` | `OfficialInv`: the columns a transaction has changed, put over those in the table, agree with its own view of the locations; transactions that follow one another start from what the last left |
| | `NoTwoWait` | `OrderInv`: a transaction that waits for a location holds no other location unless it stores several, and the voter's row is taken after the locations |
| RecordsProofs | `RunsTyped`, `RunsAlwaysHold` | `RunInv`: a voter eligible since the run began has a row once a later voter has one, a live run stands at its last row and has counted its rows, and a page leaves none of those voters out, so resuming at the greatest row skips and repeats nothing |
| | `AnswersAlwaysAgree` | both answers are functions of boundaries, numbers and names that nothing changes; since at most one boundary of a type is around a point, each comparison of a padded number or of a name decides as the batch check does |
| | `RecordsAlwaysHold` | `AgendaHolds`: what a request has read still holds of what it will write. A row about to be created is new, nobody else creates it, and its parent is active or a deletion crosses it (`Crossed`), so it has raced; a deletion has every active child in hand or raced; a decision's meeting is there, so no creation overwrites it; an agenda item is updated only if it finds its place free |
| | `ReordersAsAsked` | from `AgendaHolds`: the targets of a reordering grow with the wanted positions, and an item that it does not move had its target when it was read |
| | `AccountsAlwaysHold` | `AccountsInv`: serial numbers are handed out once; a session that is about to store or confirm something has mailed it, and a credential's row number tells a session that read it whether it is still the same; a linked user's token is replaced only by one that was mailed |
| | `SyncsLinkAll` | each source that the command stored, or that lies in one of its districts, has an official, is in a district still to come, or is in the plan committed next; nobody else removes the link of that provider's records |
| | `CountiesAlwaysAgree` | what a refresh holds in hand is from a feed, with the version it was fetched at, and it writes the counties of that feed in one step |
| AnswersProofs | `PublishedAlwaysHold` | publishing, `SafeInv`: every file has only rows of its type that the table has, and what a command uploaded or fetched is there. `DescribeInv`: while nothing is torn one command runs, and the files are those listed with its uploads over them; one that publishes everything alone replaces every file there is, which makes the next ones whole again. Exports, `ExportsInv`: while a job is open, what its query would read now is among what it would have read since; rows fetched stay among it, and a file is written from them before the job is completed |
| | `AnswersAlwaysHold` | geocodes, `GeocodesInv`: a request has asked a first part of its path through the configured providers and has the rest to do, it holds rows only of providers of its path, while its first voter is at work of those it has asked, linked rows lie in Georgia, and a batch voter still going has heard nothing EXACT. Rows that a request other than an `OutOfOrder` batch holds come before the one it waits for in the configured order, so of such requests that wait for each other the one furthest along would wait for one that is further. Elections, `ElectionsInv`: the numbers read later are not older than those read first, nor than the finalization in the row read with or before them, and only the county GeoJSON goes by another row. Maps, `MapsInv`: turning round splits the entries of a row by their key, and every name that is matched goes to a precinct no id has taken |

The lemmas on a file's chunks and places and on the subsequences that the configured order and a batch job's
fallback are (`AtIs`), and on the first best result (`BestExists`), need
induction on positions; those on the number of records read (`Places`) take one
chunk or record at a time. It is done without an induction theorem: a set of
positions that breaks the claim would have a least element (`LeastNatural`, from
the library's `WFMin`), whose predecessor does not break it (`UpTo`).

Assumptions: `SlotsAssumption` (at least one permit), finiteness of tasks and
jobs, the bounds are natural numbers, an import's file has one county, one
source has the greatest confidence among those a voter has (`BestAssumption`),
requests name sources and overrides that exist (`RequestsAssumption`),
voters are numbered in the order of their keys (`RunsAssumption`), the combined
file is named like no type (`PublishingAssumption`), None is no manifest
(`NilAssumption`), no number of a district (`ChecksAssumption`) and no answer of
a provider or district type that is known (`AnswersAssumption` of
GeocoderAnswers and ElectionAnswers), a quality has a rank and a confidence is a
number (GeocoderAnswers), every name and id of a feed can be normalised
(`PrecinctAssumption`), the limit of serial numbers is natural
(`AccountsAssumption`), files are sequences of records with the fields the code
reads, a valid record names a contest, a form and a person that exist, the job
identifiers and statuses are not the null value, and a statement has at least
one record (`CandidateAssumption`, `AbsenteeAssumption`, `BoundaryAssumption`,
`DirectoryAssumption`, `ResultsAssumption`), a record of the directory gives the
required columns that have no default, elections of before were written by no
import (`ResultsAssumption`), no election is called Null
(`ResolutionAssumption`), no row of a meeting tree is of two kinds and agenda
items are finitely many (`MeetingsAssumption`), and no two sync commands that
overlap fetch the same provider (`ProvidersAssumption`).
`StrangersAreRemoved` assumes that no two imports load the same county
(`OneEach`); with two of one county the later one's soft delete can miss what
the other adds after its list was made.
`IndexesComeBack` also assumes `Verified = TRUE`; the run `bracket_history`
shows that it is needed.

Only model-checked: all liveness (`NoStarvation`, `JobsTerminate`,
`TableRecovers`, `ImportsTerminate`, `Converges`, `CatchesUp`: fairness and
ENABLED are outside the prover), and `AgainHolds`. Of its two parts
`MergedIsBoth` computes with two folds over entries of one name, an induction
over data; `StableMatch`, that importing a file again finds the same elections,
holds of the instance, where the ids, names and districts of the two files
agree, and not of every pair of files: one whose ids and names are crossed can
make a second election of an id between the two.

## 5. Where code and documents disagree

Five runs end in a counterexample that states what the code does:

- **A terminal status is not final** (`geocoding_terminal`). "Terminal job
  statuses — no further transitions allowed" (`services/geocoding_service.py:50`).
  A job cancelled before it starts is set to running at `:465`, in the server
  while it waits for a permit and from the command line (the counterexample)
  between the creation of its row and its start. What does hold
  is `SettledIsFinal`: once the worker is gone nothing moves the row.
- **Two primaries** (`locations_second_primary`). The comment at `:826` says the
  `NOT EXISTS` update avoids the race of two inserts; under READ COMMITTED
  neither sees the other's uncommitted primary. `specs/001.../data-model.md:158`
  asks for exactly one. `AtMostOnePrimary` holds as long as no location is
  inserted after transactions overlapped.
- **History indexes are not verified at boot** (`bracket_history`, `main.py:94`).
- **A voter who moved is removed by the old county's import**
  (`voter_import_other_county`). The absent list is read with the county, the
  update at `services/import_service.py:126` is by registration number only
  (docstring `:99`).
- **A re-import deletes another file's participation**
  (`voter_history_other_file`). "Records from other import jobs are not
  affected" (`specs/006-voter-history/spec.md:150`). The upsert hands a
  participation that two files have to the file imported last
  (`services/voter_history_service.py:418`), and the next import of that file
  without it deletes it (`:454`), though the other file still has it.

Also met, without a run of their own: "After running `resolve-elections` (Step
7), every election should have a non-null `election_event_id`"
(`docs/pipeline-walkthrough.md:853`), while tier 0 returns when no history row
is without an event (`services/election_resolution_service.py:274`), before it
looks at elections, so that one entered after the rows of its day were linked
stays without, however often the command is run without `--force`
(`ElectionsLinked` of ElectionResolution, which TLC finds violated); `main.py:60` says that jobs open at
boot "are orphaned", while a CLI job or one of a server still being replaced is
not; `:687` and `:695` say that an interrupt saves progress, while the
uncommitted batch is rolled back and its counts kept; the docstring of
`sync_official_location` (`:1022`) promises to skip overridden voters, while a
request that loaded the voter before the override committed writes its own
columns over the override's; `import_service.py:700` reports as removed
whoever is absent now, not whom this import removed; a re-import is to leave
"zero orphaned records" (`specs/006-voter-history/spec.md:159`), while the
chunks that a failed import committed keep their owner, since failed jobs are
not among those replaced (`services/voter_history_service.py:444`) until
`import cleanup-jobs` makes them abandoned: `ReplacesExactly` says what is left.

Two more that TLC refutes. The comment on county-scoped districts says that they "need
a county filter in addition to the voter district column to prevent cross-county
assignment" (`services/election_resolution_service.py:627-629`); the filter is
the election's `eligible_county`, which a board of education's election made by
a results import does not have (`services/results_import_service.py:144-166`),
nor one of which only the boundary tells the county, so on a day with other
elections it gets the voters of that district number of every county
(`OneCounty` of ElectionResolution). And no order of the providers keeps
geocoding transactions from locking each other out: a batch whose provider is
the first of the order, at a first voter that finds nothing there and stores an
answer of the second, and then at another voter of the household whom the first
does answer, waits for geocode-all, which holds the first's row and waits for
the second's (`FirstIsEnough` of GeocoderAnswers). PostgreSQL aborts one of
them, which fails the job or the request.

The modules written after the core state further claims of documents and code
which TLC refutes. They are operators without a run of their own, marked in
their modules; each is followed there by, or beside, the property that does
hold.

| operator | claim | what the code does |
|---|---|---|
| `Meetings!ReorderSucceeds` | an order that an admin gives is taken (`specs/007-meeting-records/spec.md:73`) | a permutation is refused by the immediate unique index when a row is moved to a place not left yet (`services/agenda_item_service.py:304`) |
| `Meetings!ReorderPlacesAll` | the items are displayed in the order given (`specs/007-meeting-records/spec.md:73`) | only rows whose place changes are written (`services/agenda_item_service.py:304`), so one that another request deletes or moves meanwhile is out of order; it takes three items |
| `Meetings!CascadeReachesAll` | deleting a meeting deletes all child records (`specs/007-meeting-records/spec.md:134`) | attachments and embeds of its agenda items stay active (`services/meeting_service.py:320`) |
| `AddressBackfill!EachVoterLinked` | each unlinked voter is linked (docstring, `services/address_service.py:127`) | a run skips as many as it links (`:162`) |
| `ElectionRefresh!RefreshReplacesAll` | a refresh replaces the full result set (`specs/004-election-tracking/spec.md:109`) | counties that the new feed lacks keep the old feed's numbers (`services/election_service.py:673-700`) |
| `Accounts!OnlyLatestActive` | only the latest reset token is active (`models/auth_tokens.py:22`) | two requests that overlap leave two (`services/auth_service.py:398`) |
| `Officials!OnePerSeat` | one record per seat at a time (`models/elected_official.py:39`) | a seat has one per name |
| `CandidateImport!CreatedIsListed`, `FilterIsFresh` | a candidate that is created is listed, and filters go by its status (`specs/010-election-info/spec.md:62`, `:63`, `:120`) | lists join the candidacy, which an admin's creation and edits do not write (`services/candidate_service.py:112-169`) |
| `CandidateImport!OneElection` | names are normalised to one spelling (docstring of `lib/election_name_normalizer.py`) | two imports that overlap create the contest under two |
| `JsonlImport!ValidFileLoads` | a file of valid records loads | a column that some records of a sub-batch have is NULL for the others, which fails where the column is required (`services/election_import_service.py:53-58`) |
| `ResultsImport!PartyFilled`, `ItemsApart`, `CountsAddUp` | a missing party is filled; items have elections of their own; counts add up | `services/results_import_service.py:206` against `:264`, `:116`, `:341` |
| `ElectionResolution!EveryCounty`, `NoneDeleted` | a district election gets its county's rows; deleted elections get none | districts are keyed without the county (`services/election_resolution_service.py:457` against `:626`); dates are counted with deleted elections (`:202`) |
| `BoundaryImports!CompletedStays` | a completed import's boundaries stay | a later import with a county takes over the row of one without (`services/boundary_service.py:142`) |
| `AbsenteeBallots!OnceImported` | an application is there once | records without a date never conflict |
| `Publishing!NobodysEntryLost` | a filtered publish keeps the other types' entries (`specs/002-static-dataset-publish/spec.md:53`, `:98`) | of two that overlap the later manifest lacks the earlier's entry (`services/publish_service.py:277-290`) |
| `Exports!AsOfRequest`, `EachOnce` | an export shows the data as of the request (`specs/001-voter-data-management/spec.md:121`), a voter once (`:107`) | the query runs later (`services/export_service.py:198`); a filter by match status joins every run's results (`:143-149`) |
| `ElectionAnswers!NothingOldForADay` | only finalized results are cached for a day (`specs/004-election-tracking/plan.md:112`) | the county GeoJSON reads its rows before it reads the status (`api/v1/elections.py:397`) |
| `PrecinctMaps!OneShapeEach` | a shape has one precinct | one found by `precinct_id` and another by `sos_id`, or two by name, share it (`services/precinct_metadata_service.py:275-291`) |
| `GeocoderAnswers!FallbackUsed`, `LinkKept` | with fallback a voter without an EXACT result has every provider asked (`schemas/geocoding.py:43`); a cached row keeps its address | a row cached under the job's provider ends the search (`services/geocoding_service.py:570-576`); a store without a link overwrites it |

## 6. What is not modelled

HTTP, JSON, provider responses, file parsing and encodings, geometry, SQL
filters of read-only endpoints, cryptography and configuration: I/O or pure
functions of their input, whose results the models take as arbitrary values. A
provider's answer, a record's validity and a query's row count are
nondeterministic choices.

Components left out, or left partly out, and why:

- **Voter queries and statistics, audit log**: read-only SQL, and inserts that
  nothing reads back.
- **HTTP middleware**: a per-process window counter that is read and written
  without an await in between, so nothing interleaves.
- **File format tools** (converter, normalizer, district parser, data loader):
  text to text; their output is an input of the import models.
- **Login, lockout, passkeys and session tokens**: cryptographic exchanges of
  one user; Accounts has enrolment, resets and invitations.
- **Crosswalk and county reference data**: loaded once from files.
- **Text search, paging and boundary filters** of the election list: SQL over
  one snapshot.

## 7. Plan

Written, in this order because a wrong geocoding or import corrupts the data
everything else reads: TaskRunner, GeocodingJobs, VoterLocations,
ImportBracket, VoterImport, VoterHistoryImport, with their proofs; then the
records (AnalysisRuns, DistrictChecks, Meetings, Accounts, Officials,
ElectionRefresh, AddressBackfill), the other imports and the resolution, and
the answers (GeocoderAnswers, ElectionAnswers, PrecinctMaps, Publishing,
Exports).

Proved since: the records and the task runner (RecordsProofs), the answers
(AnswersProofs), and the other imports and the resolution (ImportsProofs,
ElectionDataProofs).

Next: a composition of candidate, JSONL and results imports and the
resolution, which share the elections table and are modelled apart.

## 8. Running the checks

```
tlc -workers 2 -config MCGeocodingJobs_two.cfg MCGeocodingJobs
tlapm GeocodingJobsProofs.tla
```

Each run of section 3 has a `.cfg`; `PROJECT.json` has the list with its
module. The longest run takes about three minutes.
