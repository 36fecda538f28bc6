---------------------------- MODULE CandidateImport ----------------------------
(***************************************************************************)
(* Candidates: the import of candidate files, in the server or from the    *)
(* command line, and the admin's edits.  A file is read in chunks; a chunk *)
(* first resolves or creates the election of each record, one statement    *)
(* at a time, and then upserts candidates, candidacies and links in the    *)
(* same transaction.  Elections are found by name in any spelling, and are *)
(* unique by exact spelling only; what was found is kept for records of    *)
(* the same contest and the same place, so that a contest is looked up     *)
(* again for each of its places.  A statement that fails while a record is *)
(* resolved is caught, but its transaction is lost.  The county and the    *)
(* municipality that a lookup fills in are left out.                       *)
(***************************************************************************)
EXTENDS Naturals, Sequences, FiniteSets

CONSTANTS Contests, \* names of contests, normalised
          Forms,    \* spellings of such a name
          People,   \* full names
          Jobs,
          Records,  \* what a line may say: [who, contest, form, place, filing, site]
          Files,    \* Files[j]: the chunks of records of the file of job j
          MaxEdits  \* bound on edits of an admin

None == "none"
(* The rows there can be: by exact name, and by how many rows of that name  *)
(* were removed before.                                                    *)
Elections  == Contests \X Forms \X Nat
Candidates == Elections \X People                 \* uq_candidate_election_name
Filings    == {"qualified", "withdrawn", "disqualified"}

VARIABLES
  elections,  \* committed, live rows of elections
  gone,       \* rows that were removed
  candidate,  \* candidates: row -> [filing, by], if in the domain
  candidacy,  \* candidacies: <<candidate, election>> -> [filing, by], if in the domain
  link,       \* candidate_links of type website: candidate -> url, if in the domain
  job,        \* import_jobs and the coroutine of each
  new,        \* elections the open transaction of a job has created
  edits

vars == <<elections, gone, candidate, candidacy, link, job, new, edits>>

(* What the parser yields of a line: a status outside the allowed set is a *)
(* parse error.  One the validator allows and the table does not is        *)
(* rewritten.                                                              *)
Valid(r)  == r.filing \in {"qualified", "withdrawn", "disqualified", "deceased"}
Filing(r) == IF r.filing \in Filings THEN r.filing ELSE "qualified"

CandidateAssumption ==
  /\ None \notin Jobs /\ Forms # {}
  /\ Files \in [Jobs -> Seq(Seq(Records))]
  /\ \A r \in Records : Valid(r) => r.contest \in Contests /\ r.form \in Forms /\ r.who \in People

(* cache: the election of a contest at a place; kept: that of each record  *)
(* of the chunk that is kept.  wrote is a history: the same for the chunks *)
(* that are committed.                                                     *)
NoJob == [status |-> "none", pc |-> "idle", offset |-> 0, pos |-> 1, cache |-> <<>>,
          kept |-> <<>>, wrote |-> <<>>, lost |-> FALSE, total |-> 0, good |-> 0,
          errors |-> 0]

Init ==
  /\ elections \in {{}, Contests \X {CHOOSE f \in Forms : TRUE} \X {0}} /\ gone = {}
  /\ candidate = <<>> /\ candidacy = <<>> /\ link = <<>>
  /\ job = [j \in Jobs |-> NoJob]
  /\ new = [j \in Jobs |-> {}]
  /\ edits = 0

Over(f, g) == [x \in DOMAIN f \cup DOMAIN g |-> IF x \in DOMAIN f THEN f[x] ELSE g[x]]
Chunk(j)  == Files[j][job[j].offset + 1]
Record(j) == Chunk(j)[job[j].pos]

CreateJob(j) ==
  /\ job[j].status = "none"
  /\ job' = [job EXCEPT ![j].status = "pending"]
  /\ UNCHANGED <<elections, gone, candidate, candidacy, link, new, edits>>

StartJob(j) ==
  /\ job[j].status = "pending"
  /\ job' = [job EXCEPT ![j].status = "running",
                        ![j].pc = IF Files[j] = <<>> THEN "final" ELSE "resolve"]
  /\ UNCHANGED <<elections, gone, candidate, candidacy, link, new, edits>>

-----------------------------------------------------------------------------
(* _resolve_election, a statement at a time.                               *)
Key(r)     == <<r.contest, r.place>>
Reading(j) == job[j].pc = "resolve" /\ job[j].pos <= Len(Chunk(j))

(* The record is an error, or is kept with its election.                   *)
Err(j) ==
  job' = [job EXCEPT ![j].errors = @ + 1, ![j].pos = @ + 1, ![j].pc = "resolve"]
Keep(j, e) ==
  job' = [job EXCEPT ![j].kept = Over([n \in {job[j].pos} |-> e], @),
                     ![j].cache = Over([c \in {Key(Record(j))} |-> e], @),
                     ![j].pos = @ + 1, ![j].pc = "resolve"]

ParseError(j) ==
  /\ Reading(j) /\ ~Valid(Record(j))
  /\ Err(j)
  /\ UNCHANGED <<elections, gone, candidate, candidacy, link, new, edits>>

Cached(j) ==
  /\ Reading(j) /\ Valid(Record(j)) /\ Key(Record(j)) \in DOMAIN job[j].cache
  /\ Keep(j, job[j].cache[Key(Record(j))])
  /\ UNCHANGED <<elections, gone, candidate, candidacy, link, new, edits>>

(* The rows the query returns, spelling and place ignored.  More than one, *)
(* or a lost transaction, is an error of the record; none means that it is *)
(* created.                                                                *)
Name(j)     == <<Record(j).contest, Record(j).form>>
Named(S, n) == {e \in S : <<e[1], e[2]>> = n}
FoundExact(j, c) == Named(elections \cup new[j], Name(j))
Found(j, c) == {e \in elections \cup new[j] : e[1] = c}
LookUp(j) ==
  /\ Reading(j) /\ Valid(Record(j)) /\ Key(Record(j)) \notin DOMAIN job[j].cache
  /\ LET found == Found(j, Record(j).contest) IN
       \/ (job[j].lost \/ Cardinality(found) > 1) /\ Err(j)
       \/ ~job[j].lost /\ \E e \in found : found = {e} /\ Keep(j, e)
       \/ ~job[j].lost /\ found = {} /\ job' = [job EXCEPT ![j].pc = "create"]
  /\ UNCHANGED <<elections, gone, candidate, candidacy, link, new, edits>>

(* The insert waits for a transaction that holds the same name, and fails  *)
(* if that one commits.                                                    *)
Holds(k, n) == Named(new[k], n) # {}
Created(j)  == <<Record(j).contest, Record(j).form, Cardinality(Named(gone, Name(j)))>>
CreateElection(j) ==
  /\ job[j].pc = "create" /\ \A k \in Jobs \ {j} : ~Holds(k, Name(j))
  /\ Named(elections, Name(j)) = {}
  /\ Keep(j, Created(j))
  /\ new' = [new EXCEPT ![j] = @ \cup {Created(j)}]
  /\ UNCHANGED <<elections, gone, candidate, candidacy, link, edits>>

(* The name is taken, or two transactions wait for each other: the error   *)
(* is logged as the record's, and the transaction is aborted.              *)
Waits(j, k) == job[j].pc = "create" /\ Holds(k, Name(j))
CreateFails(j) ==
  /\ job[j].pc = "create"
  /\ \/ Named(elections, Name(j)) # {}
     \/ \E k \in Jobs \ {j} : Waits(j, k) /\ Waits(k, j)
  /\ job' = [job EXCEPT ![j].errors = @ + 1, ![j].pos = @ + 1, ![j].pc = "resolve",
                        ![j].lost = TRUE]
  /\ new' = [new EXCEPT ![j] = {}]
  /\ UNCHANGED <<elections, gone, candidate, candidacy, link, edits>>

-----------------------------------------------------------------------------
(* The writes of a chunk.  Records of one candidate: the last is kept.     *)
Row(j, n) == <<job[j].kept[n], Chunk(j)[n].who>>
DeduplicateFirst(j) ==
  {n \in DOMAIN job[j].kept : \A m \in DOMAIN job[j].kept : m < n => Row(j, m) # Row(j, n)}
Deduplicate(j) ==
  {n \in DOMAIN job[j].kept : \A m \in DOMAIN job[j].kept : n < m => Row(j, m) # Row(j, n)}

(* The ids RETURNING gives, put back in the order of the records.          *)
ResolvedIdsUnordered(j, batch) ==
  [n \in batch |-> Row(j, CHOOSE m \in batch : Cardinality({x \in batch : x < m})
                                             = Cardinality({x \in batch : n < x}))]
ResolvedIds(j, batch) == [n \in batch |-> Row(j, n)]

(* Two links of one candidate in a statement: it fails.                    *)
Linked(j)  == {n \in DOMAIN job[j].kept : Chunk(j)[n].site # None}
Clashes(j) == \E n, m \in Linked(j) : n < m /\ Row(j, n) = Row(j, m)

Place(j, batch, row) == CHOOSE n \in batch : Row(j, n) = row
UpsertCandidates(j, batch) ==
  Over([c \in {Row(j, n) : n \in batch} |->
          [filing |-> Filing(Chunk(j)[Place(j, batch, c)]), by |-> j]], candidate)
UpsertCandidacies(j, batch) ==
  LET ids == ResolvedIds(j, batch)
      At(n) == <<ids[n], job[j].kept[n]>>
  IN  Over([p \in {At(n) : n \in batch} |->
              [filing |-> Filing(Chunk(j)[CHOOSE n \in batch : At(n) = p]), by |-> j]], candidacy)
UpsertLinks(j) ==
  Over([c \in {Row(j, n) : n \in Linked(j)} |-> Chunk(j)[Place(j, Linked(j), c)].site], link)

Written(j) ==
  Over([p \in {job[j].offset + 1} \X DOMAIN job[j].kept |-> job[j].kept[p[2]]], job[j].wrote)

(* The chunk's last step: its writes, the checkpoint, and the commit.      *)
AtEnd(j) == job[j].pc = "resolve" /\ job[j].pos > Len(Chunk(j))
CommitChunk(j) ==
  /\ AtEnd(j) /\ ~job[j].lost /\ ~Clashes(j)
  /\ elections' = elections \cup new[j]
  /\ candidate' = UpsertCandidates(j, Deduplicate(j))
  /\ candidacy' = UpsertCandidacies(j, Deduplicate(j))
  /\ link'      = UpsertLinks(j)
  /\ job' = [job EXCEPT ![j].offset = @ + 1, ![j].kept = <<>>, ![j].pos = 1, ![j].wrote = Written(j),
                        ![j].total = @ + Len(Chunk(j)),
                        ![j].good = @ + Cardinality(Deduplicate(j)),
                        ![j].pc = IF job[j].offset + 1 = Len(Files[j]) THEN "final" ELSE @]
  /\ new' = [new EXCEPT ![j] = {}]
  /\ UNCHANGED <<gone, edits>>

Finish(j) ==
  /\ job[j].pc = "final"
  /\ job' = [job EXCEPT ![j].status = "completed", ![j].pc = "idle"]
  /\ UNCHANGED <<elections, gone, candidate, candidacy, link, new, edits>>

(* A write in a lost transaction or with clashing links, or any fault: all *)
(* of the chunk is rolled back and the job fails.                          *)
Fail(j) ==
  /\ job[j].pc # "idle"
  /\ job' = [job EXCEPT ![j].status = "failed", ![j].pc = "idle"]
  /\ new' = [new EXCEPT ![j] = {}]
  /\ UNCHANGED <<elections, gone, candidate, candidacy, link, edits>>

-----------------------------------------------------------------------------
(* The admin's requests.  A taken name or link is refused.                 *)
Edit == edits < MaxEdits /\ edits' = edits + 1

CreateCandidate(c, filing) ==
  /\ Edit /\ c[1] \in elections /\ c \notin DOMAIN candidate
  /\ candidate' = Over([d \in {c} |-> [filing |-> filing, by |-> None]], candidate)
  /\ UNCHANGED <<elections, gone, candidacy, link, job, new>>

UpdateCandidate(c, filing) ==
  /\ Edit /\ c \in DOMAIN candidate
  /\ candidate' = [candidate EXCEPT ![c].filing = filing]
  /\ UNCHANGED <<elections, gone, candidacy, link, job, new>>

(* The candidacies and the links go with the row.                          *)
DeleteCandidate(c) ==
  /\ Edit /\ c \in DOMAIN candidate
  /\ candidate' = [d \in DOMAIN candidate \ {c} |-> candidate[d]]
  /\ candidacy' = [p \in {q \in DOMAIN candidacy : q[1] # c} |-> candidacy[p]]
  /\ link' = [d \in DOMAIN link \ {c} |-> link[d]]
  /\ UNCHANGED <<elections, gone, job, new>>

AddLink(c, url) ==
  /\ Edit /\ c \in DOMAIN candidate /\ c \notin DOMAIN link
  /\ link' = Over([d \in {c} |-> url], link)
  /\ UNCHANGED <<elections, gone, candidate, candidacy, job, new>>
DeleteLink(c) ==
  /\ Edit /\ c \in DOMAIN link
  /\ link' = [d \in DOMAIN link \ {c} |-> link[d]]
  /\ UNCHANGED <<elections, gone, candidate, candidacy, job, new>>

(* An admin removes an election, or renames it: it is no longer found.  A  *)
(* new name that is that of another contest is left out.                   *)
RemoveElection(e) ==
  /\ Edit /\ e \in elections
  /\ elections' = elections \ {e} /\ gone' = gone \cup {e}
  /\ UNCHANGED <<candidate, candidacy, link, job, new>>

Import(j) ==
  \/ CreateJob(j) \/ StartJob(j) \/ ParseError(j) \/ Cached(j) \/ LookUp(j)
  \/ CreateElection(j) \/ CreateFails(j) \/ CommitChunk(j) \/ Finish(j) \/ Fail(j)
Admin ==
  \/ \E e \in elections, w \in People, f \in Filings : CreateCandidate(<<e, w>>, f)
  \/ \E c \in DOMAIN candidate :
       \/ \E f \in Filings : UpdateCandidate(c, f)
       \/ DeleteCandidate(c) \/ AddLink(c, "admin") \/ DeleteLink(c)
  \/ \E e \in elections : RemoveElection(e)

Next == (\E j \in Jobs : Import(j)) \/ Admin
Spec == Init /\ [][Next]_vars

-----------------------------------------------------------------------------
(* The list of an election's candidates, all or of one status.             *)
ListCandidates(e, status) ==
  {p[1] : p \in {q \in DOMAIN candidacy :
                   q[2] = e /\ (status = None \/ candidacy[q].filing = status)}}

(* A candidate that an import wrote is listed for the election it stands   *)
(* in and for no other, whatever was edited since.                         *)
ImportedIsListed ==
  \A c \in DOMAIN candidate : candidate[c].by # None =>
    /\ c \in ListCandidates(c[1], None)
    /\ \A p \in DOMAIN candidacy : c \in ListCandidates(p[2], None) => p[2] = c[1]

(* A candidacy says what the last record says of those that name it and    *)
(* were kept, in the chunks up to the checkpoint of the job that wrote it. *)
Places(j, n) == UNION {{c} \X DOMAIN Files[j][c] : c \in 1 .. n}
At(j, p)     == Files[j][p[1]][p[2]]
UpTo(p, q)   == p[1] < q[1] \/ (p[1] = q[1] /\ p[2] <= q[2])
Naming(j, c) == {p \in DOMAIN job[j].wrote : job[j].wrote[p] = c[1] /\ At(j, p).who = c[2]}
LastRecordWins ==
  \A p \in DOMAIN candidacy : \E q \in Naming(candidacy[p].by, p[1]) :
    /\ \A r \in Naming(candidacy[p].by, p[1]) : UpTo(r, q)
    /\ candidacy[p].filing = Filing(At(candidacy[p].by, q))

(* The records of a contest that a job writes stand in one election, under *)
(* whatever spelling, at whatever place and beside whatever else commits,  *)
(* unless an election of theirs was removed meanwhile.                     *)
ContestStaysWhole ==
  \A j \in Jobs : \A p, q \in DOMAIN job[j].wrote :
    At(j, p).contest = At(j, q).contest =>
      \/ job[j].wrote[p] = job[j].wrote[q]
      \/ job[j].wrote[p] \in gone \/ job[j].wrote[q] \in gone

(* A completed job has read every record, and counts each as written or as *)
(* an error, except one whose candidate a later record of its chunk names. *)
Again(j) == {p \in Places(j, Len(Files[j])) :
               Valid(At(j, p)) /\ \E n \in DOMAIN Files[j][p[1]] :
                 LET r == Files[j][p[1]][n]
                 IN  p[2] < n /\ Valid(r) /\ r.who = At(j, p).who /\ r.contest = At(j, p).contest}
CountsAddUp ==
  \A j \in Jobs : job[j].status = "completed" =>
    /\ job[j].total = Cardinality(Places(j, Len(Files[j])))
    /\ job[j].good + job[j].errors \in (job[j].total - Cardinality(Again(j)))..job[j].total

RosterHolds == ImportedIsListed /\ LastRecordWins /\ ContestStaysWhole /\ CountsAddUp

(* What does not hold.  A candidate an admin creates is listed; the status *)
(* filter goes by the candidate's status; a contest has one election.      *)
CreatedIsListed == \A c \in DOMAIN candidate : c \in ListCandidates(c[1], None)
FilterIsFresh ==
  \A f \in Filings : \A c \in DOMAIN candidate :
    c \in ListCandidates(c[1], f) => candidate[c].filing = f
OneElection == \A e, f \in elections : e[1] = f[1] => e = f
=============================================================================
