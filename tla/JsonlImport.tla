------------------------------ MODULE JsonlImport ------------------------------
(***************************************************************************)
(* The import of election data from JSONL files: events, elections,        *)
(* candidates and candidacies, one file each, in the order their foreign   *)
(* keys ask for.  A file is upserted by id in one transaction, a statement *)
(* per sub-batch; the first file that fails ends the command, and the      *)
(* files before it stay loaded.  A command loads the directory or one      *)
(* file, may be interrupted anywhere and run again, and runs beside the    *)
(* edits of admins and of other imports.                                   *)
(***************************************************************************)
EXTENDS Naturals, Sequences, FiniteSets

CONSTANTS Ids,         \* row ids
          Values,      \* of the data columns
          Directories, \* what the files hold: table -> records, in their order
          SubBatch,    \* _UPSERT_SUB_BATCH
          MaxRuns,     \* bound on commands
          MaxEdits     \* bound on edits

Null        == "null"
Placeholder == "placeholder"  \* the converter's id of an event it could not resolve

(* The order of the files in the pipeline, and the columns of each table   *)
(* by what becomes of them: the key that is unique with another id's, the  *)
(* references, and the data.                                               *)
Pipeline == [events |-> 1, elections |-> 2, candidates |-> 3, candidacies |-> 4]
Tables   == DOMAIN Pipeline
Columns  == [events      |-> {"name", "url"},
             elections   |-> {"name", "event", "url", "interval", "status"},
             candidates  |-> {"full_name", "bio"},
             candidacies |-> {"candidate", "election", "filing", "incumbent", "order", "party"}]

(* Columns that cannot be NULL, and what an insert gives a column it omits. *)
Required   == {"name", "full_name", "candidate", "election", "filing", "incumbent",
               "interval", "status"}
Default(c) == IF c \in {"status", "filing", "incumbent", "interval"} THEN "default" ELSE Null

(* A record of a file is valid: it gives what has no default, and the      *)
(* converter leaves only events open.                                      *)
DirectoryAssumption ==
  /\ SubBatch \in Nat \ {0}
  /\ \A d \in Directories : \A t \in DOMAIN d :
       /\ t \in Tables /\ d[t] \in Seq({d[t][n] : n \in DOMAIN d[t]})
       /\ \A n \in DOMAIN d[t] :
            /\ "id" \in DOMAIN d[t][n]
            /\ \A c \in Required \cap Columns[t] : Default(c) = Null =>
                 c \in DOMAIN d[t][n] /\ d[t][n][c] # Null
            /\ \A c \in DOMAIN d[t][n] : d[t][n][c] = Placeholder => c = "event"

VARIABLES
  dir,     \* the directory
  rows,    \* committed: table -> (id -> column -> value)
  draft,   \* rows written in the command's open transaction
  run,     \* the command
  told,    \* what the last dry run of a table said, until something changed
  base,    \* history: the committed rows when the last edit was done
  edits

vars == <<dir, rows, draft, run, told, base, edits>>

NoRun == [files |-> {}, dry |-> FALSE, sent |-> 0, counts |-> <<0, 0>>, whole |-> FALSE,
          n |-> 0, loaded |-> FALSE]
Unsaid  == <<"unsaid">>
Nothing == [i \in {} |-> Null]
Over(f, g) == [x \in DOMAIN f \cup DOMAIN g |-> IF x \in DOMAIN f THEN f[x] ELSE g[x]]

Init ==
  /\ dir \in Directories
  /\ rows = [t \in Tables |-> Nothing] /\ base = rows
  /\ draft = Nothing
  /\ run = NoRun
  /\ told = [t \in Tables |-> Unsaid]
  /\ edits = 0

-----------------------------------------------------------------------------
(* A file's records as _prepare_record leaves them: a record has the       *)
(* columns it gives a value for, and the ones with a default.              *)
Given(t, r)         == {c \in Columns[t] \cap DOMAIN r : r[c] # Null}
Pick(r, cols)       == [c \in cols \cup {"id"} |-> r[c]]
WithDefault(c, r)   == Over(r, [x \in {c} |-> Default(x)])
PrepareEvent(r)     == Pick(r, Given("events", r))
PrepareElection(r)  ==
  WithDefault("status", Pick(r, {c \in Given("elections", r) : r[c] # Placeholder}))
PrepareCandidate(r) == Pick(r, Given("candidates", r))
PrepareCandidacy(r) ==
  WithDefault("filing", WithDefault("incumbent",
    Over(Pick(r, Given("candidacies", r)), [order |-> Null, party |-> Null])))
Prepare(t, r) ==
  CASE t = "events" -> PrepareEvent(r) [] t = "elections" -> PrepareElection(r)
    [] t = "candidates" -> PrepareCandidate(r) [] t = "candidacies" -> PrepareCandidacy(r)

Records(t) == [i \in DOMAIN dir[t] |-> Prepare(t, dir[t][i])]
AllKeys(t) == (UNION {DOMAIN Records(t)[i] : i \in DOMAIN Records(t)}) \ {"id"}

(* Every record gets every column some record has: without a value, NULL.  *)
Normalized(t, r) == [c \in AllKeys(t) |-> IF c \in DOMAIN r THEN r[c] ELSE Null]
Coalesce(a, b)   == IF a = Null THEN b ELSE a
Inserted(t, r) ==
  [c \in Columns[t] |-> IF c \in AllKeys(t) THEN Normalized(t, r)[c] ELSE Default(c)]

(* The update clauses: what becomes of an existing row, whose values for   *)
(* the columns of the file are old, when the record says new.  Candidacies *)
(* keep their candidate and election.                                      *)
UpdateEvent(old, new)          == new
UpdateElectionCurates(old, new) == [new EXCEPT !.status = Coalesce(@, old.status)]
UpdateElection(old, new)       == [new EXCEPT !.status = Coalesce(old.status, @)]
UpdateCandidate(old, new)      ==
  [c \in DOMAIN new |-> IF c = "bio" THEN Coalesce(new[c], old[c]) ELSE new[c]]
UpdateCandidacy(old, new)      ==
  [old EXCEPT !.filing = new.filing, !.incumbent = new.incumbent, !.order = new.order,
              !.party = Coalesce(new.party, @)]
Updated(t, old, r) ==
  LET new == Normalized(t, r)
  IN Over(CASE t = "events" -> UpdateEvent(old, new) [] t = "elections" -> UpdateElection(old, new)
            [] t = "candidates" -> UpdateCandidate(old, new)
            [] t = "candidacies" -> UpdateCandidacy(old, new), old)

(* One INSERT ... ON CONFLICT (id) DO UPDATE of the records in batch.      *)
Seen(t) == Over(draft, rows[t])
After(t, batch) ==
  LET At(i) == batch[CHOOSE n \in DOMAIN batch : batch[n].id = i]
      Row(i) == IF i \in DOMAIN Seen(t) THEN Updated(t, Seen(t)[i], At(i)) ELSE Inserted(t, At(i))
  IN Over([i \in {batch[n].id : n \in DOMAIN batch} |-> Row(i)], Seen(t))

Twice(batch)    == \E n, k \in DOMAIN batch : n < k /\ batch[n].id = batch[k].id
NullIn(t, b)    == \E n \in DOMAIN b : \E c \in Required \cap AllKeys(t) :
                     Normalized(t, b[n])[c] = Null
Unique(t)       == CASE t \in {"events", "elections"} -> {"name"}
                     [] t = "candidacies" -> {"candidate", "election"}
                     [] OTHER -> {}
Collides(t, rs) == Unique(t) # {} /\ \E i, k \in DOMAIN rs :
                     i # k /\ \A c \in Unique(t) : rs[i][c] = rs[k][c]
Refers(t)       == CASE t = "elections" -> [event |-> "events"]
                     [] t = "candidacies" -> [candidate |-> "candidates", election |-> "elections"]
                     [] OTHER -> Nothing
Dangles(t, rs)  == \E i \in DOMAIN rs, c \in DOMAIN Refers(t) :
                     rs[i][c] # Null /\ rs[i][c] \notin DOMAIN rows[Refers(t)[c]]

-----------------------------------------------------------------------------
(* The command.  A file that is not there is skipped.                      *)
Running == run.files # {}
Table   == CHOOSE t \in run.files : \A u \in run.files : Pipeline[t] <= Pipeline[u]

ImportElectionData(dry) ==
  /\ ~Running /\ run.n < MaxRuns
  /\ run' = [NoRun EXCEPT !.files = DOMAIN dir, !.dry = dry, !.whole = ~dry, !.n = run.n + 1]
  /\ UNCHANGED <<dir, rows, draft, told, base, edits>>

ImportFile(t, dry) ==
  /\ ~Running /\ run.n < MaxRuns /\ t \in DOMAIN dir
  /\ run' = [NoRun EXCEPT !.files = {t}, !.dry = dry, !.n = run.n + 1]
  /\ UNCHANGED <<dir, rows, draft, told, base, edits>>

(* The next file, or the end of the command: of a whole one, everything is *)
(* loaded.                                                                 *)
Advance ==
  run' = [run EXCEPT !.files = @ \ {Table}, !.sent = 0, !.counts = <<0, 0>>,
                     !.loaded = run.whole /\ run.files = {Table}]
Stop == run' = [run EXCEPT !.files = {}, !.sent = 0, !.counts = <<0, 0>>]

Counts(t) ==
  LET there == {n \in DOMAIN Records(t) : Records(t)[n].id \in DOMAIN rows[t]}
  IN <<Len(Records(t)) - Cardinality(there), Cardinality(there)>>

DryRun ==
  /\ Running /\ run.dry /\ Records(Table) # <<>>
  /\ told' = [told EXCEPT ![Table] = Counts(Table)]
  /\ Advance
  /\ UNCHANGED <<dir, rows, draft, base, edits>>

Batch == SubSeq(Records(Table), run.sent + 1,
                IF run.sent + SubBatch < Len(Records(Table)) THEN run.sent + SubBatch
                ELSE Len(Records(Table)))
Refused ==
  Twice(Batch) \/ NullIn(Table, Batch) \/ Collides(Table, After(Table, Batch))
    \/ Dangles(Table, After(Table, Batch))

UpsertBatch ==
  /\ Running /\ ~run.dry /\ run.sent < Len(Records(Table)) /\ ~Refused
  /\ draft' = [i \in DOMAIN draft \cup {Batch[n].id : n \in DOMAIN Batch} |->
                 After(Table, Batch)[i]]
  /\ LET new == {n \in DOMAIN Batch : Batch[n].id \notin DOMAIN Seen(Table)}
     IN run' = [run EXCEPT !.sent = @ + Len(Batch),
                           !.counts = <<@[1] + Cardinality(new),
                                        @[2] + Len(Batch) - Cardinality(new)>>]
  /\ UNCHANGED <<dir, rows, told, base, edits>>

CommitFile ==
  /\ Running /\ ~run.dry /\ Records(Table) # <<>> /\ run.sent = Len(Records(Table))
  /\ rows' = [rows EXCEPT ![Table] = Over(draft, @)]
  /\ draft' = Nothing /\ told' = [t \in Tables |-> Unsaid]
  /\ Advance
  /\ UNCHANGED <<dir, base, edits>>

(* No valid record, a statement refused, a fault, or the process killed:   *)
(* the transaction is rolled back and the command ends.                    *)
Fail ==
  /\ Running
  /\ Stop /\ draft' = Nothing
  /\ UNCHANGED <<dir, rows, told, base, edits>>

-----------------------------------------------------------------------------
(* Edits beside it: an admin or the candidate import changes a row that no *)
(* open transaction holds, or adds an election under an id of its own.     *)
(* Between two commands the directory is converted anew.                   *)
Changed ==
  /\ edits < MaxEdits /\ edits' = edits + 1
  /\ base' = rows' /\ run' = [run EXCEPT !.whole = FALSE, !.loaded = FALSE]
  /\ told' = [t \in Tables |-> Unsaid]
  /\ UNCHANGED draft
Edited == Changed /\ UNCHANGED dir
EditRow(t, i, c, v) ==
  /\ i \in DOMAIN rows[t] /\ ~(Running /\ Table = t /\ i \in DOMAIN draft)
  /\ c \in Columns[t] \ (Unique(t) \cup DOMAIN Refers(t))
  /\ rows' = [rows EXCEPT ![t][i][c] = v]
  /\ Edited
Elections == IF Running /\ Table = "elections" THEN Seen("elections") ELSE rows["elections"]
AddElection(i, name) ==
  /\ i \notin DOMAIN Elections /\ \A k \in DOMAIN Elections : Elections[k].name # name
  /\ rows' = [rows EXCEPT !["elections"] =
                Over([x \in {i} |-> [c \in Columns["elections"] |->
                                       IF c = "name" THEN name ELSE Default(c)]], @)]
  /\ Edited
Convert(d) ==
  /\ ~Running /\ d # dir /\ dir' = d
  /\ UNCHANGED rows
  /\ Changed

Next ==
  \/ \E dry \in BOOLEAN : ImportElectionData(dry) \/ \E t \in Tables : ImportFile(t, dry)
  \/ DryRun \/ UpsertBatch \/ CommitFile \/ Fail
  \/ \E t \in Tables, i \in Ids, c \in {"url", "status", "bio", "incumbent", "party"},
        v \in Values : EditRow(t, i, c, v)
  \/ \E i \in Ids, v \in Values : AddElection(i, v)
  \/ \E d \in Directories : Convert(d)
Spec == Init /\ [][Next]_vars

-----------------------------------------------------------------------------
(* What a row must hold for a column: the columns that never change, the   *)
(* ones only filled once, the ones whose value a NULL does not erase, and   *)
(* the one it always does.                                                 *)
Fixed       == {"candidate", "election"}
Curated     == {"status"}
Richer      == {"bio", "party"}
Overwritten == {"order"}

(* Whatever was loaded, refused or cut short before: once the directory    *)
(* was loaded without an edit in between, a row holds what its record and  *)
(* the row of before ask for, and every other row is as it was.            *)
RecordsOf(t, i) == {n \in DOMAIN dir[t] : dir[t][n].id = i}
Asked(t, i, c)  == LET n == CHOOSE n \in RecordsOf(t, i) : \A k \in RecordsOf(t, i) : k <= n
                   IN IF c \in DOMAIN dir[t][n] THEN dir[t][n][c] ELSE Null
Anyone(t, c)    == \E n \in DOMAIN dir[t] : c \in DOMAIN dir[t][n]
                                             /\ dir[t][n][c] \notin {Null, Placeholder}
Held(T, i, c)   == IF i \in DOMAIN T THEN T[i][c] ELSE Null
Due(t, i, c, held) ==
  LET asked == Asked(t, i, c)
  IN  IF \/ c \in Fixed \cup Curated /\ held # Null
         \/ c \in Richer /\ asked = Null      THEN {held}
      ELSE IF asked = Placeholder            THEN {Null, held}
      ELSE IF asked # Null                   THEN {asked}
      ELSE IF c \in Required                 THEN {Default(c), held}
      ELSE {IF c \in Overwritten \/ Anyone(t, c) THEN Null ELSE held}
LoadedAsAsked ==
  run.loaded =>
    \A t \in DOMAIN dir : \A i \in Ids :
      IF RecordsOf(t, i) = {} THEN i \in DOMAIN rows[t] <=> i \in DOMAIN base[t]
      ELSE /\ i \in DOMAIN rows[t]
           /\ Cardinality(RecordsOf(t, i)) = 1 =>
                \A c \in Columns[t] : rows[t][i][c] \in Due(t, i, c, Held(base[t], i, c))

(* A file is loaded whole or not at all: when no command runs, a table has *)
(* all rows of its file or only rows it had before.                        *)
WholeFiles ==
  \A t \in DOMAIN dir :
    LET asked == {dir[t][n].id : n \in DOMAIN dir[t]}
    IN asked \subseteq DOMAIN rows[t] \/ DOMAIN rows[t] = DOMAIN base[t]

(* A file that loads, with nothing changed since its dry run, inserts and  *)
(* updates as many rows as that said.                                      *)
DryRunTells ==
  Running /\ ~run.dry /\ run.sent = Len(Records(Table)) /\ told[Table] # Unsaid
    /\ Len(Records(Table)) <= SubBatch => run.counts = told[Table]

FilesHold == LoadedAsAsked /\ WholeFiles /\ DryRunTells

(* What does not hold: that a file of valid records, whose references and  *)
(* names are free, is not refused.                                         *)
ValidFileLoads ==
  Running /\ ~run.dry /\ Refused =>
    Twice(Batch) \/ Collides(Table, After(Table, Batch)) \/ Dangles(Table, After(Table, Batch))
=============================================================================
