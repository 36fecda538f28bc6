------------------------------ MODULE VoterImport ------------------------------
(***************************************************************************)
(* Voter file imports: each loads one county's file in chunks, every chunk *)
(* one transaction, then soft-deletes the county's voters that were not in *)
(* it.  Imports of different counties run at the same time: the API's task *)
(* runner lets two through, the seed command gathers all of them, and each *)
(* command line has a process of its own.                                  *)
(*                                                                         *)
(* The drop and rebuild of indexes around an import is ImportBracket; the  *)
(* runner's permits, which only delay Begin, are TaskRunner.               *)
(***************************************************************************)
EXTENDS Naturals, FiniteSets

CONSTANTS Voters,     \* voter registration numbers
          Counties,
          Imports,    \* import job ids
          CountyOf,   \* the county of the file that an import loads
          Cli,        \* imports of a command line; the others are the server's
          Capped,     \* imports that may have a max_records limit (seed command)
          ChunkSize,  \* bound on records of one chunk (5000 in the code)
          MaxRunning, \* bound on imports under way at the same time
          MaxFaults,  \* bound on exceptions raised in an import
          MaxCrashes, \* bound on the server's stops and crashes
          MaxLosses   \* bound on failures that leave a job's row open

ASSUME ImportsAssumption ==
  /\ CountyOf \in [Imports -> Counties]
  /\ Cli \subseteq Imports /\ Capped \subseteq Cli
  /\ "none" \notin Counties \cup Imports
ASSUME ImportBounds ==
  /\ ChunkSize \in Nat \ {0} /\ MaxRunning \in Nat
  /\ MaxFaults \in Nat /\ MaxCrashes \in Nat /\ MaxLosses \in Nat

VARIABLES
  srv,    \* the API server process: "down", "up", or "stopping"
  voters, \* the voters table: [county, present, seen], county "none" if no row;
          \* seen is last_seen_in_import_id; by: who soft-deleted it (history)
  status, \* import_jobs.status
  pc,     \* where the coroutine of an import stands
  todo,   \* records of the file not processed yet
  county, \* import_county, detected in the file's first chunk
  kept,   \* imported_reg_numbers
  absent, \* absent_list of the soft delete
  spent   \* history: the faults used up, and have imports overlapped

locals == <<todo, county, kept, absent>>
vars   == <<srv, voters, status, pc, locals, spent>>

LivePcs == {"created", "chunks", "absentees", "completing", "failing"}
Status  == {"none", "pending", "running", "completed", "failed", "abandoned"}
BodyPcs == {"chunks", "absentees", "completing"}

Open(j)     == status[j] \in {"pending", "running"}
Live(j)     == pc[j] \in LivePcs
Local(j)    == Live(j) /\ j \notin Cli       \* dies with the server
Goto(j, l)  == pc' = [pc EXCEPT ![j] = l]
Set(j, s)   == status' = [status EXCEPT ![j] = s]
Spend(kind) == spent' = [spent EXCEPT ![kind] = @ + 1]

(* The table as earlier imports left it.                                   *)
Init == /\ srv = "up"
        /\ voters \in [Voters -> [county : Counties, present : {TRUE},
                                  seen : {"none"}, by : {"none"}]
                               \cup [county : {"none"}, present : {FALSE},
                                     seen : {"none"}, by : {"none"}]]
        /\ status = [j \in Imports |-> "none"]
        /\ pc = [j \in Imports |-> "idle"]
        /\ todo = [j \in Imports |-> {}]
        /\ county = [j \in Imports |-> "none"]
        /\ kept = [j \in Imports |-> {}]
        /\ absent = [j \in Imports |-> {}]
        /\ spent = [fault |-> 0, crash |-> 0, loss |-> 0, overlap |-> FALSE]

-----------------------------------------------------------------------------
(* The import, process_voter_import.                                       *)

(* The job's row is committed and its coroutine handed to the runner, or   *)
(* awaited by the command line; the file holds any set of voters.          *)
Create(j) == /\ pc[j] = "idle"
             /\ j \in Cli \/ srv = "up"
             /\ Cardinality({k \in Imports : Live(k)}) < MaxRunning
             /\ Set(j, "pending")
             /\ Goto(j, "created")
             /\ \E file \in SUBSET Voters : todo' = [todo EXCEPT ![j] = file]
             /\ spent' = [spent EXCEPT !.overlap = @ \/ \E k \in Imports : Live(k)]
             /\ UNCHANGED <<srv, voters, county, kept, absent>>

Begin(j) == /\ pc[j] = "created"
            /\ Set(j, "running")
            /\ Goto(j, "chunks")
            /\ UNCHANGED <<srv, voters, locals, spent>>

(* The records of one chunk: the invalid ones are counted as errors, the   *)
(* others inserted or updated, whatever the county of their row was.       *)
Upserted(j, valid) ==
  [v \in Voters |->
     IF v \in valid
       THEN [county |-> CountyOf[j], present |-> TRUE, seen |-> j, by |-> "none"]
       ELSE voters[v]]

(* Wrong variant: ON CONFLICT DO NOTHING, a voter with a row keeps it.     *)
ChunkInsertOnly(j) ==
  /\ pc[j] = "chunks"
  /\ \E chunk \in SUBSET todo[j] : \E valid \in SUBSET chunk :
       /\ Cardinality(chunk) \in 1..ChunkSize
       /\ voters' = Upserted(j, {v \in valid : voters[v].county = "none"})
       /\ todo' = [todo EXCEPT ![j] = @ \ chunk]
       /\ county' = [county EXCEPT ![j] = CountyOf[j]]
       /\ kept' = [kept EXCEPT ![j] = @ \cup valid]
  /\ UNCHANGED <<srv, status, pc, absent, spent>>

(* The upsert and the checkpoint commit together.                          *)
Chunk(j) == /\ pc[j] = "chunks"
            /\ \E chunk \in SUBSET todo[j] : \E valid \in SUBSET chunk :
                 /\ Cardinality(chunk) \in 1..ChunkSize
                 /\ voters' = Upserted(j, valid)
                 /\ todo' = [todo EXCEPT ![j] = @ \ chunk]
                 /\ county' = [county EXCEPT ![j] = CountyOf[j]]
                 /\ kept' = [kept EXCEPT ![j] = @ \cup valid]
            /\ UNCHANGED <<srv, status, pc, absent, spent>>

(* The file is at its end.                                                *)
Loaded(j) == /\ pc[j] = "chunks" /\ todo[j] = {}
             /\ Goto(j, "absentees")
             /\ UNCHANGED <<srv, voters, status, locals, spent>>

(* An import with a limit has reached it, or the file's end: it must not   *)
(* soft-delete what it did not read.                                       *)
LimitReached(j) == /\ pc[j] = "chunks" /\ j \in Capped
                   /\ todo[j] = {} \/ county[j] # "none"
                   /\ Goto(j, "completing")
                   /\ UNCHANGED <<srv, voters, status, locals, spent>>

(* Wrong variant: the absent are those last seen in another import, which  *)
(* in SQL leaves out those with a NULL there.                              *)
SelectSeenElsewhere(j) ==
  /\ pc[j] = "absentees"
  /\ LET previous == {v \in Voters : voters[v].county = county[j] /\ voters[v].present}
     IN absent' = [absent EXCEPT ![j] = {v \in previous : voters[v].seen \notin {"none", j}}]
  /\ Goto(j, "completing")
  /\ UNCHANGED <<srv, voters, status, todo, county, kept, spent>>

(* The county's present voters are read and those of the file taken away   *)
(* in Python; a file without records has no county and nobody is absent.   *)
SelectAbsent(j) ==
  /\ pc[j] = "absentees"
  /\ LET previous == {v \in Voters : voters[v].county = county[j] /\ voters[v].present}
     IN absent' = [absent EXCEPT ![j] = previous \ kept[j]]
  /\ Goto(j, "completing")
  /\ UNCHANGED <<srv, voters, status, todo, county, kept, spent>>

Removed(j) == [v \in Voters |->
                 IF v \in absent[j] THEN [voters[v] EXCEPT !.present = FALSE, !.by = j]
                                    ELSE voters[v]]

(* Wrong variant: the soft delete is committed before the job completes.   *)
CompleteLater(j) ==
  /\ pc[j] = "completing"
  /\ voters' = Removed(j)
  /\ IF absent[j] = {} THEN Set(j, "completed") /\ Goto(j, "done")
                       ELSE UNCHANGED <<status, pc>>
  /\ absent' = [absent EXCEPT ![j] = {}]
  /\ UNCHANGED <<srv, todo, county, kept, spent>>

(* The absent voters are updated by registration number, and the job is    *)
(* completed in the same transaction.                                      *)
Complete(j) == /\ pc[j] = "completing"
               /\ voters' = Removed(j)
               /\ Set(j, "completed")
               /\ Goto(j, "done")
               /\ UNCHANGED <<srv, locals, spent>>

-----------------------------------------------------------------------------
(* Its failures.                                                           *)

(* An exception, of a query or of the parser, or the database breaking a   *)
(* deadlock between two chunks; the transaction is rolled back.            *)
Raise(j) == /\ spent.fault < MaxFaults /\ Spend("fault")
            /\ pc[j] \in BodyPcs
            /\ Goto(j, "failing")
            /\ UNCHANGED <<srv, voters, status, locals>>

Failed(j) == /\ pc[j] = "failing"
             /\ Set(j, "failed")
             /\ Goto(j, "done")
             /\ UNCHANGED <<srv, voters, locals, spent>>

(* The import ends without an entry in its row: the handler or the first   *)
(* commit raises, the commit of the failure does, or the command line is   *)
(* interrupted or killed.                                                  *)
Lose(j) == /\ spent.loss < MaxLosses /\ Spend("loss")
           /\ pc[j] \in {"created", "failing"} \/ (j \in Cli /\ Live(j))
           /\ Goto(j, "done")
           /\ UNCHANGED <<srv, voters, status, locals>>

(* `import cleanup-jobs`: a failed job never counted its records.           *)
CleanupAbandonedJobs ==
  /\ status' = [j \in Imports |-> IF status[j] = "failed" THEN "abandoned" ELSE status[j]]
  /\ UNCHANGED <<srv, voters, pc, locals, spent>>

-----------------------------------------------------------------------------
(* The server process.                                                     *)

Stop == /\ srv = "up" /\ srv' = "stopping"
        /\ spent.crash < MaxCrashes /\ Spend("crash")
        /\ UNCHANGED <<voters, status, pc, locals>>

(* A stopping loop cancels its tasks; `except Exception` does not see the  *)
(* CancelledError, so the row stays as it is.                              *)
Cancelled(j) == /\ srv = "stopping" /\ Local(j)
                /\ Goto(j, "done")
                /\ UNCHANGED <<srv, voters, status, locals, spent>>

Die == /\ srv' = "down"
       /\ pc' = [j \in Imports |-> IF Local(j) THEN "done" ELSE pc[j]]
       /\ UNCHANGED <<voters, status, locals>>

Crash == /\ srv = "up" /\ Die
         /\ spent.crash < MaxCrashes /\ Spend("crash")

Exit == srv = "stopping" /\ Die /\ UNCHANGED spent

Recovered(S) == status' = [j \in Imports |-> IF status[j] \in S THEN "failed" ELSE status[j]]

(* Wrong variant: jobs that wait for a permit are not recovered.           *)
BootRunningOnly == /\ srv = "down" /\ srv' = "up"
                   /\ Recovered({"running"})
                   /\ UNCHANGED <<voters, pc, locals, spent>>

(* _recover_stale_import_jobs: every open row is taken for an orphan.      *)
Boot == /\ srv = "down" /\ srv' = "up"
        /\ Recovered({"running", "pending"})
        /\ UNCHANGED <<voters, pc, locals, spent>>

(* It raised; the exception is swallowed.                                  *)
BootUnrecovered == /\ srv = "down" /\ srv' = "up"
                   /\ spent.loss < MaxLosses /\ Spend("loss")
                   /\ UNCHANGED <<voters, status, pc, locals>>

-----------------------------------------------------------------------------
Step(j) == \/ Begin(j) \/ Chunk(j) \/ Loaded(j) \/ LimitReached(j)
           \/ SelectAbsent(j) \/ Complete(j) \/ Failed(j)

Next == \/ \E j \in Imports : Create(j) \/ Step(j) \/ Raise(j) \/ Lose(j) \/ Cancelled(j)
        \/ CleanupAbandonedJobs
        \/ Stop \/ Crash \/ Exit \/ Boot \/ BootUnrecovered

Spec == Init /\ [][Next]_vars

(* The imports keep running, a stopping server exits, and is restarted.    *)
FairSpec == /\ Spec
            /\ \A j \in Imports : WF_vars(Step(j))
            /\ WF_vars(Exit)
            /\ WF_vars(Boot \/ BootUnrecovered)

-----------------------------------------------------------------------------
(* Type invariant. *)
Voter == [county : Counties \cup {"none"}, present : BOOLEAN,
          seen : Imports \cup {"none"}, by : Imports \cup {"none"}]

TypeOK == /\ srv \in {"down", "up", "stopping"}
          /\ voters \in [Voters -> Voter]
          /\ status \in [Imports -> Status]
          /\ pc \in [Imports -> LivePcs \cup {"idle", "done"}]
          /\ todo \in [Imports -> SUBSET Voters]
          /\ county \in [Imports -> Counties \cup {"none"}]
          /\ kept \in [Imports -> SUBSET Voters]
          /\ absent \in [Imports -> SUBSET Voters]
          /\ spent \in [fault : Nat, crash : Nat, loss : Nat, overlap : BOOLEAN]

(* Whoever is gone was removed by an import that completed and whose file  *)
(* had no valid record of it: a failed, cut short or crashed import adds   *)
(* voters but removes none, however imports overlap.                       *)
RemovedByCompleted ==
  \A v \in Voters : LET j == voters[v].by IN
    j # "none" => status[j] = "completed" /\ v \notin kept[j] /\ ~voters[v].present

Finishes(j) == pc[j] = "completing" /\ pc'[j] = "done" /\ status'[j] = "completed"

Present(table, c) == {v \in Voters : table[v].county = c /\ table[v].present}

(* As long as imports never overlapped, the voters present in a county     *)
(* after its import are exactly the valid ones of the file, whatever       *)
(* failed, was cut short or crashed before.                                *)
CountyIsFile ==
  [][\A j \in Imports \ Capped :
       ~spent.overlap /\ Finishes(j) /\ county[j] # "none" =>
         Present(voters', CountyOf[j]) = kept[j]]_vars

(* When they do, and each loads another county, none leaves a voter of its *)
(* county present that its file does not have.                             *)
NoStrangersLeft ==
  [][\A j \in Imports \ Capped :
       Finishes(j) /\ county[j] # "none" => Present(voters', CountyOf[j]) \subseteq kept[j]]_vars

(* While the server is up, an open row of one of its imports has a live    *)
(* coroutine behind it, loss aside.                                        *)
NoPhantomImports ==
  srv = "up" /\ spent.loss = 0 => \A j \in Imports \ Cli : Open(j) => Live(j)

(* Every import of the server ends in its row too, loss aside: one that    *)
(* was cancelled leaves its row to the next boot.                          *)
ImportsTerminate ==
  \A j \in Imports \ Cli : Open(j) ~> (~Open(j) \/ spent.loss > 0)

-----------------------------------------------------------------------------
(* What a docstring claims and the code does not keep.                     *)

(* import_service.py:99: "Soft-delete voters from the given county not     *)
(* present in the current import".                                         *)
OnlyOwnCounty ==
  [][\A j \in Imports : Finishes(j) =>
       \A v \in Voters : voters[v].present /\ ~voters'[v].present
                           => voters[v].county = CountyOf[j]]_vars
=============================================================================
