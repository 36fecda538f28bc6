--------------------------- MODULE VoterHistoryImport ---------------------------
(***************************************************************************)
(* Imports of voter history files.  Every row of voter_history belongs to  *)
(* the import job that wrote it last; a file is imported again and again,  *)
(* as it grows, and the import that completes deletes what the earlier     *)
(* imports of that file still own and marks them superseded.               *)
(*                                                                         *)
(* Chunks are flushed one by one and committed a few together: until then  *)
(* their rows are locked, and another import that has the same             *)
(* participation waits for them.  The same participation may be in two     *)
(* files, and two imports of one file may overlap: the API's runner lets   *)
(* two through and every command line has a process of its own.            *)
(***************************************************************************)
EXTENDS Naturals, FiniteSets

CONSTANTS Keys,        \* participations: voter, election date and type
          Imports,     \* import jobs of type voter_history
          FileOf,      \* the name of the file that an import loads
          Cli,         \* imports of a command line; the others are the server's
          ChunkSize,   \* bound on the records of a chunk (up to 2000 in the code)
          CommitEvery, \* chunks between two commits (50 in the code)
          MaxRunning,  \* bound on imports under way at the same time
          MaxFaults,   \* bound on exceptions raised in an import
          MaxCrashes,  \* bound on the server's stops and crashes
          MaxLosses    \* bound on failures that leave a job's row open

ASSUME HistoryAssumption ==
  /\ Cli \subseteq Imports
  /\ "none" \notin Imports
ASSUME HistoryBounds ==
  /\ ChunkSize \in Nat \ {0} /\ CommitEvery \in Nat \ {0} /\ MaxRunning \in Nat
  /\ MaxFaults \in Nat /\ MaxCrashes \in Nat /\ MaxLosses \in Nat

VARIABLES
  srv,     \* the API server process: "down", "up", or "stopping"
  owner,   \* import_job_id of each committed row, "none" if there is no row
  status,  \* import_jobs.status
  pc,      \* where the coroutine of an import stands
  todo,    \* records of the file not processed yet
  chunks,  \* chunks since the last commit
  dirty,   \* rows written and not committed
  kept,    \* history: valid records of the file so far
  earlier, \* previous_jobs
  marks,   \* those of them that were not superseded when they were read
  spent    \* history: the faults used up, and have imports overlapped

locals == <<todo, chunks, dirty, kept, earlier, marks>>
vars   == <<srv, owner, status, pc, locals, spent>>

BodyPcs == {"chunks", "select", "replace"}
LivePcs == BodyPcs \cup {"created", "failing"}
Status  == {"none", "pending", "running", "completed", "failed", "abandoned", "superseded"}

Open(j)     == status[j] \in {"pending", "running"}
Live(j)     == pc[j] \in LivePcs
Local(j)    == Live(j) /\ j \notin Cli       \* dies with the server
SameFile(i, j) == FileOf[i] = FileOf[j]
Rows(j)     == {k \in Keys : owner[k] = j}
Goto(j, l)  == pc' = [pc EXCEPT ![j] = l]
Set(j, s)   == status' = [status EXCEPT ![j] = s]
Spend(kind) == spent' = [spent EXCEPT ![kind] = @ + 1]
Unlocked(j, K) == \A i \in Imports \ {j} : dirty[i] \cap K = {}

(* The imports in S leave their body; what they did not commit is gone.    *)
Leave(S) == /\ todo' = [j \in Imports |-> IF j \in S THEN {} ELSE todo[j]]
            /\ chunks' = [j \in Imports |-> IF j \in S THEN 0 ELSE chunks[j]]
            /\ dirty' = [j \in Imports |-> IF j \in S THEN {} ELSE dirty[j]]
            /\ earlier' = [j \in Imports |-> IF j \in S THEN {} ELSE earlier[j]]
            /\ marks' = [j \in Imports |-> IF j \in S THEN {} ELSE marks[j]]
            /\ UNCHANGED kept

Init == /\ srv = "up"
        /\ owner = [k \in Keys |-> "none"]
        /\ status = [j \in Imports |-> "none"]
        /\ pc = [j \in Imports |-> "idle"]
        /\ todo = [j \in Imports |-> {}]
        /\ chunks = [j \in Imports |-> 0]
        /\ dirty = [j \in Imports |-> {}]
        /\ kept = [j \in Imports |-> {}]
        /\ earlier = [j \in Imports |-> {}]
        /\ marks = [j \in Imports |-> {}]
        /\ spent = [fault |-> 0, crash |-> 0, loss |-> 0, overlap |-> FALSE]

-----------------------------------------------------------------------------
(* The import, process_voter_history_import.                               *)

(* The job's row is committed and its coroutine handed to the runner, or   *)
(* awaited by the command line.                                            *)
Create(j) == /\ pc[j] = "idle"
             /\ j \in Cli \/ srv = "up"
             /\ Cardinality({i \in Imports : Live(i)}) < MaxRunning
             /\ Set(j, "pending")
             /\ Goto(j, "created")
             /\ \E file \in SUBSET Keys : todo' = [todo EXCEPT ![j] = file]
             /\ spent' = [spent EXCEPT !.overlap = @ \/ \E i \in Imports : Live(i)]
             /\ UNCHANGED <<srv, owner, chunks, dirty, kept, earlier, marks>>

Begin(j) == /\ pc[j] = "created"
            /\ Set(j, "running")
            /\ Goto(j, "chunks")
            /\ UNCHANGED <<srv, owner, locals, spent>>

Owned(j, K) == [k \in Keys |-> IF k \in K THEN j ELSE owner[k]]

(* Wrong variant: on conflict a row keeps the job that wrote it first.     *)
ChunkKeepingOwner(j) ==
  /\ pc[j] = "chunks"
  /\ \E chunk \in SUBSET todo[j] : \E valid \in SUBSET chunk :
       /\ Cardinality(chunk) \in 1..ChunkSize
       /\ Unlocked(j, valid)
       /\ owner' = Owned(j, {k \in valid : owner[k] = "none"})
       /\ todo' = [todo EXCEPT ![j] = @ \ chunk]
       /\ kept' = [kept EXCEPT ![j] = @ \cup valid]
  /\ UNCHANGED <<srv, status, pc, chunks, dirty, earlier, marks, spent>>

(* The valid records of a chunk are upserted, with the job as their owner; *)
(* every so many chunks the transaction is committed.                      *)
Chunk(j) ==
  /\ pc[j] = "chunks"
  /\ \E chunk \in SUBSET todo[j] : \E valid \in SUBSET chunk :
       /\ Cardinality(chunk) \in 1..ChunkSize
       /\ Unlocked(j, valid)
       /\ todo' = [todo EXCEPT ![j] = @ \ chunk]
       /\ kept' = [kept EXCEPT ![j] = @ \cup valid]
       /\ chunks' = [chunks EXCEPT ![j] = (@ + 1) % CommitEvery]
       /\ LET written == dirty[j] \cup valid
          IN IF chunks'[j] = 0
               THEN owner' = Owned(j, written) /\ dirty' = [dirty EXCEPT ![j] = {}]
               ELSE owner' = owner /\ dirty' = [dirty EXCEPT ![j] = written]
  /\ UNCHANGED <<srv, status, pc, earlier, marks, spent>>

(* Wrong variant: the chunks since the last commit are left uncommitted.   *)
LoadedUncommitted(j) ==
  /\ pc[j] = "chunks" /\ todo[j] = {}
  /\ Leave({j})
  /\ Goto(j, "select")
  /\ UNCHANGED <<srv, owner, status, spent>>

(* The end of the file: the last chunks are committed.                     *)
Loaded(j) == /\ pc[j] = "chunks" /\ todo[j] = {}
             /\ owner' = Owned(j, dirty[j])
             /\ Leave({j})
             /\ Goto(j, "select")
             /\ UNCHANGED <<srv, status, spent>>

-----------------------------------------------------------------------------
(* _replace_previous_import, and the end.                                  *)

(* The session writes the status of a job only if that changes it.         *)
Select(j, S) == /\ earlier' = [earlier EXCEPT ![j] = S]
                /\ marks' = [marks EXCEPT ![j] = {i \in S : status[i] # "superseded"}]
                /\ Goto(j, "replace")
                /\ UNCHANGED <<srv, owner, status, todo, chunks, dirty, kept, spent>>

(* Wrong variants: only jobs superseded or abandoned before are replaced;  *)
(* the name of the file is not looked at.                                  *)
SelectStale(j) ==
  /\ pc[j] = "select"
  /\ Select(j, {i \in Imports \ {j} : /\ SameFile(i, j)
                                      /\ status[i] \in {"superseded", "abandoned"}})

SelectAnyFile(j) ==
  /\ pc[j] = "select"
  /\ Select(j, {i \in Imports \ {j} : status[i] \in {"completed", "superseded", "abandoned"}})

SelectPrevious(j) ==
  /\ pc[j] = "select"
  /\ Select(j, {i \in Imports \ {j} : /\ SameFile(i, j)
                                      /\ status[i] \in {"completed", "superseded", "abandoned"}})

StaleRows(j) == {k \in Keys : owner[k] \in earlier[j]}

(* Wrong variant: the earlier jobs are marked and their rows left.         *)
ReplaceMarkOnly(j) ==
  /\ pc[j] = "replace"
  /\ status' = [i \in Imports |-> CASE i = j         -> "completed"
                                    [] i \in marks[j] -> "superseded"
                                    [] OTHER         -> status[i]]
  /\ Goto(j, "done")
  /\ UNCHANGED <<srv, owner, locals, spent>>

(* What the earlier jobs still own is deleted, they are superseded and the *)
(* job is completed, in one transaction; a row that another import is      *)
(* writing is waited for, and is that import's afterwards.                 *)
Replace(j) ==
  /\ pc[j] = "replace"
  /\ Unlocked(j, StaleRows(j))
  /\ owner' = [k \in Keys |-> IF k \in StaleRows(j) THEN "none" ELSE owner[k]]
  /\ status' = [i \in Imports |-> CASE i = j         -> "completed"
                                    [] i \in marks[j] -> "superseded"
                                    [] OTHER         -> status[i]]
  /\ Leave({j})
  /\ Goto(j, "done")
  /\ UNCHANGED <<srv, spent>>

-----------------------------------------------------------------------------
(* Its failures.                                                           *)

(* An exception, or the database breaking a deadlock of two imports that   *)
(* wait for each other's rows.                                             *)
Raise(j) == /\ spent.fault < MaxFaults /\ Spend("fault")
            /\ pc[j] \in BodyPcs
            /\ Goto(j, "failing")
            /\ Leave({j})
            /\ UNCHANGED <<srv, owner, status>>

Failed(j) == /\ pc[j] = "failing"
             /\ Set(j, "failed")
             /\ Goto(j, "done")
             /\ UNCHANGED <<srv, owner, locals, spent>>

(* The import ends without an entry in its row: the handler or the first   *)
(* commit raises, the commit of the failure does, or the command line is   *)
(* interrupted or killed.                                                  *)
Lose(j) == /\ spent.loss < MaxLosses /\ Spend("loss")
           /\ pc[j] \in {"created", "failing"} \/ (j \in Cli /\ Live(j))
           /\ Goto(j, "done")
           /\ Leave({j})
           /\ UNCHANGED <<srv, owner, status>>

(* `import cleanup-jobs`: a job that failed never counted its records.     *)
CleanupAbandonedJobs ==
  /\ status' = [j \in Imports |-> IF status[j] = "failed" THEN "abandoned" ELSE status[j]]
  /\ UNCHANGED <<srv, owner, pc, locals, spent>>

-----------------------------------------------------------------------------
(* The server process.                                                     *)

Stop == /\ srv = "up" /\ srv' = "stopping"
        /\ spent.crash < MaxCrashes /\ Spend("crash")
        /\ UNCHANGED <<owner, status, pc, locals>>

(* A stopping loop cancels its tasks; `except Exception` does not see the  *)
(* CancelledError, so the row stays as it is.                              *)
Cancelled(j) == /\ srv = "stopping" /\ Local(j)
                /\ Goto(j, "done")
                /\ Leave({j})
                /\ UNCHANGED <<srv, owner, status, spent>>

Die == /\ srv' = "down"
       /\ pc' = [j \in Imports |-> IF Local(j) THEN "done" ELSE pc[j]]
       /\ Leave({j \in Imports : Local(j)})
       /\ UNCHANGED <<owner, status>>

Crash == /\ srv = "up" /\ Die
         /\ spent.crash < MaxCrashes /\ Spend("crash")

Exit == srv = "stopping" /\ Die /\ UNCHANGED spent

(* _recover_stale_import_jobs: every open row is taken for an orphan ...   *)
Boot == /\ srv = "down" /\ srv' = "up"
        /\ status' = [j \in Imports |-> IF Open(j) THEN "failed" ELSE status[j]]
        /\ UNCHANGED <<owner, pc, locals, spent>>

(* ... or it raised, and the exception is swallowed.                       *)
BootUnrecovered == /\ srv = "down" /\ srv' = "up"
                   /\ spent.loss < MaxLosses /\ Spend("loss")
                   /\ UNCHANGED <<owner, status, pc, locals>>

-----------------------------------------------------------------------------
Step(j) == \/ Begin(j) \/ Chunk(j) \/ Loaded(j)
           \/ SelectPrevious(j) \/ Replace(j) \/ Failed(j)

Next == \/ \E j \in Imports : Create(j) \/ Step(j) \/ Raise(j) \/ Lose(j) \/ Cancelled(j)
        \/ CleanupAbandonedJobs
        \/ Stop \/ Crash \/ Exit \/ Boot \/ BootUnrecovered

Spec == Init /\ [][Next]_vars

-----------------------------------------------------------------------------
(* Type invariant. *)
TypeOK == /\ srv \in {"down", "up", "stopping"}
          /\ owner \in [Keys -> Imports \cup {"none"}]
          /\ status \in [Imports -> Status]
          /\ pc \in [Imports -> LivePcs \cup {"idle", "done"}]
          /\ chunks \in [Imports -> Nat]
          /\ {todo, dirty, kept} \subseteq [Imports -> SUBSET Keys]
          /\ {earlier, marks} \subseteq [Imports -> SUBSET Imports]
          /\ spent \in [fault : Nat, crash : Nat, loss : Nat, overlap : BOOLEAN]

Finishes(j) == pc[j] = "replace" /\ pc'[j] = "done" /\ status'[j] = "completed"

(* A participation is only deleted by an import of the file it came from,  *)
(* in the step that completes that import: a failed, stopped or crashed    *)
(* import deletes nothing.  The job that owned it is superseded by then,   *)
(* unless it runs in a command line and the two overlap.                   *)
RemovedByReplacement ==
  [][\A k \in Keys : owner[k] # "none" /\ owner'[k] = "none" =>
       /\ (spent.overlap /\ owner[k] \in Cli) \/ status'[owner[k]] = "superseded"
       /\ \E j \in Imports : SameFile(j, owner[k]) /\ Finishes(j)]_vars

(* A superseded job owns no row, unless it was taken for an orphan and its *)
(* command line is still at work.                                          *)
SupersededOwnNothing ==
  spent.loss = 0 => \A j \in Imports : status[j] = "superseded" => Rows(j) = {} \/ Live(j)

(* As long as imports never overlapped, what a completed import read is in *)
(* the table, whatever failed since, unless another file has it too (then  *)
(* that file's imports own it, and OtherJobsUnaffected applies).           *)
CompletedIsThere ==
  ~spent.overlap =>
    \A j \in Imports : status[j] = "completed" =>
      \A k \in kept[j] : \/ owner[k] # "none"
                         \/ \E i \in Imports : ~SameFile(i, j) /\ k \in kept[i]

(* As long as imports never overlapped, a file has one completed import:   *)
(* the replacement supersedes all the others.                              *)
OneCompleted ==
  ~spent.overlap =>
    \A i, j \in Imports : SameFile(i, j) /\ status[i] = "completed" /\ status[j] = "completed"
                            => i = j

(* What replacements leave of a file's imports: one that is completed, and *)
(* nothing owned by those that were superseded (_replace_previous_import). *)
OnePerFile == OneCompleted /\ SupersededOwnNothing

(* An import that completes, and never overlapped with another, owns       *)
(* exactly the valid records it read; what is left of the file's other     *)
(* imports belongs to jobs that did not complete.                          *)
ReplacesExactly ==
  [][\A j \in Imports : ~spent.overlap /\ Finishes(j) =>
       /\ {k \in Keys : owner'[k] = j} = kept[j]
       /\ \A k \in Keys : LET i == owner'[k] IN
            i \notin {"none", j} /\ FileOf[i] = FileOf[j]
              => status'[i] \notin {"completed", "superseded"}]_vars

-----------------------------------------------------------------------------
(* What the specification claims and the code does not keep.               *)

(* specs/006-voter-history/spec.md:150: "Re-importing a file replaces all  *)
(* records from the previous import of that file. Records from other       *)
(* import jobs are not affected."                                          *)
OtherJobsUnaffected ==
  [][\A j \in Imports : ~spent.overlap /\ Finishes(j) =>
       \A i \in Imports : ~SameFile(i, j) /\ status[i] = "completed" =>
         \A k \in kept[i] : owner[k] # "none" => owner'[k] # "none"]_vars
=============================================================================
