----------------------------- MODULE GeocodingJobs -----------------------------
(***************************************************************************)
(* Batch geocoding jobs: the persisted job row, the coroutine that works   *)
(* on it, the administrators who cancel or fail it, the API server that    *)
(* hosts the coroutine and recovers rows at boot, and the command line     *)
(* that runs the same coroutine in a process of its own.                   *)
(*                                                                         *)
(* One action stands for the code between two commits of the worker's      *)
(* session, so every place where another session can get in is a place     *)
(* between two actions.  Voters are counted, not named.                    *)
(***************************************************************************)
EXTENDS Integers, Sequences, FiniteSets

CONSTANTS Jobs,        \* job ids
          Slots,       \* permits of the task runner
          MaxTotal,    \* bound on the voters a job may find to geocode
          BatchSize,   \* voters of one batch (100 in the code)
          MaxCrashes,  \* bound on server process deaths
          MaxErrors,   \* bound on exceptions raised inside the worker
          MaxLosses    \* bound on failures that nothing in the process repairs

ASSUME JobsAssumption == IsFiniteSet(Jobs)
ASSUME SlotsAssumption == Slots \in Nat \ {0}
ASSUME BoundsAssumption ==
  /\ MaxTotal \in Nat /\ BatchSize \in Nat \ {0}
  /\ MaxCrashes \in Nat /\ MaxErrors \in Nat /\ MaxLosses \in Nat

VARIABLES
  srv,    \* the API server process: "down", "up", or "stopping"
  host,   \* who runs the job's coroutine: "none", "server" or "cli"
  row,    \* the geocoding_jobs table
  pc,     \* where the job's coroutine, or the handler creating it, stands
  work,   \* local counters of the coroutine: succeeded, failed, len(voters)
  data,   \* voters whose outcome is committed: [ok, bad]
  late,   \* batches committed since the row became terminal (history)
  runner, \* the task runner's registry
  queue,  \* its waiters
  permits, \* and its semaphore
  spent   \* faults used up so far: [crash, error, loss]

db      == <<row, data, late>>
tasks   == <<host, pc, work>>
runtime == <<runner, queue, permits>>
vars    == <<srv, db, tasks, runtime, spent>>

Runner == INSTANCE TaskRunner WITH Tasks <- Jobs, jobs <- runner

-----------------------------------------------------------------------------
TERMINAL_STATUSES == {"completed", "failed", "cancelled"}
Status == {"none", "pending", "running"} \cup TERMINAL_STATUSES

(* The locations inside the worker's try block, and all its locations. *)
TryPcs  == {"count", "loop", "batch", "checkpoint", "final", "complete"}
BodyPcs == TryPcs \cup {"starting", "raise", "interrupt"}
LivePcs == BodyPcs \cup {"created", "queued"}
Pcs     == LivePcs \cup {"idle", "end"}

Open(j)     == row[j].status \in {"pending", "running"}
Terminal(j) == row[j].status \in TERMINAL_STATUSES
Live(j)     == pc[j] \in LivePcs
Local(j)    == pc[j] \in LivePcs /\ host[j] = "server"  \* dies with the server

NoRow  == [status |-> "none", total |-> 0, ok |-> 0, bad |-> 0, offset |-> 0]
NoWork == [ok |-> 0, bad |-> 0, n |-> 0]
Spend(kind) == spent' = [spent EXCEPT ![kind] = @ + 1]

(* The coroutine of j leaves the runner, or was never in one. *)
Leave(j, outcome) == IF host[j] = "server" THEN Runner!Finish(j, outcome)
                                           ELSE UNCHANGED runtime

(* job.processed, job.succeeded, job.failed = the local counters. *)
Counted(j) == [row[j] EXCEPT !.ok = work[j].ok, !.bad = work[j].bad]

Goto(j, l) == pc' = [pc EXCEPT ![j] = l]

(* `while offset < total` *)
LoopPc(offset, total) == IF offset < total THEN "loop" ELSE "final"

Init == /\ srv = "up"
        /\ host = [j \in Jobs |-> "none"]
        /\ row = [j \in Jobs |-> NoRow]
        /\ pc = [j \in Jobs |-> "idle"]
        /\ work = [j \in Jobs |-> NoWork]
        /\ data = [j \in Jobs |-> [ok |-> 0, bad |-> 0]]
        /\ late = [j \in Jobs |-> 0]
        /\ Runner!Init
        /\ spent = [crash |-> 0, error |-> 0, loss |-> 0]

-----------------------------------------------------------------------------
(* Creation.                                                               *)

Insert(j, h, l) == /\ pc[j] = "idle"
                   /\ row' = [row EXCEPT ![j].status = "pending"]
                   /\ host' = [host EXCEPT ![j] = h]
                   /\ Goto(j, l)
                   /\ UNCHANGED <<srv, work, data, late, runtime, spent>>

(* POST /geocoding/batch commits the row ...                               *)
TriggerBatch(j) == srv = "up" /\ Insert(j, "server", "created")

(* ... and then hands the coroutine to the task runner.                    *)
SubmitTask(j) == /\ pc[j] = "created"
                 /\ Runner!Submit(j)
                 /\ Goto(j, "queued")
                 /\ UNCHANGED <<srv, db, host, work, spent>>

(* `geocode batch` creates the row and awaits the worker in its own loop.  *)
CliBatch(j) == Insert(j, "cli", "starting")

-----------------------------------------------------------------------------
(* The worker, process_geocoding_job.                                      *)

(* The runner lets the task through; it then loads the job's row.          *)
Acquire(j) == /\ pc[j] = "queued"
              /\ Runner!Acquire(j)
              /\ Goto(j, "starting")
              /\ UNCHANGED <<srv, db, host, work, spent>>

(* The row is set to running, whatever its status is by now.               *)
Start(j) == /\ pc[j] = "starting"
            /\ row' = [row EXCEPT ![j].status = "running"]
            /\ late' = [late EXCEPT ![j] = 0]
            /\ Goto(j, "count")
            /\ UNCHANGED <<srv, data, host, work, runtime, spent>>

(* The provider is configured; the voters to geocode are counted.          *)
Count(j) == /\ pc[j] = "count"
            /\ \E total \in 0..MaxTotal :
                 /\ row' = [row EXCEPT ![j].total = total]
                 /\ Goto(j, LoopPc(row[j].offset, total))
            /\ UNCHANGED <<srv, data, late, host, work, runtime, spent>>

(* ValueError: the requested provider is not configured.                   *)
NotConfigured(j) == /\ pc[j] = "count"
                    /\ Goto(j, "raise")
                    /\ UNCHANGED <<srv, db, host, work, runtime, spent>>

(* The cooperative check at the top of a batch, and before the final       *)
(* update: a terminal status is kept and the worker returns.               *)
StopAtCheck(j) == /\ pc[j] \in {"loop", "final"}
                  /\ Terminal(j)
                  /\ row' = [row EXCEPT ![j] = Counted(j)]
                  /\ Goto(j, "end")
                  /\ Leave(j, "completed")
                  /\ UNCHANGED <<srv, data, late, host, work, spent>>

(* Wrong variant: the worker does not look at the row between batches.     *)
PassUnchecked(j) == /\ pc[j] \in {"loop", "final"}
                    /\ Goto(j, IF pc[j] = "loop" THEN "batch" ELSE "complete")
                    /\ UNCHANGED <<srv, db, host, work, runtime, spent>>

PassCheck(j) == /\ pc[j] \in {"loop", "final"}
                /\ ~Terminal(j)
                /\ Goto(j, IF pc[j] = "loop" THEN "batch" ELSE "complete")
                /\ UNCHANGED <<srv, db, host, work, runtime, spent>>

(* Fetch up to BatchSize voters after the last one, geocode them all, and  *)
(* commit what was found.                                                  *)
Batch(j) == /\ pc[j] = "batch"
            /\ \E n \in 1..BatchSize : \E k \in 0..n :
                 /\ work' = [work EXCEPT ![j] = [ok  |-> @.ok + k,
                                                 bad |-> @.bad + (n - k),
                                                 n   |-> n]]
                 /\ data' = [data EXCEPT ![j] = [ok  |-> @.ok + k,
                                                 bad |-> @.bad + (n - k)]]
            /\ late' = [late EXCEPT ![j] = IF Terminal(j) THEN @ + 1 ELSE @]
            /\ Goto(j, "checkpoint")
            /\ UNCHANGED <<srv, row, host, runtime, spent>>

(* No voter is left although the total said so: the loop is left.          *)
EmptyBatch(j) == /\ pc[j] = "batch"
                 /\ Goto(j, "final")
                 /\ UNCHANGED <<srv, db, host, work, runtime, spent>>

(* Wrong variant: the offset advances by a full batch.                     *)
CheckpointByBatchSize(j) ==
  /\ pc[j] = "checkpoint"
  /\ LET offset == row[j].offset + BatchSize
     IN  /\ row' = [row EXCEPT ![j] = [Counted(j) EXCEPT !.offset = offset]]
         /\ Goto(j, LoopPc(offset, row[j].total))
  /\ UNCHANGED <<srv, data, late, host, work, runtime, spent>>

(* The checkpoint is a commit of its own, after the data's.                *)
Checkpoint(j) ==
  /\ pc[j] = "checkpoint"
  /\ LET offset == row[j].offset + work[j].n
     IN  /\ row' = [row EXCEPT ![j] = [Counted(j) EXCEPT !.offset = offset]]
         /\ Goto(j, LoopPc(offset, row[j].total))
  /\ UNCHANGED <<srv, data, late, host, work, runtime, spent>>

(* The final update, a transaction later than the check before it.         *)
Complete(j) == /\ pc[j] = "complete"
               /\ row' = [row EXCEPT ![j] = [Counted(j) EXCEPT !.status = "completed"]]
               /\ Goto(j, "end")
               /\ Leave(j, "completed")
               /\ UNCHANGED <<srv, data, late, host, work, spent>>

-----------------------------------------------------------------------------
(* Its failures.                                                           *)

(* What the counters may hold when the try block is left: inside a batch   *)
(* any part of the batch may be counted, and none of it is committed.      *)
LeaveTry(j, l) ==
  /\ pc[j] \in TryPcs
  /\ \E k, m \in 0..BatchSize :
       /\ k + m <= IF pc[j] = "batch" THEN BatchSize ELSE 0
       /\ work' = [work EXCEPT ![j] = [ok |-> @.ok + k, bad |-> @.bad + m, n |-> @.n]]
  /\ Goto(j, l)

(* Wrong variant: the exception is logged and the loop left normally.      *)
RaiseSwallowed(j) == /\ spent.error < MaxErrors /\ Spend("error")
                     /\ LeaveTry(j, "final")
                     /\ UNCHANGED <<srv, db, host, runtime>>

Raise(j) == /\ spent.error < MaxErrors /\ Spend("error")
            /\ LeaveTry(j, "raise")
            /\ UNCHANGED <<srv, db, host, runtime>>

(* Wrong variant: the row is not failed.                                   *)
FailedSilently(j) == /\ pc[j] = "raise"
                     /\ Goto(j, "end")
                     /\ Leave(j, "failed")
                     /\ UNCHANGED <<srv, db, host, work, spent>>

(* `except Exception`: roll back, set the row to failed, re-raise.         *)
Failed(j) == /\ pc[j] = "raise"
             /\ row' = [row EXCEPT ![j] = [Counted(j) EXCEPT !.status = "failed"]]
             /\ Goto(j, "end")
             /\ Leave(j, "failed")
             /\ UNCHANGED <<srv, data, late, host, work, spent>>

(* Ctrl+C in the command line, or the event loop of a stopping server      *)
(* cancelling its tasks.                                                   *)
Interrupt(j) == /\ \/ host[j] = "cli"
                   \/ host[j] = "server" /\ srv = "stopping"
                /\ LeaveTry(j, "interrupt")
                /\ UNCHANGED <<srv, db, host, runtime, spent>>

(* `except (KeyboardInterrupt, CancelledError)`: roll back, set the row to *)
(* cancelled, return.                                                      *)
Interrupted(j) == /\ pc[j] = "interrupt"
                  /\ row' = [row EXCEPT ![j] = [Counted(j) EXCEPT !.status = "cancelled"]]
                  /\ Goto(j, "end")
                  /\ Leave(j, "completed")
                  /\ UNCHANGED <<srv, data, late, host, work, spent>>

(* The handler, the load of the row or its first commit raises outside the *)
(* try block, or the commit of one of the two handlers above fails, which  *)
(* is logged and swallowed: nobody will touch the row again.               *)
Lose(j) == /\ spent.loss < MaxLosses /\ Spend("loss")
           /\ pc[j] \in {"created", "starting", "raise", "interrupt"}
           /\ Goto(j, "end")
           /\ IF pc[j] = "created" THEN UNCHANGED runtime
              ELSE Leave(j, IF pc[j] = "interrupt" THEN "completed" ELSE "failed")
           /\ UNCHANGED <<srv, db, host, work>>

(* The command line process is killed.                                     *)
CliKilled(j) == /\ spent.loss < MaxLosses /\ Spend("loss")
                /\ host[j] = "cli" /\ Live(j)
                /\ Goto(j, "end")
                /\ UNCHANGED <<srv, db, host, work, runtime>>

-----------------------------------------------------------------------------
(* Administrators: one atomic UPDATE ... WHERE status NOT IN terminal.     *)

Settle(j, status) == /\ srv = "up"
                     /\ Open(j)
                     /\ row' = [row EXCEPT ![j].status = status]
                     /\ UNCHANGED <<srv, data, late, tasks, runtime, spent>>

CancelJob(j)     == Settle(j, "cancelled")
MarkJobFailed(j) == Settle(j, "failed")

-----------------------------------------------------------------------------
(* The server process.                                                     *)

(* Its tasks, and the requests it was serving, are gone with it.           *)
Die == /\ srv' = "down"
       /\ pc' = [j \in Jobs |-> IF Local(j) THEN "end" ELSE pc[j]]
       /\ Runner!Exit
       /\ UNCHANGED <<db, host, work>>

Crash == /\ spent.crash < MaxCrashes /\ Spend("crash")
         /\ srv \in {"up", "stopping"}
         /\ Die

(* A stop request: no request is served any more, tasks are still running. *)
Stop == /\ srv = "up" /\ srv' = "stopping"
        /\ spent.crash < MaxCrashes /\ Spend("crash")
        /\ UNCHANGED <<db, tasks, runtime>>

(* The loop ends once the cancelled workers have left their try blocks;    *)
(* tasks that wait for a permit end without any handler.                   *)
Stopped == /\ srv = "stopping"
           /\ \A j \in Jobs : host[j] = "server" => pc[j] \notin TryPcs \cup {"interrupt"}
           /\ Die
           /\ UNCHANGED spent

(* Wrong variants: recovery forgets pending rows; it fails terminal rows.  *)
BootRunningOnly ==
  /\ srv = "down" /\ srv' = "up"
  /\ row' = [j \in Jobs |-> IF row[j].status = "running"
                            THEN [row[j] EXCEPT !.status = "failed"] ELSE row[j]]
  /\ UNCHANGED <<data, late, tasks, runtime, spent>>

BootAllUnfinished ==
  /\ srv = "down" /\ srv' = "up"
  /\ row' = [j \in Jobs |-> IF row[j].status \notin {"none", "completed"}
                            THEN [row[j] EXCEPT !.status = "failed"] ELSE row[j]]
  /\ UNCHANGED <<data, late, tasks, runtime, spent>>

(* lifespan: every open row is taken for an orphan and failed.             *)
Boot == /\ srv = "down" /\ srv' = "up"
        /\ row' = [j \in Jobs |-> IF Open(j) THEN [row[j] EXCEPT !.status = "failed"]
                                             ELSE row[j]]
        /\ UNCHANGED <<data, late, tasks, runtime, spent>>

(* The recovery's exception is logged and swallowed; the server serves.    *)
BootUnrecovered == /\ srv = "down" /\ srv' = "up"
                   /\ spent.loss < MaxLosses /\ Spend("loss")
                   /\ UNCHANGED <<db, tasks, runtime>>

-----------------------------------------------------------------------------
Create(j) == TriggerBatch(j) \/ CliBatch(j)

Step(j) == \/ SubmitTask(j) \/ Acquire(j) \/ Start(j)
           \/ Count(j) \/ NotConfigured(j)
           \/ StopAtCheck(j) \/ PassCheck(j)
           \/ Batch(j) \/ EmptyBatch(j) \/ Checkpoint(j) \/ Complete(j)
           \/ Failed(j) \/ Interrupted(j)

Fault(j) == Raise(j) \/ Interrupt(j) \/ Lose(j) \/ CliKilled(j)

Admin(j) == CancelJob(j) \/ MarkJobFailed(j)

Server == Crash \/ Stop \/ Stopped \/ Boot \/ BootUnrecovered

Next == \/ \E j \in Jobs : Create(j) \/ Step(j) \/ Fault(j) \/ Admin(j)
        \/ Server

Spec == Init /\ [][Next]_vars

(* The event loops keep running the coroutines (every await in them is a   *)
(* query or a provider call with a timeout), the orchestrator restarts a   *)
(* server that is down, and a stopping server cancels the workers it still *)
(* has.                                                                    *)
FairSpec == /\ Spec
            /\ \A j \in Jobs : /\ WF_vars(Step(j))
                               /\ WF_vars(host[j] = "server" /\ Interrupt(j))
            /\ WF_vars(Stopped)
            /\ WF_vars(Boot \/ BootUnrecovered)

-----------------------------------------------------------------------------
(* Type invariant. *)
Row  == [status : Status, total : Nat, ok : Nat, bad : Nat, offset : Nat]
Work == [ok : Nat, bad : Nat, n : Nat]

TypeOK == /\ srv \in {"down", "up", "stopping"}
          /\ host \in [Jobs -> {"none", "server", "cli"}]
          /\ row \in [Jobs -> Row]
          /\ pc \in [Jobs -> Pcs]
          /\ work \in [Jobs -> Work]
          /\ data \in [Jobs -> [ok : Nat, bad : Nat]]
          /\ late \in [Jobs -> Nat]
          /\ Runner!TypeOK
          /\ spent \in [crash : Nat, error : Nat, loss : Nat]

(* A cancelled or failed job writes at most the batch that was under way   *)
(* (the cooperative check at the batch boundary).                          *)
AtMostOneLateBatch == \A j \in Jobs : late[j] <= 1

(* The checkpoint never claims a voter whose outcome is not committed,     *)
(* wherever a worker dies: the data is committed before the offset.        *)
CheckpointBehindData == \A j \in Jobs : row[j].offset <= data[j].ok + data[j].bad

(* A completed job reports what is stored: its counts are those of the     *)
(* committed data and its offset covers all of it, even when it raced with *)
(* a cancellation, a recovery or a crash of another process.               *)
CompletedIsExact ==
  \A j \in Jobs : row[j].status = "completed" =>
    /\ row[j].ok = data[j].ok /\ row[j].bad = data[j].bad
    /\ row[j].offset = data[j].ok + data[j].bad

(* The permits that are not in the semaphore are those of the coroutines   *)
(* still in their body on the server: no way out of the worker leaks one.  *)
Workers == {j \in Jobs : host[j] = "server" /\ pc[j] \in BodyPcs}

PermitsMatchWorkers == permits + Cardinality(Workers) = Slots

(* While the server is up, an open row has a live coroutine (or the        *)
(* handler about to submit one) behind it, unless a failure that nothing   *)
(* repairs has happened: no phantom running job after a restart.           *)
NoPhantomJobs == srv = "up" /\ spent.loss = 0 => \A j \in Jobs : Open(j) => Live(j)

(* What the runner reports agrees with what the row says, loss aside.      *)
RunnerAgreesWithRow ==
  spent.loss = 0 => \A j \in Jobs :
    /\ runner[j] = "completed" => Terminal(j)
    /\ runner[j] = "failed" => row[j].status = "failed"

(* Once a job's coroutine is gone and its row is terminal nothing changes  *)
(* the row: recovery and administrators skip it and no second worker runs. *)
SettledIsFinal == [][\A j \in Jobs : Terminal(j) /\ pc[j] = "end" => row'[j] = row[j]]_vars

(* Every job ends: an open row becomes terminal, through crashes, stops    *)
(* and exceptions, unless a loss occurs.                                   *)
JobsTerminate == \A j \in Jobs : Open(j) ~> (Terminal(j) \/ spent.loss > 0)

-----------------------------------------------------------------------------
(* What a comment claims and the code does not keep.                       *)

(* geocoding_service.py:50: "Terminal job statuses - no further            *)
(* transitions allowed".                                                   *)
TerminalIsFinal ==
  [][\A j \in Jobs : Terminal(j) => row'[j].status = row[j].status]_vars
=============================================================================
