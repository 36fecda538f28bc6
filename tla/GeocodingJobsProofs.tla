-------------------------- MODULE GeocodingJobsProofs --------------------------
(***************************************************************************)
(* Safety of the batch geocoding jobs, for any finite set of jobs, any     *)
(* number of permits, any batch size and any number of faults.             *)
(*                                                                         *)
(* Each invariant is proved on top of the type invariant by an induction   *)
(* of its own, one step per action.                                        *)
(***************************************************************************)
EXTENDS GeocodingJobs, FiniteSetTheorems, TLAPS

RowTyped      == row \in [Jobs -> Row]
TasksTyped    == /\ host \in [Jobs -> {"none", "server", "cli"}]
                 /\ pc \in [Jobs -> Pcs]
CountersTyped == /\ work \in [Jobs -> Work]
                 /\ data \in [Jobs -> [ok : Nat, bad : Nat]]
                 /\ late \in [Jobs -> Nat]

(* A row updated by its worker is a row.                                   *)
LEMMA CountedIsRow ==
  ASSUME TypeOK, NEW j \in Jobs
  PROVE  /\ Counted(j) \in Row
         /\ \A s \in Status : [Counted(j) EXCEPT !.status = s] \in Row
         /\ \A o \in Nat : [Counted(j) EXCEPT !.offset = o] \in Row
<1>1. row[j] \in Row /\ work[j] \in Work
  BY DEF TypeOK
<1>2. Counted(j) \in Row
  BY <1>1 DEF Counted, Row, Work
<1> QED
  BY <1>2 DEF Row

(* Rows keep their type.                                                   *)
LEMMA RowTypes == TypeOK /\ [Next]_vars => RowTyped'
<1> SUFFICES ASSUME TypeOK, [Next]_vars PROVE RowTyped'
  OBVIOUS
<1> USE DEF RowTyped, TypeOK, db, tasks, runtime, Status, TERMINAL_STATUSES
<1>1. ASSUME NEW j \in Jobs, TriggerBatch(j) PROVE RowTyped'
  BY <1>1 DEF Row, TriggerBatch, Insert, Goto
<1>2. ASSUME NEW j \in Jobs, CliBatch(j) PROVE RowTyped'
  BY <1>2 DEF Row, CliBatch, Insert, Goto
<1>3. ASSUME NEW j \in Jobs, Start(j) PROVE RowTyped'
  BY <1>3 DEF Row, Start, Goto
<1>4. ASSUME NEW j \in Jobs, Count(j) PROVE RowTyped'
  BY <1>4 DEF Row, Count, Goto, LoopPc
<1>5. ASSUME NEW j \in Jobs, StopAtCheck(j) PROVE RowTyped'
  BY <1>5, CountedIsRow DEF StopAtCheck
<1>6. ASSUME NEW j \in Jobs, Checkpoint(j) PROVE RowTyped'
  <2>1. row[j].offset + work[j].n \in Nat
    BY DEF Row, Work
  <2> QED
    BY <1>6, <2>1, CountedIsRow DEF Checkpoint
<1>7. ASSUME NEW j \in Jobs, Complete(j) PROVE RowTyped'
  BY <1>7, CountedIsRow DEF Complete
<1>8. ASSUME NEW j \in Jobs, Failed(j) PROVE RowTyped'
  BY <1>8, CountedIsRow DEF Failed
<1>9. ASSUME NEW j \in Jobs, Interrupted(j) PROVE RowTyped'
  BY <1>9, CountedIsRow DEF Interrupted
<1>10. ASSUME NEW j \in Jobs, CancelJob(j) PROVE RowTyped'
  BY <1>10 DEF Row, CancelJob, Settle
<1>11. ASSUME NEW j \in Jobs, MarkJobFailed(j) PROVE RowTyped'
  BY <1>11 DEF Row, MarkJobFailed, Settle
<1>12. ASSUME NEW j \in Jobs,
             SubmitTask(j) \/ Acquire(j) \/ NotConfigured(j) \/
             PassCheck(j) \/ Batch(j) \/ EmptyBatch(j) \/
             Raise(j) \/ Interrupt(j) \/ Lose(j) \/ CliKilled(j)
      PROVE RowTyped'
  BY <1>12 DEF Acquire, Batch, CliKilled, EmptyBatch, Goto, Interrupt,
         Leave, LeaveTry, Lose, NotConfigured, PassCheck, Raise,
         Runner!Acquire, Runner!Finish, Runner!Submit, Spend, SubmitTask
<1>13. CASE Boot
  BY <1>13 DEF Row, Open, Boot
<1>14. CASE Crash \/ Stop \/ Stopped \/ BootUnrecovered \/ UNCHANGED vars
  BY <1>14 DEF BootUnrecovered, Crash, Die, Runner!Exit, Spend, Stop,
         Stopped, vars
<1> QED
  BY <1>1, <1>2, <1>3, <1>4, <1>5, <1>6, <1>7, <1>8, <1>9, <1>10, <1>11,
     <1>12, <1>13, <1>14
     DEF Next, Create, Step, Fault, Admin, Server

(* Coroutines stay at known locations of known hosts.                      *)
LEMMA TaskTypes == TypeOK /\ [Next]_vars => TasksTyped'
<1> SUFFICES ASSUME TypeOK, [Next]_vars PROVE TasksTyped'
  OBVIOUS
<1> USE DEF TasksTyped, TypeOK, db, tasks, runtime, Pcs, LivePcs, BodyPcs, TryPcs
<1>1. ASSUME NEW j \in Jobs, TriggerBatch(j) PROVE TasksTyped'
  BY <1>1 DEF TriggerBatch, Insert, Goto
<1>2. ASSUME NEW j \in Jobs, CliBatch(j) PROVE TasksTyped'
  BY <1>2 DEF CliBatch, Insert, Goto
<1>3. ASSUME NEW j \in Jobs, SubmitTask(j) PROVE TasksTyped'
  BY <1>3 DEF SubmitTask, Goto, Runner!Submit
<1>4. ASSUME NEW j \in Jobs, Acquire(j) PROVE TasksTyped'
  BY <1>4 DEF Acquire, Goto, Runner!Acquire
<1>5. ASSUME NEW j \in Jobs, Start(j) PROVE TasksTyped'
  BY <1>5 DEF Start, Goto
<1>6. ASSUME NEW j \in Jobs, Count(j) PROVE TasksTyped'
  BY <1>6 DEF Count, Goto, LoopPc
<1>7. ASSUME NEW j \in Jobs, NotConfigured(j) PROVE TasksTyped'
  BY <1>7 DEF NotConfigured, Goto
<1>8. ASSUME NEW j \in Jobs, StopAtCheck(j) PROVE TasksTyped'
  BY <1>8 DEF StopAtCheck, Counted, Goto, Leave, Runner!Finish
<1>9. ASSUME NEW j \in Jobs, PassCheck(j) PROVE TasksTyped'
  BY <1>9 DEF PassCheck, Goto
<1>10. ASSUME NEW j \in Jobs, Batch(j) PROVE TasksTyped'
  BY <1>10 DEF Batch, Goto
<1>11. ASSUME NEW j \in Jobs, EmptyBatch(j) PROVE TasksTyped'
  BY <1>11 DEF EmptyBatch, Goto
<1>12. ASSUME NEW j \in Jobs, Checkpoint(j) PROVE TasksTyped'
  BY <1>12 DEF Checkpoint, Counted, Goto, LoopPc
<1>13. ASSUME NEW j \in Jobs, Complete(j) PROVE TasksTyped'
  BY <1>13 DEF Complete, Counted, Goto, Leave, Runner!Finish
<1>14. ASSUME NEW j \in Jobs, Failed(j) PROVE TasksTyped'
  BY <1>14 DEF Failed, Counted, Goto, Leave, Runner!Finish
<1>15. ASSUME NEW j \in Jobs, Interrupted(j) PROVE TasksTyped'
  BY <1>15 DEF Interrupted, Counted, Goto, Leave, Runner!Finish
<1>16. ASSUME NEW j \in Jobs, Raise(j) PROVE TasksTyped'
  BY <1>16 DEF Raise, LeaveTry, Goto, Spend
<1>17. ASSUME NEW j \in Jobs, Interrupt(j) PROVE TasksTyped'
  BY <1>17 DEF Interrupt, LeaveTry, Goto
<1>18. ASSUME NEW j \in Jobs, Lose(j) PROVE TasksTyped'
  BY <1>18 DEF Lose, Spend, Goto, Leave, Runner!Finish
<1>19. ASSUME NEW j \in Jobs, CliKilled(j) PROVE TasksTyped'
  BY <1>19 DEF CliKilled, Spend, Goto
<1>20. ASSUME NEW j \in Jobs,
             CancelJob(j) \/ MarkJobFailed(j)
      PROVE TasksTyped'
  BY <1>20 DEF CancelJob, MarkJobFailed, Settle
<1>21. CASE Crash
  BY <1>21 DEF Crash, Die, Spend, Runner!Exit
<1>22. CASE Stopped
  BY <1>22 DEF Stopped, Die, Runner!Exit
<1>23. CASE Stop \/ Boot \/ BootUnrecovered \/ UNCHANGED vars
  BY <1>23 DEF Boot, BootUnrecovered, Spend, Stop, vars
<1> QED
  BY <1>1, <1>2, <1>3, <1>4, <1>5, <1>6, <1>7, <1>8, <1>9, <1>10, <1>11,
     <1>12, <1>13, <1>14, <1>15, <1>16, <1>17, <1>18, <1>19, <1>20, <1>21,
     <1>22, <1>23
     DEF Next, Create, Step, Fault, Admin, Server

(* Counters keep their types.                                              *)
LEMMA CounterTypes == TypeOK /\ [Next]_vars => CountersTyped'
<1> SUFFICES ASSUME TypeOK, [Next]_vars PROVE CountersTyped'
  OBVIOUS
<1> USE DEF CountersTyped, TypeOK, db, tasks, runtime, Work
<1>1. ASSUME NEW j \in Jobs, Start(j) PROVE CountersTyped'
  BY <1>1 DEF Start, Goto
<1>2. ASSUME NEW j \in Jobs, Batch(j) PROVE CountersTyped'
  BY <1>2 DEF Batch, Goto
<1>3. ASSUME NEW j \in Jobs, Raise(j) PROVE CountersTyped'
  BY <1>3 DEF Raise, LeaveTry, Goto, Spend
<1>4. ASSUME NEW j \in Jobs, Interrupt(j) PROVE CountersTyped'
  BY <1>4 DEF Interrupt, LeaveTry, Goto
<1>5. ASSUME NEW j \in Jobs,
             TriggerBatch(j) \/ CliBatch(j) \/ SubmitTask(j) \/
             Acquire(j) \/ Count(j) \/ NotConfigured(j) \/
             StopAtCheck(j) \/ PassCheck(j) \/ EmptyBatch(j) \/
             Checkpoint(j) \/ Complete(j) \/ Failed(j) \/
             Interrupted(j) \/ Lose(j) \/ CliKilled(j) \/
             CancelJob(j) \/ MarkJobFailed(j)
      PROVE CountersTyped'
  BY <1>5 DEF Acquire, CancelJob, Checkpoint, CliBatch, CliKilled, Complete,
         Count, Counted, EmptyBatch, Failed, Goto, Insert, Interrupted,
         Leave, LoopPc, Lose, MarkJobFailed, NotConfigured, PassCheck,
         Runner!Acquire, Runner!Finish, Runner!Submit, Settle, Spend,
         StopAtCheck, SubmitTask, TriggerBatch
<1>6. CASE Crash \/ Stop \/ Stopped \/ Boot \/ BootUnrecovered \/ UNCHANGED vars
  BY <1>6 DEF Boot, BootUnrecovered, Crash, Die, Runner!Exit, Spend, Stop,
         Stopped, vars
<1> QED
  BY <1>1, <1>2, <1>3, <1>4, <1>5, <1>6
     DEF Next, Create, Step, Fault, Admin, Server

(* The workers, the handlers and the server use the task runner only       *)
(* through its own actions.                                                *)
LEMMA RunnerSteps == TypeOK /\ [Next]_vars => [Runner!Next]_runtime
<1> SUFFICES ASSUME TypeOK, [Next]_vars PROVE [Runner!Next]_runtime
  OBVIOUS
<1> USE DEF TypeOK, db, tasks, runtime, Runner!Next
<1>1. ASSUME NEW j \in Jobs, SubmitTask(j) PROVE [Runner!Next]_runtime
  BY <1>1 DEF SubmitTask, Goto
<1>2. ASSUME NEW j \in Jobs, Acquire(j) PROVE [Runner!Next]_runtime
  BY <1>2 DEF Acquire, Goto
<1>3. ASSUME NEW j \in Jobs, StopAtCheck(j) PROVE [Runner!Next]_runtime
  BY <1>3 DEF StopAtCheck, Counted, Goto, Leave
<1>4. ASSUME NEW j \in Jobs, Complete(j) PROVE [Runner!Next]_runtime
  BY <1>4 DEF Complete, Counted, Goto, Leave
<1>5. ASSUME NEW j \in Jobs, Failed(j) PROVE [Runner!Next]_runtime
  BY <1>5 DEF Failed, Counted, Goto, Leave
<1>6. ASSUME NEW j \in Jobs, Interrupted(j) PROVE [Runner!Next]_runtime
  BY <1>6 DEF Interrupted, Counted, Goto, Leave
<1>7. ASSUME NEW j \in Jobs, Lose(j) PROVE [Runner!Next]_runtime
  BY <1>7 DEF Lose, Spend, Goto, Leave
<1>8. ASSUME NEW j \in Jobs,
             TriggerBatch(j) \/ CliBatch(j) \/ Start(j) \/
             Count(j) \/ NotConfigured(j) \/ PassCheck(j) \/
             Batch(j) \/ EmptyBatch(j) \/ Checkpoint(j) \/
             Raise(j) \/ Interrupt(j) \/ CliKilled(j) \/
             CancelJob(j) \/ MarkJobFailed(j)
      PROVE [Runner!Next]_runtime
  BY <1>8 DEF Batch, CancelJob, Checkpoint, CliBatch, CliKilled, Count,
         Counted, EmptyBatch, Goto, Insert, Interrupt, LeaveTry, LoopPc,
         MarkJobFailed, NotConfigured, PassCheck, Raise, Settle, Spend,
         Start, TriggerBatch
<1>9. CASE Crash
  BY <1>9 DEF Crash, Die, Spend
<1>10. CASE Stopped
  BY <1>10 DEF Stopped, Die
<1>11. CASE Stop \/ Boot \/ BootUnrecovered \/ UNCHANGED vars
  BY <1>11 DEF Boot, BootUnrecovered, Spend, Stop, vars
<1> QED
  BY <1>1, <1>2, <1>3, <1>4, <1>5, <1>6, <1>7, <1>8, <1>9, <1>10, <1>11
     DEF Next, Create, Step, Fault, Admin, Server

(* The type invariant, through every action of the workers, the            *)
(* administrators and the server.                                          *)
THEOREM GeocodingTypes == Spec => []TypeOK
<1>1. Init => TypeOK
  BY SlotsAssumption DEF Init, TypeOK, Runner!Init, Runner!TypeOK, Runner!JobStatus, Status,
         TERMINAL_STATUSES, Row, Work, NoRow, NoWork, Pcs, LivePcs, BodyPcs, TryPcs
<1>2. TypeOK /\ [Next]_vars => TypeOK'
  <2> SUFFICES ASSUME TypeOK, [Next]_vars PROVE TypeOK'
    OBVIOUS
  <2>1. RowTyped' /\ TasksTyped' /\ CountersTyped'
    BY RowTypes, TaskTypes, CounterTypes
  <2>2. Runner!TypeOK'
    <3> USE SlotsAssumption DEF Runner!TypeOK, Runner!JobStatus, runtime
    <3>1. Runner!TypeOK /\ [Runner!Next]_runtime
      BY RunnerSteps DEF TypeOK
    <3>2. ASSUME NEW j \in Jobs, Runner!Submit(j) PROVE Runner!TypeOK'
      BY <3>1, <3>2 DEF Runner!Submit
    <3>3. ASSUME NEW j \in Jobs, Runner!Acquire(j) PROVE Runner!TypeOK'
      BY <3>1, <3>3 DEF Runner!Acquire
    <3>4. ASSUME NEW j \in Jobs, NEW o \in {"completed", "failed"}, Runner!Finish(j, o)
          PROVE  Runner!TypeOK'
      BY <3>1, <3>4 DEF Runner!Finish
    <3>5. CASE Runner!Exit
      BY <3>1, <3>5 DEF Runner!Exit
    <3>6. CASE UNCHANGED runtime
      BY <3>1, <3>6
    <3> QED
      BY <3>1, <3>2, <3>3, <3>4, <3>5, <3>6 DEF Runner!Next
  <2>3. srv' \in {"down", "up", "stopping"}
    <3> USE DEF TypeOK
    <3>1. ASSUME NEW j \in Jobs, Create(j) \/ Step(j) \/ Fault(j) \/ Admin(j)
          PROVE  srv' = srv
      BY <3>1 DEF Create, TriggerBatch, Insert, CliBatch, Step, SubmitTask, Acquire,
           Start, Count, NotConfigured, StopAtCheck, PassCheck, Batch, EmptyBatch,
           Checkpoint, Complete, Failed, Interrupted, Fault, Raise, Interrupt, Lose,
           CliKilled, Admin, CancelJob, MarkJobFailed, Settle
    <3>2. CASE Server
      BY <3>2 DEF Server, Crash, Die, Stop, Stopped, Boot, BootUnrecovered
    <3>3. CASE UNCHANGED vars
      BY <3>3 DEF vars
    <3> QED
      BY <3>1, <3>2, <3>3 DEF Next
  <2>4. spent' \in [crash : Nat, error : Nat, loss : Nat]
    <3> USE DEF TypeOK
    <3>1. spent' = spent \/ \E kind \in {"crash", "error", "loss"} : Spend(kind)
      BY DEF vars, Next, Create, TriggerBatch, Insert, CliBatch, Step, SubmitTask, Acquire,
           Start, Count, NotConfigured, StopAtCheck, PassCheck, Batch, EmptyBatch,
           Checkpoint, Complete, Failed, Interrupted, Fault, Raise, Interrupt, Lose,
           CliKilled, Admin, CancelJob, MarkJobFailed, Settle,
           Server, Crash, Die, Stop, Stopped, Boot, BootUnrecovered
    <3> QED
      BY <3>1 DEF Spend
  <2> QED
    BY <2>1, <2>2, <2>3, <2>4 DEF TypeOK, RowTyped, TasksTyped, CountersTyped
<1> QED
  BY <1>1, <1>2, PTL DEF Spec

(* Whatever the jobs, administrators and faults do to the runner is a      *)
(* behaviour of TaskRunner.                                                *)
THEOREM JobsUseRunner == Spec => Runner!Spec
<1>1. Init => Runner!Init
  BY DEF Init
<1>2. TypeOK /\ [Next]_vars => [Runner!Next]_(Runner!vars)
  BY RunnerSteps DEF Runner!vars, runtime
<1> QED
  BY <1>1, <1>2, GeocodingTypes, PTL DEF Spec, Runner!Spec

(* An open row has no late batch, a batch under way had none when its      *)
(* check passed, and so at most one is ever written after the row became   *)
(* terminal.                                                               *)
LateInv ==
  \A i \in Jobs :
    /\ late[i] <= 1
    /\ ~Terminal(i) => late[i] = 0
    /\ pc[i] \in {"idle", "batch"} => late[i] = 0

(* A cancelled or failed job writes at most the batch that was under way.  *)
THEOREM OneLateBatch == Spec => []AtMostOneLateBatch
<1>1. Init => LateInv
  BY DEF Init, LateInv
<1>2. TypeOK /\ LateInv /\ [Next]_vars => LateInv'
  <2> SUFFICES ASSUME TypeOK, LateInv, [Next]_vars PROVE LateInv'
    OBVIOUS
  <2> USE DEF LateInv, TypeOK, db, tasks, runtime, Terminal, TERMINAL_STATUSES,
          Row, Status, Open, TryPcs
  <2>1. ASSUME NEW j \in Jobs, TriggerBatch(j) PROVE LateInv'
    BY <2>1 DEF TriggerBatch, Insert, Goto
  <2>2. ASSUME NEW j \in Jobs, CliBatch(j) PROVE LateInv'
    BY <2>2 DEF CliBatch, Insert, Goto
  <2>3. ASSUME NEW j \in Jobs, SubmitTask(j) PROVE LateInv'
    BY <2>3 DEF SubmitTask, Goto, Runner!Submit
  <2>4. ASSUME NEW j \in Jobs, Acquire(j) PROVE LateInv'
    BY <2>4 DEF Acquire, Goto, Runner!Acquire
  <2>5. ASSUME NEW j \in Jobs, Start(j) PROVE LateInv'
    BY <2>5 DEF Start, Goto
  <2>6. ASSUME NEW j \in Jobs, Count(j) PROVE LateInv'
    BY <2>6 DEF Count, Goto, LoopPc
  <2>7. ASSUME NEW j \in Jobs, NotConfigured(j) PROVE LateInv'
    BY <2>7 DEF NotConfigured, Goto
  <2>8. ASSUME NEW j \in Jobs, StopAtCheck(j) PROVE LateInv'
    BY <2>8 DEF StopAtCheck, Counted, Goto, Leave, Runner!Finish
  <2>9. ASSUME NEW j \in Jobs, PassCheck(j) PROVE LateInv'
    BY <2>9 DEF PassCheck, Goto
  <2>10. ASSUME NEW j \in Jobs, Batch(j) PROVE LateInv'
    BY <2>10 DEF Batch, Goto
  <2>11. ASSUME NEW j \in Jobs, EmptyBatch(j) PROVE LateInv'
    BY <2>11 DEF EmptyBatch, Goto
  <2>12. ASSUME NEW j \in Jobs, Checkpoint(j) PROVE LateInv'
    BY <2>12 DEF Checkpoint, Counted, Goto, LoopPc
  <2>13. ASSUME NEW j \in Jobs, Complete(j) PROVE LateInv'
    BY <2>13 DEF Complete, Counted, Goto, Leave, Runner!Finish
  <2>14. ASSUME NEW j \in Jobs, Failed(j) PROVE LateInv'
    BY <2>14 DEF Failed, Counted, Goto, Leave, Runner!Finish
  <2>15. ASSUME NEW j \in Jobs, Interrupted(j) PROVE LateInv'
    BY <2>15 DEF Interrupted, Counted, Goto, Leave, Runner!Finish
  <2>16. ASSUME NEW j \in Jobs, Raise(j) PROVE LateInv'
    BY <2>16 DEF Raise, LeaveTry, Goto, Spend
  <2>17. ASSUME NEW j \in Jobs, Interrupt(j) PROVE LateInv'
    BY <2>17 DEF Interrupt, LeaveTry, Goto
  <2>18. ASSUME NEW j \in Jobs, Lose(j) PROVE LateInv'
    BY <2>18 DEF Lose, Spend, Goto, Leave, Runner!Finish
  <2>19. ASSUME NEW j \in Jobs, CliKilled(j) PROVE LateInv'
    BY <2>19 DEF CliKilled, Spend, Goto
  <2>20. ASSUME NEW j \in Jobs, CancelJob(j) PROVE LateInv'
    BY <2>20 DEF CancelJob, Settle
  <2>21. ASSUME NEW j \in Jobs, MarkJobFailed(j) PROVE LateInv'
    BY <2>21 DEF MarkJobFailed, Settle
  <2>22. CASE Crash
    BY <2>22 DEF Crash, Die, Spend, Runner!Exit
  <2>23. CASE Stop
    BY <2>23 DEF Stop, Spend
  <2>24. CASE Stopped
    BY <2>24 DEF Stopped, Die, Runner!Exit
  <2>25. CASE Boot
    BY <2>25 DEF Boot
  <2>26. CASE BootUnrecovered
    BY <2>26 DEF BootUnrecovered, Spend
  <2>27. CASE UNCHANGED vars
    BY <2>27 DEF vars
  <2> QED
    BY <2>1, <2>2, <2>3, <2>4, <2>5, <2>6, <2>7, <2>8, <2>9, <2>10, <2>11,
       <2>12, <2>13, <2>14, <2>15, <2>16, <2>17, <2>18, <2>19, <2>20, <2>21,
       <2>22, <2>23, <2>24, <2>25, <2>26, <2>27
       DEF Next, Create, Step, Fault, Admin, Server
<1>3. LateInv => AtMostOneLateBatch
  BY DEF LateInv, AtMostOneLateBatch
<1> QED
  BY <1>1, <1>2, <1>3, GeocodingTypes, PTL DEF Spec

(* While the server is up every open row has a live coroutine, unless a    *)
(* failure nothing repairs has happened.                                   *)
THEOREM NoPhantoms == Spec => []NoPhantomJobs
<1>1. Init => NoPhantomJobs
  BY DEF Init, NoPhantomJobs, Open, NoRow
<1>2. TypeOK /\ NoPhantomJobs /\ [Next]_vars => NoPhantomJobs'
  <2> SUFFICES ASSUME TypeOK, NoPhantomJobs, [Next]_vars PROVE NoPhantomJobs'
    OBVIOUS
  <2> USE DEF NoPhantomJobs, TypeOK, db, tasks, runtime, Open, Live, Terminal, Row, Status, Local,
          TERMINAL_STATUSES, LivePcs, BodyPcs, TryPcs
  <2>1. ASSUME NEW j \in Jobs, TriggerBatch(j) PROVE NoPhantomJobs'
    BY <2>1 DEF TriggerBatch, Insert, Goto
  <2>2. ASSUME NEW j \in Jobs, CliBatch(j) PROVE NoPhantomJobs'
    BY <2>2 DEF CliBatch, Insert, Goto
  <2>3. ASSUME NEW j \in Jobs, SubmitTask(j) PROVE NoPhantomJobs'
    BY <2>3 DEF SubmitTask, Goto, Runner!Submit
  <2>4. ASSUME NEW j \in Jobs, Acquire(j) PROVE NoPhantomJobs'
    BY <2>4 DEF Acquire, Goto, Runner!Acquire
  <2>5. ASSUME NEW j \in Jobs, Start(j) PROVE NoPhantomJobs'
    BY <2>5 DEF Start, Goto
  <2>6. ASSUME NEW j \in Jobs, Count(j) PROVE NoPhantomJobs'
    BY <2>6 DEF Count, Goto, LoopPc
  <2>7. ASSUME NEW j \in Jobs, NotConfigured(j) PROVE NoPhantomJobs'
    BY <2>7 DEF NotConfigured, Goto
  <2>8. ASSUME NEW j \in Jobs, StopAtCheck(j) PROVE NoPhantomJobs'
    BY <2>8 DEF StopAtCheck, Counted, Goto, Leave, Runner!Finish
  <2>9. ASSUME NEW j \in Jobs, PassCheck(j) PROVE NoPhantomJobs'
    BY <2>9 DEF PassCheck, Goto
  <2>10. ASSUME NEW j \in Jobs, Batch(j) PROVE NoPhantomJobs'
    BY <2>10 DEF Batch, Goto
  <2>11. ASSUME NEW j \in Jobs, EmptyBatch(j) PROVE NoPhantomJobs'
    BY <2>11 DEF EmptyBatch, Goto
  <2>12. ASSUME NEW j \in Jobs, Checkpoint(j) PROVE NoPhantomJobs'
    BY <2>12 DEF Checkpoint, Counted, Goto, LoopPc
  <2>13. ASSUME NEW j \in Jobs, Complete(j) PROVE NoPhantomJobs'
    BY <2>13 DEF Complete, Counted, Goto, Leave, Runner!Finish
  <2>14. ASSUME NEW j \in Jobs, Failed(j) PROVE NoPhantomJobs'
    BY <2>14 DEF Failed, Counted, Goto, Leave, Runner!Finish
  <2>15. ASSUME NEW j \in Jobs, Interrupted(j) PROVE NoPhantomJobs'
    BY <2>15 DEF Interrupted, Counted, Goto, Leave, Runner!Finish
  <2>16. ASSUME NEW j \in Jobs, Raise(j) PROVE NoPhantomJobs'
    BY <2>16 DEF Raise, LeaveTry, Goto, Spend
  <2>17. ASSUME NEW j \in Jobs, Interrupt(j) PROVE NoPhantomJobs'
    BY <2>17 DEF Interrupt, LeaveTry, Goto
  <2>18. ASSUME NEW j \in Jobs, Lose(j) PROVE NoPhantomJobs'
    BY <2>18 DEF Lose, Spend, Goto, Leave, Runner!Finish
  <2>19. ASSUME NEW j \in Jobs, CliKilled(j) PROVE NoPhantomJobs'
    BY <2>19 DEF CliKilled, Spend, Goto
  <2>20. ASSUME NEW j \in Jobs, CancelJob(j) PROVE NoPhantomJobs'
    BY <2>20 DEF CancelJob, Settle
  <2>21. ASSUME NEW j \in Jobs, MarkJobFailed(j) PROVE NoPhantomJobs'
    BY <2>21 DEF MarkJobFailed, Settle
  <2>22. CASE Crash
    BY <2>22 DEF Crash, Die, Spend, Runner!Exit
  <2>23. CASE Stop
    BY <2>23 DEF Stop, Spend
  <2>24. CASE Stopped
    BY <2>24 DEF Stopped, Die, Runner!Exit
  <2>25. CASE Boot
    BY <2>25 DEF Boot
  <2>26. CASE BootUnrecovered
    BY <2>26 DEF BootUnrecovered, Spend
  <2>27. CASE UNCHANGED vars
    BY <2>27 DEF vars
  <2> QED
    BY <2>1, <2>2, <2>3, <2>4, <2>5, <2>6, <2>7, <2>8, <2>9, <2>10, <2>11,
       <2>12, <2>13, <2>14, <2>15, <2>16, <2>17, <2>18, <2>19, <2>20, <2>21,
       <2>22, <2>23, <2>24, <2>25, <2>26, <2>27
       DEF Next, Create, Step, Fault, Admin, Server
<1> QED
  BY <1>1, <1>2, GeocodingTypes, PTL DEF Spec

(* The counters of a coroutine inside its loop are those of the committed  *)
(* data; the offset lags by the batch that awaits its checkpoint; and only *)
(* a coroutine's last step writes "completed".                             *)
CountsInv ==
  \A i \in Jobs :
    /\ pc[i] \in {"idle", "created", "queued", "starting", "count"} =>
         /\ work[i].ok = 0 /\ work[i].bad = 0 /\ data[i].ok = 0 /\ data[i].bad = 0
         /\ row[i].offset = 0
    /\ pc[i] \in {"loop", "batch", "checkpoint", "final", "complete"} =>
         /\ work[i].ok = data[i].ok /\ work[i].bad = data[i].bad
         /\ IF pc[i] = "checkpoint"
              THEN row[i].offset + work[i].n = data[i].ok + data[i].bad
              ELSE row[i].offset = data[i].ok + data[i].bad
    /\ row[i].offset <= data[i].ok + data[i].bad
    /\ row[i].status = "completed" =>
         /\ pc[i] = "end"
         /\ row[i].ok = data[i].ok /\ row[i].bad = data[i].bad
         /\ row[i].offset = data[i].ok + data[i].bad

LEMMA CountsInduction == Spec => []CountsInv
<1>1. Init => CountsInv
  BY DEF Init, CountsInv, NoRow, NoWork
<1>2. TypeOK /\ CountsInv /\ [Next]_vars => CountsInv'
  <2> SUFFICES ASSUME TypeOK, CountsInv, [Next]_vars PROVE CountsInv'
    OBVIOUS
  <2> USE DEF CountsInv, TypeOK, db, tasks, runtime, Open, Live, Terminal, Row, Work, Status, Local,
          TERMINAL_STATUSES, LivePcs, BodyPcs, TryPcs
  <2>1. ASSUME NEW j \in Jobs, TriggerBatch(j) PROVE CountsInv'
    BY <2>1 DEF TriggerBatch, Insert, Goto
  <2>2. ASSUME NEW j \in Jobs, CliBatch(j) PROVE CountsInv'
    BY <2>2 DEF CliBatch, Insert, Goto
  <2>3. ASSUME NEW j \in Jobs, SubmitTask(j) PROVE CountsInv'
    BY <2>3 DEF SubmitTask, Goto
  <2>4. ASSUME NEW j \in Jobs, Acquire(j) PROVE CountsInv'
    BY <2>4 DEF Acquire, Goto
  <2>5. ASSUME NEW j \in Jobs, Start(j) PROVE CountsInv'
    BY <2>5 DEF Start, Goto
  <2>6. ASSUME NEW j \in Jobs, Count(j) PROVE CountsInv'
    BY <2>6 DEF Count, Goto, LoopPc
  <2>7. ASSUME NEW j \in Jobs, NotConfigured(j) PROVE CountsInv'
    BY <2>7 DEF NotConfigured, Goto
  <2>8. ASSUME NEW j \in Jobs, StopAtCheck(j) PROVE CountsInv'
    BY <2>8 DEF StopAtCheck, Counted, Goto
  <2>9. ASSUME NEW j \in Jobs, PassCheck(j) PROVE CountsInv'
    BY <2>9 DEF PassCheck, Goto
  <2>10. ASSUME NEW j \in Jobs, Batch(j) PROVE CountsInv'
    <3>1. PICK n \in 1..BatchSize : \E k \in 0..n :
               /\ work' = [work EXCEPT ![j] = [ok  |-> @.ok + k,
                                               bad |-> @.bad + (n - k), n |-> n]]
               /\ data' = [data EXCEPT ![j] = [ok  |-> @.ok + k,
                                               bad |-> @.bad + (n - k)]]
      BY <2>10 DEF Batch
    <3>2. PICK k \in 0..n :
               /\ work' = [work EXCEPT ![j] = [ok  |-> @.ok + k,
                                               bad |-> @.bad + (n - k), n |-> n]]
               /\ data' = [data EXCEPT ![j] = [ok  |-> @.ok + k,
                                               bad |-> @.bad + (n - k)]]
      BY <3>1
    <3>3. /\ pc[j] = "batch" /\ pc' = [pc EXCEPT ![j] = "checkpoint"] /\ row' = row
          /\ n \in Nat /\ k \in Nat /\ n - k \in Nat
      BY <2>10, BoundsAssumption DEF Batch, Goto
    <3>4. ASSUME NEW i \in Jobs, i # j
          PROVE  work'[i] = work[i] /\ data'[i] = data[i] /\ pc'[i] = pc[i]
      BY <3>2, <3>3, <3>4
    <3>5. /\ work'[j].ok = work[j].ok + k /\ work'[j].bad = work[j].bad + (n - k)
          /\ work'[j].n = n
          /\ data'[j].ok = data[j].ok + k /\ data'[j].bad = data[j].bad + (n - k)
      BY <3>2
    <3>6. /\ data[j].ok \in Nat /\ data[j].bad \in Nat /\ row[j].offset \in Nat
          /\ work[j].ok \in Nat /\ work[j].bad \in Nat
      OBVIOUS
    <3> SUFFICES ASSUME NEW i \in Jobs PROVE CountsInv!(i)'
      OBVIOUS
    <3>7. CASE i = j
      BY <3>3, <3>5, <3>6, <3>7
    <3>8. CASE i # j
      BY <3>3, <3>4, <3>8
    <3> QED
      BY <3>7, <3>8
  <2>11. ASSUME NEW j \in Jobs, EmptyBatch(j) PROVE CountsInv'
    BY <2>11 DEF EmptyBatch, Goto
  <2>12. ASSUME NEW j \in Jobs, Checkpoint(j) PROVE CountsInv'
    BY <2>12 DEF Checkpoint, Counted, Goto, LoopPc
  <2>13. ASSUME NEW j \in Jobs, Complete(j) PROVE CountsInv'
    BY <2>13 DEF Complete, Counted, Goto
  <2>14. ASSUME NEW j \in Jobs, Failed(j) PROVE CountsInv'
    BY <2>14 DEF Failed, Counted, Goto
  <2>15. ASSUME NEW j \in Jobs, Interrupted(j) PROVE CountsInv'
    BY <2>15 DEF Interrupted, Counted, Goto
  <2>16. ASSUME NEW j \in Jobs, Raise(j) PROVE CountsInv'
    BY <2>16 DEF Raise, LeaveTry, Goto, Spend
  <2>17. ASSUME NEW j \in Jobs, Interrupt(j) PROVE CountsInv'
    BY <2>17 DEF Interrupt, LeaveTry, Goto
  <2>18. ASSUME NEW j \in Jobs, Lose(j) PROVE CountsInv'
    BY <2>18 DEF Lose, Spend, Goto
  <2>19. ASSUME NEW j \in Jobs, CliKilled(j) PROVE CountsInv'
    BY <2>19 DEF CliKilled, Spend, Goto
  <2>20. ASSUME NEW j \in Jobs, CancelJob(j) PROVE CountsInv'
    BY <2>20 DEF CancelJob, Settle
  <2>21. ASSUME NEW j \in Jobs, MarkJobFailed(j) PROVE CountsInv'
    BY <2>21 DEF MarkJobFailed, Settle
  <2>22. CASE Crash
    BY <2>22 DEF Crash, Die, Spend, Runner!Exit
  <2>23. CASE Stop
    BY <2>23 DEF Stop, Spend
  <2>24. CASE Stopped
    BY <2>24 DEF Stopped, Die, Runner!Exit
  <2>25. CASE Boot
    BY <2>25 DEF Boot
  <2>26. CASE BootUnrecovered
    BY <2>26 DEF BootUnrecovered, Spend
  <2>27. CASE UNCHANGED vars
    BY <2>27 DEF vars
  <2> QED
    BY <2>1, <2>2, <2>3, <2>4, <2>5, <2>6, <2>7, <2>8, <2>9, <2>10, <2>11,
       <2>12, <2>13, <2>14, <2>15, <2>16, <2>17, <2>18, <2>19, <2>20, <2>21,
       <2>22, <2>23, <2>24, <2>25, <2>26, <2>27
       DEF Next, Create, Step, Fault, Admin, Server
<1> QED
  BY <1>1, <1>2, GeocodingTypes, PTL DEF Spec

(* The checkpoint never runs ahead of the committed voters.                *)
THEOREM CheckpointIsSafe == Spec => []CheckpointBehindData
<1>1. CountsInv => CheckpointBehindData
  BY DEF CountsInv, CheckpointBehindData
<1> QED
  BY <1>1, CountsInduction, PTL

(* A completed job reports exactly what is stored.                         *)
THEOREM CompletedJobsAreExact == Spec => []CompletedIsExact
<1>1. CountsInv => CompletedIsExact
  BY DEF CountsInv, CompletedIsExact
<1> QED
  BY <1>1, CountsInduction, PTL

(* Who holds a permit is in its body, on the server, and only the server's *)
(* coroutines wait for one.                                                *)
HoldersInv ==
  \A i \in Jobs :
    /\ (runner[i] = "running") <=> (host[i] = "server" /\ pc[i] \in BodyPcs)
    /\ pc[i] \in {"created", "queued"} => host[i] = "server"

LEMMA HoldersInduction == Spec => []HoldersInv
<1>1. Init => HoldersInv
  BY DEF Init, HoldersInv, Runner!Init, BodyPcs, TryPcs
<1>2. TypeOK /\ HoldersInv /\ [Next]_vars => HoldersInv'
  <2> SUFFICES ASSUME TypeOK, HoldersInv, [Next]_vars PROVE HoldersInv'
    OBVIOUS
  <2> USE DEF HoldersInv, TypeOK, db, tasks, runtime, Local, LivePcs,
          BodyPcs, TryPcs, Runner!TypeOK
  <2>1. ASSUME NEW j \in Jobs, TriggerBatch(j) PROVE HoldersInv'
    BY <2>1 DEF TriggerBatch, Insert, Goto
  <2>2. ASSUME NEW j \in Jobs, CliBatch(j) PROVE HoldersInv'
    BY <2>2 DEF CliBatch, Insert, Goto
  <2>3. ASSUME NEW j \in Jobs, SubmitTask(j) PROVE HoldersInv'
    BY <2>3 DEF SubmitTask, Goto, Runner!Submit
  <2>4. ASSUME NEW j \in Jobs, Acquire(j) PROVE HoldersInv'
    BY <2>4 DEF Acquire, Goto, Runner!Acquire
  <2>5. ASSUME NEW j \in Jobs, Start(j) PROVE HoldersInv'
    BY <2>5 DEF Start, Goto
  <2>6. ASSUME NEW j \in Jobs, Count(j) PROVE HoldersInv'
    BY <2>6 DEF Count, Goto, LoopPc
  <2>7. ASSUME NEW j \in Jobs, NotConfigured(j) PROVE HoldersInv'
    BY <2>7 DEF NotConfigured, Goto
  <2>8. ASSUME NEW j \in Jobs, StopAtCheck(j) PROVE HoldersInv'
    BY <2>8 DEF StopAtCheck, Counted, Goto, Leave, Runner!Finish
  <2>9. ASSUME NEW j \in Jobs, PassCheck(j) PROVE HoldersInv'
    BY <2>9 DEF PassCheck, Goto
  <2>10. ASSUME NEW j \in Jobs, Batch(j) PROVE HoldersInv'
    BY <2>10 DEF Batch, Goto
  <2>11. ASSUME NEW j \in Jobs, EmptyBatch(j) PROVE HoldersInv'
    BY <2>11 DEF EmptyBatch, Goto
  <2>12. ASSUME NEW j \in Jobs, Checkpoint(j) PROVE HoldersInv'
    BY <2>12 DEF Checkpoint, Counted, Goto, LoopPc
  <2>13. ASSUME NEW j \in Jobs, Complete(j) PROVE HoldersInv'
    BY <2>13 DEF Complete, Counted, Goto, Leave, Runner!Finish
  <2>14. ASSUME NEW j \in Jobs, Failed(j) PROVE HoldersInv'
    BY <2>14 DEF Failed, Counted, Goto, Leave, Runner!Finish
  <2>15. ASSUME NEW j \in Jobs, Interrupted(j) PROVE HoldersInv'
    BY <2>15 DEF Interrupted, Counted, Goto, Leave, Runner!Finish
  <2>16. ASSUME NEW j \in Jobs, Raise(j) PROVE HoldersInv'
    BY <2>16 DEF Raise, LeaveTry, Goto, Spend
  <2>17. ASSUME NEW j \in Jobs, Interrupt(j) PROVE HoldersInv'
    BY <2>17 DEF Interrupt, LeaveTry, Goto
  <2>18. ASSUME NEW j \in Jobs, Lose(j) PROVE HoldersInv'
    BY <2>18 DEF Lose, Spend, Goto, Leave, Runner!Finish
  <2>19. ASSUME NEW j \in Jobs, CliKilled(j) PROVE HoldersInv'
    BY <2>19 DEF CliKilled, Spend, Goto
  <2>20. ASSUME NEW j \in Jobs, CancelJob(j) PROVE HoldersInv'
    BY <2>20 DEF CancelJob, Settle
  <2>21. ASSUME NEW j \in Jobs, MarkJobFailed(j) PROVE HoldersInv'
    BY <2>21 DEF MarkJobFailed, Settle
  <2>22. CASE Crash
    BY <2>22 DEF Crash, Die, Spend, Runner!Exit
  <2>23. CASE Stop
    BY <2>23 DEF Stop, Spend
  <2>24. CASE Stopped
    BY <2>24 DEF Stopped, Die, Runner!Exit
  <2>25. CASE Boot
    BY <2>25 DEF Boot
  <2>26. CASE BootUnrecovered
    BY <2>26 DEF BootUnrecovered, Spend
  <2>27. CASE UNCHANGED vars
    BY <2>27 DEF vars
  <2> QED
    BY <2>1, <2>2, <2>3, <2>4, <2>5, <2>6, <2>7, <2>8, <2>9, <2>10, <2>11,
       <2>12, <2>13, <2>14, <2>15, <2>16, <2>17, <2>18, <2>19, <2>20, <2>21,
       <2>22, <2>23, <2>24, <2>25, <2>26, <2>27
       DEF Next, Create, Step, Fault, Admin, Server
<1> QED
  BY <1>1, <1>2, GeocodingTypes, PTL DEF Spec

(* A coroutine that is let through becomes a worker, one that leaves is no *)
(* longer one, and nothing else changes who works.                         *)
LEMMA WorkersChange ==
  ASSUME TypeOK, HoldersInv, [Next]_vars
  PROVE  \/ Workers' = Workers /\ permits' = permits
         \/ \E j \in Jobs \ Workers : /\ Workers' = Workers \cup {j}
                                     /\ permits' = permits - 1
         \/ \E j \in Workers : /\ Workers' = Workers \ {j}
                              /\ permits' = permits + 1
         \/ Workers' = {} /\ permits' = Slots
<1> DEFINE Goal == \/ Workers' = Workers /\ permits' = permits
                   \/ \E j \in Jobs \ Workers : /\ Workers' = Workers \cup {j}
                                               /\ permits' = permits - 1
                   \/ \E j \in Workers : /\ Workers' = Workers \ {j}
                                        /\ permits' = permits + 1
                   \/ Workers' = {} /\ permits' = Slots
<1> USE DEF TypeOK, Workers, db, tasks, runtime, LivePcs, BodyPcs, TryPcs
<1>1. ASSUME NEW j \in Jobs, Acquire(j) PROVE Goal
  <2>1. /\ host[j] = "server" /\ j \notin Workers
        /\ pc' = [pc EXCEPT ![j] = "starting"] /\ host' = host
        /\ permits' = permits - 1
    BY <1>1 DEF HoldersInv, Acquire, Goto, Runner!Acquire
  <2>2. Workers' = Workers \cup {j}
    BY <2>1
  <2> QED
    BY <2>1, <2>2
<1>2. ASSUME NEW j \in Jobs, j \in Workers, pc' = [pc EXCEPT ![j] = "end"], host' = host,
             permits' = permits + 1
      PROVE  Goal
  <2>1. Workers' = Workers \ {j}
    BY <1>2
  <2> QED
    BY <1>2, <2>1
<1>3. ASSUME NEW j \in Jobs, j \notin Workers, pc' = [pc EXCEPT ![j] = "end"], host' = host,
             permits' = permits
      PROVE  Goal
  <2>1. Workers' = Workers
    BY <1>3
  <2> QED
    BY <1>3, <2>1
<1>4. ASSUME NEW j \in Jobs,
             StopAtCheck(j) \/ Complete(j) \/ Failed(j) \/ Interrupted(j) \/ Lose(j)
      PROVE  Goal
  <2>1. /\ pc' = [pc EXCEPT ![j] = "end"] /\ host' = host
        /\ pc[j] \in BodyPcs \/ pc[j] = "created"
        /\ permits' = IF host[j] = "server" /\ pc[j] # "created" THEN permits + 1
                                                              ELSE permits
    BY <1>4 DEF StopAtCheck, Complete, Failed, Interrupted, Lose, Leave, Goto,
                Runner!Finish
  <2>2. j \in Workers <=> host[j] = "server" /\ pc[j] # "created"
    BY <2>1
  <2> QED
    BY <1>2, <1>3, <2>1, <2>2
<1>5. ASSUME NEW j \in Jobs,
             TriggerBatch(j) \/ CliBatch(j) \/ SubmitTask(j) \/ Start(j) \/ Count(j)
               \/ NotConfigured(j) \/ PassCheck(j) \/ Batch(j) \/ EmptyBatch(j)
               \/ Checkpoint(j) \/ Raise(j) \/ Interrupt(j) \/ CliKilled(j)
      PROVE  Goal
  <2>1. /\ permits' = permits
        /\ \A i \in Jobs \ {j} : pc'[i] = pc[i] /\ host'[i] = host[i]
    BY <1>5 DEF TriggerBatch, CliBatch, Insert, SubmitTask, Start, Count, NotConfigured,
                PassCheck, Batch, EmptyBatch, Checkpoint, Raise, Interrupt, CliKilled,
                LeaveTry, Goto, Runner!Submit
  <2>2. j \in Workers' <=> j \in Workers
    BY <1>5 DEF TriggerBatch, CliBatch, Insert, SubmitTask, Start, Count, NotConfigured,
                PassCheck, Batch, EmptyBatch, Checkpoint, Raise, Interrupt, CliKilled,
                LeaveTry, LoopPc, Goto
  <2>3. Workers' = Workers
    BY <2>1, <2>2
  <2> QED
    BY <2>1, <2>3
<1>6. ASSUME UNCHANGED <<tasks, permits>> PROVE Goal
  BY <1>6
<1>7. ASSUME NEW j \in Jobs, CancelJob(j) \/ MarkJobFailed(j) PROVE Goal
  BY <1>6, <1>7 DEF CancelJob, MarkJobFailed, Settle
<1>8. CASE Crash \/ Stopped
  <2>1. Workers' = {} /\ permits' = Slots
    BY <1>8 DEF Crash, Stopped, Die, Local, Runner!Exit
  <2> QED
    BY <2>1
<1>9. CASE Stop \/ Boot \/ BootUnrecovered \/ UNCHANGED vars
  BY <1>6, <1>9 DEF Stop, Boot, BootUnrecovered, vars
<1> QED
  BY <1>1, <1>4, <1>5, <1>7, <1>8, <1>9 DEF Next, Create, Step, Fault, Admin, Server

(* No way out of the worker leaks a permit of the runner.                  *)
THEOREM NoPermitLeaks == Spec => []PermitsMatchWorkers
<1>1. Init => PermitsMatchWorkers
  <2> SUFFICES ASSUME Init PROVE PermitsMatchWorkers
    OBVIOUS
  <2>1. Workers = {} /\ permits = Slots
    BY DEF Init, Workers, Runner!Init
  <2> QED
    BY <2>1, FS_EmptySet, SlotsAssumption DEF PermitsMatchWorkers
<1>2. TypeOK /\ HoldersInv /\ PermitsMatchWorkers /\ [Next]_vars => PermitsMatchWorkers'
  <2> SUFFICES ASSUME TypeOK, HoldersInv, PermitsMatchWorkers, [Next]_vars
               PROVE  PermitsMatchWorkers'
    OBVIOUS
  <2>1. Workers \subseteq Jobs
    BY DEF Workers
  <2>2. IsFiniteSet(Workers) /\ Cardinality(Workers) \in Nat
    BY <2>1, JobsAssumption, FS_Subset, FS_CardinalityType
  <2>3. permits \in Nat
    BY DEF TypeOK, Runner!TypeOK
  <2> USE SlotsAssumption DEF PermitsMatchWorkers
  <2>4. CASE Workers' = Workers /\ permits' = permits
    BY <2>4
  <2>5. ASSUME NEW j \in Jobs \ Workers, Workers' = Workers \cup {j}, permits' = permits - 1
        PROVE  PermitsMatchWorkers'
    <3>1. Cardinality(Workers \cup {j}) = Cardinality(Workers) + 1
      BY <2>2, FS_AddElement
    <3> QED
      BY <2>2, <2>3, <2>5, <3>1
  <2>6. ASSUME NEW j \in Workers, Workers' = Workers \ {j}, permits' = permits + 1
        PROVE  PermitsMatchWorkers'
    <3>1. Cardinality(Workers \ {j}) = Cardinality(Workers) - 1
      BY <2>2, FS_RemoveElement
    <3> QED
      BY <2>2, <2>3, <2>6, <3>1
  <2>7. CASE Workers' = {} /\ permits' = Slots
    BY <2>7, FS_EmptySet
  <2> QED
    BY <2>4, <2>5, <2>6, <2>7, WorkersChange
<1> QED
  BY <1>1, <1>2, GeocodingTypes, HoldersInduction, PTL DEF Spec

(* The runner's record of a coroutine that has left is of one whose worker *)
(* is at its end, after which only open rows are settled.                  *)
EndedInv == /\ \A i \in Jobs : runner[i] \in {"completed", "failed"} => pc[i] = "end"
            /\ RunnerAgreesWithRow

LEMMA EndedInduction == Spec => []EndedInv
<1>1. Init => EndedInv
  BY DEF Init, EndedInv, RunnerAgreesWithRow, Runner!Init
<1>2. TypeOK /\ EndedInv /\ [Next]_vars => EndedInv'
  <2> SUFFICES ASSUME TypeOK, EndedInv, [Next]_vars PROVE EndedInv'
    OBVIOUS
  <2> USE DEF EndedInv, RunnerAgreesWithRow, TypeOK, Terminal, TERMINAL_STATUSES, Open, db, tasks,
          runtime, Local, Live, LivePcs, BodyPcs, TryPcs, Row, Runner!TypeOK
  (* A coroutine that ends.                                                *)
  <2>e. ASSUME NEW j \in Jobs, pc' = [pc EXCEPT ![j] = "end"],
               \A i \in Jobs \ {j} : row'[i] = row[i] /\ runner'[i] = runner[i],
               spent'.loss = 0 => /\ spent.loss = 0
                                  /\ runner'[j] = "completed" => Terminal(j)'
                                  /\ runner'[j] = "failed" => row'[j].status = "failed"
        PROVE  EndedInv'
    BY <2>e
  (* What the runner makes of it.                                          *)
  <2>r. ASSUME NEW j \in Jobs, NEW outcome \in {"completed", "failed"}, Leave(j, outcome)
        PROVE  /\ \A i \in Jobs \ {j} : runner'[i] = runner[i]
               /\ runner'[j] \in {runner[j], outcome}
    BY <2>r DEF Leave, Runner!Finish
  <2>1. ASSUME NEW j \in Jobs, TriggerBatch(j) PROVE EndedInv'
    BY <2>1 DEF TriggerBatch, Insert, Goto
  <2>2. ASSUME NEW j \in Jobs, CliBatch(j) PROVE EndedInv'
    BY <2>2 DEF CliBatch, Insert, Goto
  <2>3. ASSUME NEW j \in Jobs, SubmitTask(j) PROVE EndedInv'
    BY <2>3 DEF SubmitTask, Goto, Runner!Submit
  <2>4. ASSUME NEW j \in Jobs, Acquire(j) PROVE EndedInv'
    BY <2>4 DEF Acquire, Goto, Runner!Acquire
  <2>5. ASSUME NEW j \in Jobs, Start(j) PROVE EndedInv'
    BY <2>5 DEF Start, Goto
  <2>6. ASSUME NEW j \in Jobs, Count(j) PROVE EndedInv'
    BY <2>6 DEF Count, Goto, LoopPc
  <2>7. ASSUME NEW j \in Jobs, NotConfigured(j) PROVE EndedInv'
    BY <2>7 DEF NotConfigured, Goto
  <2>8. ASSUME NEW j \in Jobs, StopAtCheck(j) PROVE EndedInv'
    <3>1. /\ pc[j] \in BodyPcs /\ pc' = [pc EXCEPT ![j] = "end"] /\ spent' = spent
          /\ Leave(j, "completed")
      BY <2>8 DEF StopAtCheck, Goto
    <3>2. /\ \A i \in Jobs \ {j} : row'[i] = row[i]
          /\ row'[j].status = row[j].status
      BY <2>8 DEF StopAtCheck, Counted
    <3>3. runner[j] \notin {"completed", "failed"}
      BY <3>1
    <3>4. /\ \A i \in Jobs \ {j} : runner'[i] = runner[i]
          /\ runner'[j] \in {runner[j], "completed"}
      BY <2>r, <3>1
    <3>5. Terminal(j)'
      BY <2>8, <3>2 DEF StopAtCheck
    <3>6. spent'.loss = 0 => spent.loss = 0
      BY <3>1
    <3> QED
      BY <2>e, <3>1, <3>2, <3>3, <3>4, <3>5, <3>6
  <2>9. ASSUME NEW j \in Jobs, PassCheck(j) PROVE EndedInv'
    BY <2>9 DEF PassCheck, Goto
  <2>10. ASSUME NEW j \in Jobs, Batch(j) PROVE EndedInv'
    BY <2>10 DEF Batch, Goto
  <2>11. ASSUME NEW j \in Jobs, EmptyBatch(j) PROVE EndedInv'
    BY <2>11 DEF EmptyBatch, Goto
  <2>12. ASSUME NEW j \in Jobs, Checkpoint(j) PROVE EndedInv'
    BY <2>12 DEF Checkpoint, Counted, Goto, LoopPc
  <2>13. ASSUME NEW j \in Jobs, Complete(j) PROVE EndedInv'
    <3>1. /\ pc[j] \in BodyPcs /\ pc' = [pc EXCEPT ![j] = "end"] /\ spent' = spent
          /\ Leave(j, "completed")
      BY <2>13 DEF Complete, Goto
    <3>2. /\ \A i \in Jobs \ {j} : row'[i] = row[i]
          /\ row'[j].status = "completed"
      BY <2>13 DEF Complete, Counted
    <3>3. runner[j] \notin {"completed", "failed"}
      BY <3>1
    <3>4. /\ \A i \in Jobs \ {j} : runner'[i] = runner[i]
          /\ runner'[j] \in {runner[j], "completed"}
      BY <2>r, <3>1
    <3>5. Terminal(j)'
      BY <2>13, <3>2 DEF Complete
    <3>6. spent'.loss = 0 => spent.loss = 0
      BY <3>1
    <3> QED
      BY <2>e, <3>1, <3>2, <3>3, <3>4, <3>5, <3>6
  <2>14. ASSUME NEW j \in Jobs, Failed(j) PROVE EndedInv'
    <3>1. /\ pc[j] \in BodyPcs /\ pc' = [pc EXCEPT ![j] = "end"] /\ spent' = spent
          /\ Leave(j, "failed")
      BY <2>14 DEF Failed, Goto
    <3>2. /\ \A i \in Jobs \ {j} : row'[i] = row[i]
          /\ row'[j].status = "failed"
      BY <2>14 DEF Failed, Counted
    <3>3. runner[j] \notin {"completed", "failed"}
      BY <3>1
    <3>4. /\ \A i \in Jobs \ {j} : runner'[i] = runner[i]
          /\ runner'[j] \in {runner[j], "failed"}
      BY <2>r, <3>1
    <3>5. row'[j].status = "failed"
      BY <2>14, <3>2 DEF Failed
    <3>6. spent'.loss = 0 => spent.loss = 0
      BY <3>1
    <3> QED
      BY <2>e, <3>1, <3>2, <3>3, <3>4, <3>5, <3>6
  <2>15. ASSUME NEW j \in Jobs, Interrupted(j) PROVE EndedInv'
    <3>1. /\ pc[j] \in BodyPcs /\ pc' = [pc EXCEPT ![j] = "end"] /\ spent' = spent
          /\ Leave(j, "completed")
      BY <2>15 DEF Interrupted, Goto
    <3>2. /\ \A i \in Jobs \ {j} : row'[i] = row[i]
          /\ row'[j].status = "cancelled"
      BY <2>15 DEF Interrupted, Counted
    <3>3. runner[j] \notin {"completed", "failed"}
      BY <3>1
    <3>4. /\ \A i \in Jobs \ {j} : runner'[i] = runner[i]
          /\ runner'[j] \in {runner[j], "completed"}
      BY <2>r, <3>1
    <3>5. Terminal(j)'
      BY <2>15, <3>2 DEF Interrupted
    <3>6. spent'.loss = 0 => spent.loss = 0
      BY <3>1
    <3> QED
      BY <2>e, <3>1, <3>2, <3>3, <3>4, <3>5, <3>6
  <2>16. ASSUME NEW j \in Jobs, Raise(j) PROVE EndedInv'
    BY <2>16 DEF Raise, LeaveTry, Goto, Spend
  <2>17. ASSUME NEW j \in Jobs, Interrupt(j) PROVE EndedInv'
    BY <2>17 DEF Interrupt, LeaveTry, Goto
  <2>18. ASSUME NEW j \in Jobs, Lose(j) PROVE EndedInv'
    <3>1. /\ pc' = [pc EXCEPT ![j] = "end"] /\ row' = row
          /\ spent'.loss # 0
      BY <2>18 DEF Lose, Goto, Spend
    <3>2. \A i \in Jobs \ {j} : runner'[i] = runner[i]
      BY <2>18, <2>r DEF Lose
    <3> QED
      BY <2>e, <3>1, <3>2
  <2>19. ASSUME NEW j \in Jobs, CliKilled(j) PROVE EndedInv'
    BY <2>19 DEF CliKilled, Spend, Goto
  <2>20. ASSUME NEW j \in Jobs, CancelJob(j) PROVE EndedInv'
    BY <2>20 DEF CancelJob, Settle
  <2>21. ASSUME NEW j \in Jobs, MarkJobFailed(j) PROVE EndedInv'
    BY <2>21 DEF MarkJobFailed, Settle
  <2>22. CASE Crash
    BY <2>22 DEF Crash, Die, Spend, Runner!Exit
  <2>23. CASE Stop
    BY <2>23 DEF Stop, Spend
  <2>24. CASE Stopped
    BY <2>24 DEF Stopped, Die, Runner!Exit
  <2>25. CASE Boot
    BY <2>25 DEF Boot
  <2>26. CASE BootUnrecovered
    BY <2>26 DEF BootUnrecovered, Spend
  <2>27. CASE UNCHANGED vars
    BY <2>27 DEF vars
  <2> QED
    BY <2>1, <2>2, <2>3, <2>4, <2>5, <2>6, <2>7, <2>8, <2>9, <2>10, <2>11,
       <2>12, <2>13, <2>14, <2>15, <2>16, <2>17, <2>18, <2>19, <2>20, <2>21,
       <2>22, <2>23, <2>24, <2>25, <2>26, <2>27
       DEF Next, Create, Step, Fault, Admin, Server
<1> QED
  BY <1>1, <1>2, GeocodingTypes, PTL DEF Spec

(* What the runner reports of a coroutine is what its row says, unless a   *)
(* failure was lost.                                                       *)
THEOREM RecordsAgree == Spec => []RunnerAgreesWithRow
<1>1. EndedInv => RunnerAgreesWithRow
  BY DEF EndedInv
<1> QED
  BY <1>1, EndedInduction, PTL

(* Whoever settles a row after its worker's end is the last: a worker, an  *)
(* administrator and a recovery do not overwrite each other's verdict.     *)
THEOREM SettledStays == Spec => SettledIsFinal
<1>1. TypeOK /\ [Next]_vars =>
        [\A j \in Jobs : Terminal(j) /\ pc[j] = "end" => row'[j] = row[j]]_vars
  <2> SUFFICES ASSUME TypeOK, Next, NEW j \in Jobs, Terminal(j), pc[j] = "end"
               PROVE  row'[j] = row[j]
    OBVIOUS
  <2> USE DEF TypeOK, Row, Terminal, TERMINAL_STATUSES, Open, db, tasks, runtime
  <2>1. ASSUME NEW i \in Jobs, Create(i) PROVE row'[j] = row[j]
    BY <2>1 DEF Create, TriggerBatch, CliBatch, Insert
  <2>2. ASSUME NEW i \in Jobs, Step(i) PROVE row'[j] = row[j]
    BY <2>2 DEF Step, SubmitTask, Acquire, Start, Count, NotConfigured, StopAtCheck, PassCheck,
                Batch, EmptyBatch, Checkpoint, Complete, Failed, Interrupted
  <2>3. ASSUME NEW i \in Jobs, Fault(i) PROVE row'[j] = row[j]
    BY <2>3 DEF Fault, Raise, Interrupt, Lose, CliKilled
  <2>4. ASSUME NEW i \in Jobs, Admin(i) PROVE row'[j] = row[j]
    BY <2>4 DEF Admin, CancelJob, MarkJobFailed, Settle
  <2>5. CASE Server
    BY <2>5 DEF Server, Crash, Stop, Stopped, Die, Boot, BootUnrecovered
  <2> QED
    BY <2>1, <2>2, <2>3, <2>4, <2>5 DEF Next
<1> QED
  BY <1>1, GeocodingTypes, PTL DEF Spec, SettledIsFinal
==============================================================================
