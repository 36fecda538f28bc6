------------------------------ MODULE TaskRunner ------------------------------
(***************************************************************************)
(* The in-process background task runner of src/voter_api/core/background. *)
(*                                                                         *)
(* A submitted coroutine is recorded PENDING, waits for one of the permits *)
(* of a per-event-loop asyncio.Semaphore, is RUNNING while it holds the    *)
(* permit and ends COMPLETED or FAILED.  asyncio wakes the waiters of a    *)
(* semaphore in arrival order, so the waiters are a FIFO queue.  Nothing   *)
(* is persisted: when the process ends, every entry is gone.               *)
(***************************************************************************)
EXTENDS Naturals, Sequences, FiniteSets

CONSTANTS Tasks,  \* the coroutines that may be submitted
          Slots   \* permits of the semaphore (2 in the code)

ASSUME SlotsAssumption == Slots \in Nat \ {0}
ASSUME TasksAssumption == IsFiniteSet(Tasks)

VARIABLES jobs,    \* _jobs: the recorded status of each task
          queue,   \* tasks waiting for a permit, oldest first
          permits  \* the semaphore's counter

vars == <<jobs, queue, permits>>

JobStatus == {"none", "pending", "running", "completed", "failed"}

(* The tasks that are inside the semaphore.                                *)
Running == {t \in Tasks : jobs[t] = "running"}

Init == /\ jobs = [t \in Tasks |-> "none"]
        /\ queue = <<>>
        /\ permits = Slots

(* submit_task: record the job and schedule _run, which queues for a permit. *)
Submit(t) == /\ jobs[t] = "none"
             /\ jobs' = [jobs EXCEPT ![t] = "pending"]
             /\ queue' = Append(queue, t)
             /\ UNCHANGED permits

(* Wrong variant: the waiter takes no permit.                              *)
AcquireFree(t) == /\ queue # <<>> /\ t = Head(queue) /\ permits > 0
                  /\ jobs' = [jobs EXCEPT ![t] = "running"]
                  /\ queue' = Tail(queue)
                  /\ UNCHANGED permits

(* `async with self._get_semaphore()` lets the oldest waiter through.      *)
Acquire(t) == /\ queue # <<>>
              /\ t = Head(queue)
              /\ permits > 0
              /\ jobs' = [jobs EXCEPT ![t] = "running"]
              /\ queue' = Tail(queue)
              /\ permits' = permits - 1

(* Wrong variant: a failing coroutine keeps its permit.                    *)
FinishLeaky(t, outcome) ==
  /\ jobs[t] = "running"
  /\ outcome \in {"completed", "failed"}
  /\ jobs' = [jobs EXCEPT ![t] = outcome]
  /\ permits' = IF outcome = "failed" THEN permits ELSE permits + 1
  /\ UNCHANGED queue

(* The coroutine returned, or raised an Exception; the permit is released. *)
Finish(t, outcome) == /\ jobs[t] = "running"
                      /\ outcome \in {"completed", "failed"}
                      /\ jobs' = [jobs EXCEPT ![t] = outcome]
                      /\ permits' = permits + 1
                      /\ UNCHANGED queue

(* The process ends: the registry and every queued or running task are     *)
(* gone; the next process has an empty registry and a full semaphore.      *)
Exit == /\ jobs' = [t \in Tasks |-> "none"]
        /\ queue' = <<>>
        /\ permits' = Slots

Next == \/ \E t \in Tasks : \/ Submit(t)
                            \/ Acquire(t)
                            \/ \E o \in {"completed", "failed"} : Finish(t, o)
        \/ Exit

Spec == Init /\ [][Next]_vars

(* The event loop resumes runnable tasks, and a coroutine ends: every       *)
(* provider call and query it awaits is bounded by a timeout.               *)
Fairness == \A t \in Tasks : /\ WF_vars(Acquire(t))
                              /\ WF_vars(\E o \in {"completed", "failed"} : Finish(t, o))
FairSpec == Spec /\ Fairness

-----------------------------------------------------------------------------
(* Type invariant. *)
TypeOK == /\ jobs \in [Tasks -> JobStatus]
          /\ queue \in Seq(Tasks)
          /\ permits \in Nat

(* A permit is either in the semaphore or with a running coroutine: none is *)
(* lost by a coroutine that raises and none is made up, so never more than  *)
(* Slots coroutines run at a time.                                          *)
PermitsConserved == permits + Cardinality(Running) = Slots

(* The semaphore's waiters are exactly the tasks the registry calls PENDING *)
(* and none waits twice, so no submitted task is forgotten by both.         *)
QueueIsPending ==
  /\ \A t \in Tasks : jobs[t] = "pending" <=> \E i \in 1..Len(queue) : queue[i] = t
  /\ \A i, k \in 1..Len(queue) : queue[i] = queue[k] => i = k

(* A queued task is eventually let through, or the process ends: FIFO order *)
(* makes weak fairness enough, no permit is leaked by a failing coroutine.  *)
NoStarvation == \A t \in Tasks : jobs[t] = "pending" ~> jobs[t] # "pending"
=============================================================================
