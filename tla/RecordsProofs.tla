----------------------------- MODULE RecordsProofs -----------------------------
(***************************************************************************)
(* The safety of the task runner, for any finite set of tasks and any      *)
(* number of permits, and the promises of the components that keep         *)
(* records, for any sets of voters, runs, rows, requests, addresses,       *)
(* commands, districts and elections.  Each part has an invariant of its   *)
(* own, which is inductive as soon as the behaviour is of that part; the   *)
(* other parts rest.                                                       *)
(***************************************************************************)
EXTENDS RecordKeeping, FiniteSetTheorems, SequenceTheorems, TLAPS

-----------------------------------------------------------------------------
(* The task runner.                                                        *)

(* Every action keeps the types.                                            *)
LEMMA RunnerTypeStep == TypeOK /\ [Next]_vars => TypeOK'
<1> SUFFICES ASSUME TypeOK, [Next]_vars PROVE TypeOK'
  OBVIOUS
<1> USE DEF TypeOK, JobStatus
<1>1. ASSUME NEW t \in Tasks, Submit(t) PROVE TypeOK'
  BY <1>1 DEF Submit
<1>2. ASSUME NEW t \in Tasks, Acquire(t) PROVE TypeOK'
  BY <1>2 DEF Acquire
<1>3. ASSUME NEW t \in Tasks, NEW o \in {"completed", "failed"}, Finish(t, o)
      PROVE TypeOK'
  BY <1>3 DEF Finish
<1>4. CASE Exit
  BY <1>4, SlotsAssumption DEF Exit
<1>5. CASE UNCHANGED vars
  BY <1>5 DEF vars
<1> QED
  BY <1>1, <1>2, <1>3, <1>4, <1>5 DEF Next

(* The registry and the waiters keep their types, through every submission, *)
(* wake-up, end of a coroutine and end of the process.                      *)
THEOREM RunnerTypes == Spec => []TypeOK
<1>1. Init => TypeOK
  BY SlotsAssumption DEF Init, TypeOK, JobStatus
<1> QED
  BY <1>1, RunnerTypeStep, PTL DEF Spec

(* The waiters of the semaphore are exactly the tasks recorded PENDING, and *)
(* none waits twice.                                                        *)
THEOREM QueueIsAlwaysPending == Spec => []QueueIsPending
<1>1. Init => QueueIsPending
  BY DEF Init, QueueIsPending
<1>2. TypeOK /\ QueueIsPending /\ [Next]_vars => QueueIsPending'
  <2> SUFFICES ASSUME TypeOK, QueueIsPending, [Next]_vars PROVE QueueIsPending'
    OBVIOUS
  <2> USE DEF TypeOK, QueueIsPending
  <2>1. ASSUME NEW t \in Tasks, Submit(t) PROVE QueueIsPending'
    <3>1. /\ jobs[t] = "none" /\ jobs' = [jobs EXCEPT ![t] = "pending"]
          /\ queue' = Append(queue, t)
      BY <2>1 DEF Submit
    <3>2. /\ Len(queue') = Len(queue) + 1
          /\ queue'[Len(queue) + 1] = t
          /\ \A i \in 1..Len(queue) : queue'[i] = queue[i] /\ queue[i] \in Tasks
      BY <3>1
    <3>3. \A i \in 1..Len(queue) : queue[i] # t
      BY <3>1
    <3>4. Len(queue) \in Nat
      OBVIOUS
    <3>5. ASSUME NEW u \in Tasks
          PROVE  jobs'[u] = "pending" <=> \E i \in 1..Len(queue') : queue'[i] = u
      <4> HIDE DEF TypeOK, QueueIsPending
      <4>1. (\E i \in 1..Len(queue') : queue'[i] = u)
              <=> u = t \/ \E i \in 1..Len(queue) : queue[i] = u
        BY <3>2, <3>4
      <4>2. jobs'[u] = IF u = t THEN "pending" ELSE jobs[u]
        BY <3>1 DEF TypeOK
      <4>3. jobs[u] = "pending" <=> \E i \in 1..Len(queue) : queue[i] = u
        BY DEF QueueIsPending
      <4> QED
        BY <4>1, <4>2, <4>3
    <3>6. ASSUME NEW i \in 1..Len(queue'), NEW k \in 1..Len(queue'), queue'[i] = queue'[k]
          PROVE  i = k
      <4> HIDE DEF TypeOK
      <4> QED
        BY <3>2, <3>3, <3>4, <3>6
    <3> QED
      BY <3>5, <3>6
  <2>2. ASSUME NEW t \in Tasks, Acquire(t) PROVE QueueIsPending'
    <3>1. /\ queue # <<>> /\ t = queue[1] /\ queue' = Tail(queue)
          /\ jobs' = [jobs EXCEPT ![t] = "running"]
      BY <2>2 DEF Acquire
    <3>2. /\ Len(queue') = Len(queue) - 1 /\ Len(queue) \in Nat \ {0}
          /\ \A i \in 1..(Len(queue) - 1) : queue'[i] = queue[i + 1]
      BY <3>1
    <3>3. \A i \in 1..(Len(queue) - 1) : queue'[i] # t
      BY <3>1, <3>2
    <3>4. \A u \in Tasks \ {t} : (\E i \in 1..Len(queue) : queue[i] = u)
                                <=> \E i \in 1..Len(queue') : queue'[i] = u
      <4> SUFFICES ASSUME NEW u \in Tasks \ {t}
                   PROVE  (\E i \in 1..Len(queue) : queue[i] = u)
                            <=> \E i \in 1..Len(queue') : queue'[i] = u
        OBVIOUS
      <4>1. ASSUME NEW i \in 1..Len(queue), queue[i] = u
            PROVE  i - 1 \in 1..Len(queue') /\ queue'[i - 1] = u
        BY <4>1, <3>1, <3>2
      <4>2. ASSUME NEW i \in 1..Len(queue'), queue'[i] = u
            PROVE  i + 1 \in 1..Len(queue) /\ queue[i + 1] = u
        BY <4>2, <3>1, <3>2
      <4> QED
        BY <4>1, <4>2
    <3>5. \A i, k \in 1..Len(queue') : queue'[i] = queue'[k] => i = k
      BY <3>2
    <3> QED
      BY <3>1, <3>2, <3>3, <3>4, <3>5
  <2>3. ASSUME NEW t \in Tasks, NEW o \in {"completed", "failed"}, Finish(t, o)
        PROVE QueueIsPending'
    BY <2>3 DEF Finish
  <2>4. CASE Exit
    BY <2>4 DEF Exit
  <2>5. CASE UNCHANGED vars
    BY <2>5 DEF vars
  <2> QED
    BY <2>1, <2>2, <2>3, <2>4, <2>5 DEF Next
<1> QED
  BY <1>1, <1>2, RunnerTypes, PTL DEF Spec

(* The tasks inside the semaphore are finitely many.                        *)
LEMMA RunningIsFinite ==
  ASSUME TypeOK
  PROVE  IsFiniteSet(Running) /\ Cardinality(Running) \in Nat
<1>1. Running \subseteq Tasks
  BY DEF Running
<1>2. IsFiniteSet(Running)
  BY <1>1, TasksAssumption, FS_Subset
<1> QED
  BY <1>2, FS_CardinalityType

(* Permits are conserved: taken by Acquire, returned by Finish however the  *)
(* coroutine ended, and all back in the semaphore of a new process.         *)
THEOREM PermitsAreConserved == Spec => []PermitsConserved
<1>1. Init => PermitsConserved
  <2> SUFFICES ASSUME Init PROVE PermitsConserved
    OBVIOUS
  <2>1. Running = {} /\ permits = Slots
    BY DEF Init, Running
  <2> QED
    BY <2>1, FS_EmptySet, SlotsAssumption DEF PermitsConserved
<1>2. TypeOK /\ QueueIsPending /\ PermitsConserved /\ [Next]_vars
       => PermitsConserved'
  <2> SUFFICES ASSUME TypeOK, QueueIsPending, PermitsConserved, [Next]_vars
               PROVE  PermitsConserved'
    OBVIOUS
  <2>0. IsFiniteSet(Running) /\ Cardinality(Running) \in Nat /\ permits \in Nat
    BY RunningIsFinite DEF TypeOK
  <2> USE SlotsAssumption DEF PermitsConserved
  <2>s. ASSUME Running' = Running, permits' = permits PROVE PermitsConserved'
    BY <2>s
  <2>1. ASSUME NEW t \in Tasks, Submit(t) PROVE PermitsConserved'
    BY <2>1, <2>s DEF Submit, Running, TypeOK
  <2>2. ASSUME NEW t \in Tasks, Acquire(t) PROVE PermitsConserved'
    <3>1. t \notin Running
      BY <2>2 DEF Acquire, QueueIsPending, Running, TypeOK
    <3>2. Running' = Running \cup {t} /\ permits' = permits - 1
      BY <2>2 DEF Acquire, Running, TypeOK
    <3>3. Cardinality(Running \cup {t}) = Cardinality(Running) + 1
      BY <2>0, <3>1, FS_AddElement
    <3> QED
      BY <2>0, <3>2, <3>3
  <2>3. ASSUME NEW t \in Tasks, NEW o \in {"completed", "failed"}, Finish(t, o)
        PROVE PermitsConserved'
    <3>1. t \in Running
      BY <2>3 DEF Finish, Running
    <3>2. Running' = Running \ {t} /\ permits' = permits + 1
      BY <2>3 DEF Finish, Running, TypeOK
    <3>3. Cardinality(Running \ {t}) = Cardinality(Running) - 1
      BY <2>0, <3>1, FS_RemoveElement
    <3> QED
      BY <2>0, <3>2, <3>3
  <2>4. CASE Exit
    <3>1. Running' = {} /\ permits' = Slots
      BY <2>4 DEF Exit, Running
    <3> QED
      BY <3>1, FS_EmptySet
  <2>5. CASE UNCHANGED vars
    BY <2>5, <2>s DEF vars, Running
  <2> QED
    BY <2>1, <2>2, <2>3, <2>4, <2>5 DEF Next
<1> QED
  BY <1>1, <1>2, RunnerTypes, QueueIsAlwaysPending, PTL DEF Spec

(* Never more than Slots coroutines run at a time.                          *)
THEOREM SlotsAreRespected == Spec => [](Cardinality(Running) <= Slots)
<1>1. TypeOK /\ PermitsConserved => Cardinality(Running) <= Slots
  BY RunningIsFinite, SlotsAssumption DEF TypeOK, PermitsConserved
<1> QED
  BY <1>1, RunnerTypes, PermitsAreConserved, PTL

(* Beside the components that keep records the runner is as it is by       *)
(* itself, so that what is said of Spec above holds of RecordsSpec.        *)
THEOREM RunnerBeside == RecordsSpec => Spec
<1>1. RecordsInit => Init
  BY DEF RecordsInit
<1>2. [RecordsNext]_<<part, vars, kept>> => [Next]_vars
  BY DEF RecordsNext
<1> QED
  BY <1>1, <1>2, PTL DEF RecordsSpec, Spec

-----------------------------------------------------------------------------
(* Analysis runs.                                                          *)

(* A set of natural numbers that is not empty has a least element.         *)
LEMMA LeastExists ==
  ASSUME NEW S \in SUBSET Nat, S # {}
  PROVE  \E x \in S : \A y \in S : x <= y
<1>1. \E x \in S : \A y \in S : ~(<<y, x>> \in OpToRel(<, Nat))
  BY NatLessThanWellFounded, WFMin, Zenon
<1>2. \A x, y \in Nat : <<y, x>> \in OpToRel(<, Nat) <=> y < x
  BY DEF OpToRel
<1>3. \E x \in S : \A y \in S : ~(y < x)
  BY <1>1, <1>2, Zenon
<1> QED
  BY <1>3

(* A finite set of natural numbers that is not empty has a greatest one.   *)
LEMMA MaxIs ==
  ASSUME NEW S \in SUBSET Nat, IsFiniteSet(S), S # {}
  PROVE  Analysis!Max(S) \in S /\ \A y \in S : Analysis!Max(S) >= y
<1> DEFINE above(v) == {w \in S : w > v}
           Ranks    == {Cardinality(above(v)) : v \in S}
<1>1. \A v \in S : IsFiniteSet(above(v)) /\ Cardinality(above(v)) \in Nat
  BY FS_Subset, FS_CardinalityType
<1>2. PICK m \in Ranks : \A n \in Ranks : m <= n
  <2>1. Ranks \in SUBSET Nat /\ Ranks # {}
    BY <1>1
  <2> QED
    BY <2>1, LeastExists
<1>3. PICK x \in S : m = Cardinality(above(x))
  BY <1>2
<1>4. ASSUME NEW y \in S, ~(x >= y)
      PROVE  FALSE
  <2>1. x \in Nat /\ y \in Nat /\ y > x
    BY <1>4
  <2>2. above(y) \in SUBSET above(x) /\ y \in above(x) /\ y \notin above(y)
    <3>1. ASSUME NEW w \in S, w > y
          PROVE  w > x
      BY <2>1, <3>1
    <3>2. ~(y > y)
      BY <2>1
    <3> QED
      BY <2>1, <3>1, <3>2, Zenon
  <2>3. Cardinality(above(y)) <= Cardinality(above(x))
        /\ Cardinality(above(y)) # Cardinality(above(x))
    BY <1>1, <2>2, FS_Subset, Zenon
  <2>4. m <= Cardinality(above(y))
    BY <1>2
  <2> HIDE DEF above
  <2> QED
    BY <1>1, <1>3, <2>3, <2>4
<1> QED
  BY <1>3, <1>4 DEF Analysis!Max

AnyVerdict == Analysis!Verdicts \cup {Analysis!None}

(* The instance has its own names for what these are.                      *)
LEMMA CountedVoters == \A S : /\ Analysis!Cardinality(S) = Cardinality(S)
                              /\ Analysis!IsFiniteSet(S) = IsFiniteSet(S)
  BY DEF Analysis!Cardinality, Cardinality, Analysis!IsFiniteSet, IsFiniteSet

(* Facts about the counts of a run.                                        *)
LEMMA TallyType ==
  ASSUME Analysis!RunsAssumption, NEW f
  PROVE  Analysis!Tally(f) \in [Analysis!Verdicts -> Nat]
<1>1. ASSUME NEW s \in Analysis!Verdicts
      PROVE  Cardinality({v \in Voters : f[v] = s}) \in Nat
  BY FS_Subset, FS_CardinalityType, CountedVoters DEF Analysis!RunsAssumption
<1> QED
  BY <1>1, CountedVoters DEF Analysis!Tally

(* Rows of different voters add up.                                        *)
LEMMA TallyOfBoth ==
  ASSUME Analysis!RunsAssumption,
         NEW f \in [Voters -> AnyVerdict], NEW g \in [Voters -> AnyVerdict],
         \A v \in Voters : g[v] # Analysis!None => f[v] = Analysis!None
  PROVE  Analysis!Tally([v \in Voters |-> IF f[v] = Analysis!None THEN g[v] ELSE f[v]])
           = Analysis!Added(Analysis!Tally(f), Analysis!Tally(g))
<1> DEFINE h == [v \in Voters |-> IF f[v] = Analysis!None THEN g[v] ELSE f[v]]
           of(x, s) == {v \in Voters : x[v] = s}
<1>1. ASSUME NEW s \in Analysis!Verdicts
      PROVE  Cardinality(of(h, s)) = Cardinality(of(f, s)) + Cardinality(of(g, s))
  <2>1. s # Analysis!None
    BY DEF Analysis!Verdicts, Analysis!None
  <2>2. of(h, s) = of(f, s) \cup of(g, s) /\ of(f, s) \cap of(g, s) = {}
    BY <2>1
  <2>3. IsFiniteSet(of(f, s)) /\ IsFiniteSet(of(g, s))
    BY FS_Subset, CountedVoters DEF Analysis!RunsAssumption
  <2>4. Cardinality(of(f, s)) \in Nat /\ Cardinality(of(g, s)) \in Nat
    BY <2>3, FS_CardinalityType
  <2> HIDE DEF of, h
  <2>5. Cardinality(of(h, s)) = Cardinality(of(f, s)) + Cardinality(of(g, s)) - Cardinality({})
    BY <2>2, <2>3, FS_Union
  <2> QED
    BY <2>4, <2>5, FS_EmptySet
<1>2. Analysis!Tally(h) = [s \in Analysis!Verdicts |-> Cardinality(of(h, s))]
      /\ Analysis!Tally(f) = [s \in Analysis!Verdicts |-> Cardinality(of(f, s))]
      /\ Analysis!Tally(g) = [s \in Analysis!Verdicts |-> Cardinality(of(g, s))]
  BY CountedVoters DEF Analysis!Tally
<1> HIDE DEF of, h
<1>3. Analysis!Tally(h) = Analysis!Added(Analysis!Tally(f), Analysis!Tally(g))
  BY <1>1, <1>2 DEF Analysis!Added
<1> QED
  BY <1>3 DEF h

(* The greatest voter a run has a row for, and what a page begins with.    *)
LEMMA LastRow ==
  ASSUME Analysis!RunsAssumption, NEW f, Analysis!Having(f) # {}
  PROVE  /\ Analysis!Max(Analysis!Having(f)) \in Analysis!Having(f)
         /\ Analysis!Max(Analysis!Having(f)) \in Voters
         /\ \A v \in Analysis!Having(f) : Analysis!Max(Analysis!Having(f)) >= v
<1>1. /\ Analysis!Having(f) \in SUBSET Voters /\ Analysis!Having(f) \in SUBSET Nat
      /\ IsFiniteSet(Analysis!Having(f))
  BY FS_Subset, CountedVoters DEF Analysis!RunsAssumption, Analysis!Having
<1> QED
  BY <1>1, MaxIs

(* The next page has every eligible voter up to its last one, and is empty *)
(* only when none is left.                                                 *)
LEMMA PageIs ==
  ASSUME Analysis!RunsAssumption, Analysis!TypeOK, NEW r \in Runs
  PROVE  /\ Analysis!NextPage(r) \subseteq {v \in Analysis!Eligible : v > cursor[r]}
         /\ \A v \in Analysis!Eligible, w \in Analysis!NextPage(r) :
              v > cursor[r] /\ v <= w => v \in Analysis!NextPage(r)
         /\ Analysis!NextPage(r) = {} => \A v \in Analysis!Eligible : ~(v > cursor[r])
<1> DEFINE rest      == {v \in Analysis!Eligible : v > cursor[r]}
           before(v) == {w \in rest : w < v}
<1>1. Analysis!NextPage(r) = {v \in rest : Cardinality(before(v)) < BatchSize}
  BY CountedVoters DEF Analysis!NextPage
<1>2. rest \in SUBSET Voters /\ rest \in SUBSET Nat /\ IsFiniteSet(rest)
  BY FS_Subset, CountedVoters DEF Analysis!Eligible, Analysis!Having, Analysis!RunsAssumption
<1>3. rest = {v \in Analysis!Eligible : v > cursor[r]}
  OBVIOUS
<1> HIDE DEF rest
<1>4. \A v : IsFiniteSet(before(v)) /\ Cardinality(before(v)) \in Nat
  BY <1>2, FS_Subset, FS_CardinalityType
<1>5. ASSUME NEW v \in rest, NEW w \in Analysis!NextPage(r), v <= w
      PROVE  v \in Analysis!NextPage(r)
  <2>1. w \in rest /\ v \in Nat /\ w \in Nat
    BY <1>1, <1>2
  <2>2. before(v) \in SUBSET before(w)
    <3>1. ASSUME NEW x \in rest, x < v
          PROVE  x < w
      BY <1>2, <1>5, <2>1, <3>1
    <3> QED
      BY <3>1, Zenon
  <2>3. Cardinality(before(v)) <= Cardinality(before(w))
    BY <1>4, <2>2, FS_Subset, Zenon
  <2>4. Cardinality(before(w)) < BatchSize
    BY <1>1
  <2> HIDE DEF before
  <2>5. Cardinality(before(v)) < BatchSize
    BY <1>4, <2>3, <2>4 DEF Analysis!RunsAssumption
  <2> QED
    BY <1>1, <2>5
<1>6. ASSUME NEW v \in rest
      PROVE  Analysis!NextPage(r) # {}
  <2>1. PICK x \in rest : \A y \in rest : x <= y
    BY <1>2, <1>6, LeastExists
  <2>2. before(x) = {}
    <3>1. \A y \in rest : ~(y < x)
      BY <1>2, <2>1
    <3> QED
      BY <3>1, Zenon
  <2>3. Cardinality(before(x)) = 0 /\ 0 < BatchSize
    BY <2>2, FS_EmptySet DEF Analysis!RunsAssumption
  <2> QED
    BY <1>1, <2>1, <2>3
<1> QED
  BY <1>1, <1>3, <1>5, <1>6

(* With the types: a page that is being written has a voter.               *)
RunTypes == Analysis!TypeOK /\ \A r \in Runs : pc[r] = "flushing" => Analysis!Having(page[r]) # {}

(* Counting up one of the bounds keeps their type.                         *)
LEMMA SpentType ==
  ASSUME NEW s \in [changes : Nat, faults : Nat, crashes : Nat]
  PROVE  /\ [s EXCEPT !.changes = @ + 1] \in [changes : Nat, faults : Nat, crashes : Nat]
         /\ [s EXCEPT !.faults = @ + 1]  \in [changes : Nat, faults : Nat, crashes : Nat]
         /\ [s EXCEPT !.crashes = @ + 1] \in [changes : Nat, faults : Nat, crashes : Nat]
<1>1. s.changes + 1 \in Nat /\ s.faults + 1 \in Nat /\ s.crashes + 1 \in Nat
  OBVIOUS
<1> QED
  BY <1>1

(* The types hold at the start and over every step.                        *)
LEMMA RunTypesInit == Analysis!RunsAssumption /\ Analysis!Init => RunTypes
  BY DEF Analysis!Init, RunTypes, Analysis!TypeOK, Analysis!NoVerdicts, Analysis!NoTally,
         Analysis!Verdicts, Analysis!None

(* Each action keeps the types.                                            *)
LEMMA RunTypesNext == Analysis!RunsAssumption /\ RunTypes /\ [Analysis!Next]_runs => RunTypes'
<1> SUFFICES ASSUME Analysis!RunsAssumption, RunTypes, [Analysis!Next]_runs
             PROVE  RunTypes'
  OBVIOUS
<1> USE DEF RunTypes, Analysis!TypeOK, Analysis!Goto
<1>1. ASSUME NEW v \in Voters, NEW x \in Analysis!Verdicts \cup {Analysis!None},
             Analysis!Change(v, x)
      PROVE  RunTypes'
  <2>1. spent' \in [changes : Nat, faults : Nat, crashes : Nat]
    BY SpentType, <1>1 DEF Analysis!Change
  <2>2. verdict' \in [Voters -> Analysis!Verdicts \cup {Analysis!None}]
        /\ steady' \in [Runs -> SUBSET Voters]
    BY <1>1 DEF Analysis!Change
  <2> QED
    BY <1>1, <2>1, <2>2 DEF Analysis!Change, Analysis!table, Analysis!locals, Analysis!Having
<1>2. ASSUME NEW r \in Runs, Analysis!Trigger(r)
      PROVE  RunTypes'
  BY <1>2 DEF Analysis!Trigger, Analysis!Having
<1>3. ASSUME NEW r \in Runs, Analysis!Resume(r)
      PROVE  RunTypes'
  BY <1>3 DEF Analysis!Resume, Analysis!table, Analysis!Having
<1>4. ASSUME NEW r \in Runs, Analysis!Begin(r)
      PROVE  RunTypes'
  <2>1. cursor'[r] \in Voters \cup {0}
    BY <1>4, LastRow DEF Analysis!Begin
  <2>2. tally'[r] \in [Analysis!Verdicts -> Nat]
    BY <1>4, TallyType DEF Analysis!Begin
  <2>3. steady'[r] \in SUBSET Voters
    BY <1>4 DEF Analysis!Begin, Analysis!Eligible, Analysis!Having
  <2> QED
    BY <1>4, <2>1, <2>2, <2>3 DEF Analysis!Begin, Analysis!Having
<1>5. ASSUME NEW r \in Runs, Analysis!Fetch(r)
      PROVE  RunTypes'
  <2>1. page'[r] \in [Voters -> Analysis!Verdicts \cup {Analysis!None}]
    BY <1>5 DEF Analysis!Fetch
  <2>2. Analysis!Having(page'[r]) # {}
    <3>1. Analysis!NextPage(r) \subseteq Analysis!Eligible
      BY PageIs
    <3> QED
      BY <1>5, <3>1 DEF Analysis!Fetch, Analysis!Eligible, Analysis!Having
  <2>3. page' \in [Runs -> [Voters -> Analysis!Verdicts \cup {Analysis!None}]]
        /\ \A q \in Runs \ {r} : page'[q] = page[q] /\ pc'[q] = pc[q]
    BY <1>5, <2>1 DEF Analysis!Fetch
  <2>4. \A q \in Runs : pc'[q] = "flushing" => Analysis!Having(page'[q]) # {}
    BY <2>2, <2>3 DEF Analysis!Having
  <2> QED
    BY <1>5, <2>3, <2>4 DEF Analysis!Fetch, Analysis!table
<1>6. ASSUME NEW r \in Runs, Analysis!Flush(r)
      PROVE  RunTypes'
  <2>1. cursor'[r] \in Voters
    BY <1>6, LastRow DEF Analysis!Flush
  <2>2. tally'[r] \in [Analysis!Verdicts -> Nat]
    <3>1. Analysis!Tally(page[r]) \in [Analysis!Verdicts -> Nat]
      BY TallyType
    <3> QED
      BY <1>6, <3>1 DEF Analysis!Flush, Analysis!Added
  <2>3. results'[r] \in [Voters -> Analysis!Verdicts \cup {Analysis!None}]
    BY <1>6 DEF Analysis!Flush
  <2> QED
    BY <1>6, <2>1, <2>2, <2>3 DEF Analysis!Flush, Analysis!NoVerdicts, Analysis!Having
<1>7. ASSUME NEW r \in Runs, Analysis!Complete(r)
      PROVE  RunTypes'
  BY <1>7 DEF Analysis!Complete, Analysis!Having
<1>8. ASSUME NEW r \in Runs, Analysis!Raise(r)
      PROVE  RunTypes'
  <2>1. row'[r] \in [Analysis!Verdicts -> Nat]
    <3>1. PICK those \in SUBSET Analysis!Having(page[r]) :
            row' = [row EXCEPT ![r] =
                      Analysis!Added(tally[r],
                        Analysis!Tally([v \in Voters |-> IF v \in those THEN page[r][v]
                                                          ELSE Analysis!None]))]
      BY <1>8 DEF Analysis!Raise
    <3> DEFINE some == [v \in Voters |-> IF v \in those THEN page[r][v] ELSE Analysis!None]
    <3>2. Analysis!Tally(some) \in [Analysis!Verdicts -> Nat]
      BY TallyType
    <3>3. row'[r] = Analysis!Added(tally[r], Analysis!Tally(some))
      BY <3>1
    <3> HIDE DEF some
    <3> QED
      BY <3>2, <3>3 DEF Analysis!Added
  <2>2. row' \in [Runs -> [Analysis!Verdicts -> Nat]]
    BY <1>8, <2>1 DEF Analysis!Raise
  <2>3. spent' \in [changes : Nat, faults : Nat, crashes : Nat]
    BY SpentType, <1>8 DEF Analysis!Raise
  <2>4. page' \in [Runs -> [Voters -> Analysis!Verdicts \cup {Analysis!None}]]
        /\ status' \in [Runs -> {Analysis!None, "pending", "running", "completed", "failed"}]
        /\ pc' \in [Runs -> {"none", "created", "paging", "flushing"}]
    BY <1>8 DEF Analysis!Raise, Analysis!NoVerdicts
  <2>5. \A q \in Runs : pc'[q] = "flushing" => Analysis!Having(page'[q]) # {}
    BY <1>8 DEF Analysis!Raise, Analysis!Having
  <2> QED
    BY <1>8, <2>2, <2>3, <2>4, <2>5 DEF Analysis!Raise
<1>9. CASE Analysis!Restart
  <2>1. spent' \in [changes : Nat, faults : Nat, crashes : Nat]
    BY SpentType, <1>9 DEF Analysis!Restart
  <2>2. page' \in [Runs -> [Voters -> Analysis!Verdicts \cup {Analysis!None}]]
        /\ status' \in [Runs -> {Analysis!None, "pending", "running", "completed", "failed"}]
        /\ pc' \in [Runs -> {"none", "created", "paging", "flushing"}]
    BY <1>9 DEF Analysis!Restart, Analysis!NoVerdicts
  <2>3. \A q \in Runs : pc'[q] = "flushing" => Analysis!Having(page'[q]) # {}
    BY <1>9 DEF Analysis!Restart, Analysis!Having
  <2> QED
    BY <1>9, <2>1, <2>2, <2>3 DEF Analysis!Restart
<1>10. CASE UNCHANGED runs
  BY <1>10 DEF runs, Analysis!table, Analysis!locals, Analysis!Having
<1> QED
  BY <1>1, <1>2, <1>3, <1>4, <1>5, <1>6, <1>7, <1>8, <1>9, <1>10
     DEF Analysis!Next, Analysis!Process

-----------------------------------------------------------------------------
(* What makes the runs' promises inductive, for each run.                  *)
Top(f) == IF Analysis!Having(f) = {} THEN 0 ELSE Analysis!Max(Analysis!Having(f))

(* A voter eligible throughout is done with once a later one is.           *)
Closed(r) == /\ steady[r] \subseteq Analysis!Eligible
             /\ \A v \in steady[r], w \in Analysis!Having(results[r]) :
                  v <= w => results[r][v] # Analysis!None

(* The coroutine stands at its last row and has counted its rows.          *)
AtCursor(r) == pc[r] \in {"paging", "flushing"} =>
                 cursor[r] = Top(results[r]) /\ tally[r] = Analysis!Tally(results[r])

(* The page comes behind the cursor and leaves out none of those voters.   *)
PageNext(r) == pc[r] = "flushing" =>
                 /\ \A v \in Analysis!Having(page[r]) : v > cursor[r]
                 /\ \A v \in steady[r], w \in Analysis!Having(page[r]) :
                      v > cursor[r] /\ v <= w => page[r][v] # Analysis!None

(* A completed run is over and has done what it promises.                  *)
Over(r) == status[r] = "completed" =>
             /\ pc[r] = "none" /\ row[r] = Analysis!Tally(results[r])
             /\ \A v \in steady[r] : results[r][v] # Analysis!None

SoundRun(r) == Closed(r) /\ AtCursor(r) /\ PageNext(r) /\ Over(r)
RunInv   == (\A r \in Runs : SoundRun(r)) /\ Analysis!FlagsHaveRun

(* Init satisfies the invariant.                                           *)
LEMMA RunInit == Analysis!RunsAssumption /\ Analysis!Init => RunInv
<1> SUFFICES ASSUME Analysis!RunsAssumption, Analysis!Init
             PROVE  RunInv
  OBVIOUS
<1>1. ASSUME NEW r \in Runs
      PROVE  SoundRun(r)
  BY DEF Analysis!Init, SoundRun, Closed, AtCursor, PageNext, Over, Analysis!None
<1>2. Analysis!FlagsHaveRun
  BY DEF Analysis!Init, Analysis!FlagsHaveRun, Analysis!NoVerdicts
<1> QED
  BY <1>1, <1>2 DEF RunInv

(* A run nothing happens to but that voters stop being eligible is sound.  *)
LEMMA Untouched ==
  ASSUME RunTypes, NEW q \in Runs, SoundRun(q),
         steady'[q] \subseteq steady[q], steady'[q] \subseteq Analysis!Eligible',
         status'[q] = status[q], results'[q] = results[q], row'[q] = row[q],
         pc'[q] = pc[q], cursor'[q] = cursor[q], page'[q] = page[q], tally'[q] = tally[q]
  PROVE  SoundRun(q)'
<1>1. Closed(q)'
  BY DEF SoundRun, Closed
<1>2. AtCursor(q)'
  BY DEF SoundRun, AtCursor
<1>3. PageNext(q)'
  BY DEF SoundRun, PageNext
<1>4. Over(q)'
  BY DEF SoundRun, Over
<1> QED
  BY <1>1, <1>2, <1>3, <1>4 DEF SoundRun

(* The page of a flush comes behind the rows that are there, so that they  *)
(* are still its last ones.                                                *)
LEMMA FlushIs ==
  ASSUME Analysis!RunsAssumption, RunTypes, NEW r \in Runs, SoundRun(r), Analysis!Flush(r)
  PROVE  /\ \A v \in Voters : page[r][v] # Analysis!None => results[r][v] = Analysis!None
         /\ Analysis!Having(results'[r]) = Analysis!Having(results[r]) \cup Analysis!Having(page[r])
         /\ cursor'[r] = Top(results'[r])
<1> USE DEF RunTypes, Analysis!TypeOK
<1>1. pc[r] = "flushing" /\ Analysis!Having(page[r]) # {} /\ cursor[r] = Top(results[r])
      /\ \A v \in Analysis!Having(page[r]) : v > cursor[r]
  BY DEF Analysis!Flush, SoundRun, AtCursor, PageNext
<1>2. \A v \in Voters : v \in Nat
  BY DEF Analysis!RunsAssumption
<1>3. ASSUME NEW v \in Analysis!Having(page[r]), NEW w \in Analysis!Having(results[r])
      PROVE  v > w
  <2>1. /\ cursor[r] = Analysis!Max(Analysis!Having(results[r]))
        /\ Analysis!Max(Analysis!Having(results[r])) >= w
        /\ Analysis!Max(Analysis!Having(results[r])) \in Voters
    BY <1>1, <1>3, LastRow DEF Top
  <2>2. v > cursor[r] /\ v \in Voters /\ w \in Voters
    BY <1>1 DEF Analysis!Having
  <2> QED
    BY <1>2, <2>1, <2>2
<1>4. \A v \in Voters : page[r][v] # Analysis!None => results[r][v] = Analysis!None
  <2> SUFFICES ASSUME NEW v \in Voters, page[r][v] # Analysis!None, results[r][v] # Analysis!None
               PROVE  FALSE
    OBVIOUS
  <2>1. v > v
    BY <1>3 DEF Analysis!Having
  <2> QED
    BY <1>2, <2>1
<1>5. results'[r] = [v \in Voters |-> IF results[r][v] = Analysis!None THEN page[r][v]
                                      ELSE results[r][v]]
      /\ cursor'[r] = Analysis!Max(Analysis!Having(page[r]))
  BY DEF Analysis!Flush
<1>6. Analysis!Having(results'[r]) = Analysis!Having(results[r]) \cup Analysis!Having(page[r])
  BY <1>5 DEF Analysis!Having
<1>7. cursor'[r] = Top(results'[r])
  <2> DEFINE m == Analysis!Max(Analysis!Having(page[r]))
             n == Analysis!Max(Analysis!Having(results'[r]))
  <2>1. m \in Analysis!Having(page[r]) /\ m \in Voters /\ \A v \in Analysis!Having(page[r]) : m >= v
    BY <1>1, LastRow
  <2>2. Analysis!Having(results'[r]) # {}
    BY <1>6, <2>1
  <2>3. /\ n \in Analysis!Having(results'[r]) /\ n \in Voters
        /\ \A v \in Analysis!Having(results'[r]) : n >= v
    BY <2>2, LastRow
  <2> HIDE DEF m, n
  <2>4. n >= m
    BY <1>6, <2>1, <2>3
  <2>5. m >= n
    BY <1>2, <1>3, <1>6, <2>1, <2>3
  <2>6. m = n
    <3>1. m \in Nat /\ n \in Nat
      BY <1>2, <2>1, <2>3
    <3> QED
      BY <2>4, <2>5, <3>1
  <2> QED
    BY <1>5, <2>2, <2>6 DEF Top, m, n
<1> QED
  BY <1>4, <1>6, <1>7

(* Each action keeps every run sound.                                      *)
LEMMA SoundRunNext ==
  ASSUME Analysis!RunsAssumption, RunTypes, RunTypes', \A r \in Runs : SoundRun(r),
         [Analysis!Next]_runs
  PROVE  \A r \in Runs : SoundRun(r)'
<1> USE DEF RunTypes, Analysis!TypeOK, Analysis!Goto
<1>a. \A r \in Runs : steady[r] \subseteq Analysis!Eligible
  BY DEF SoundRun, Closed
<1>n. /\ \A v \in Voters : v \in Nat /\ v > 0
      /\ \A r \in Runs : cursor[r] \in Nat
  <2>1. \A v \in Voters : v \in Nat /\ v > 0
    BY DEF Analysis!RunsAssumption
  <2> QED
    BY <2>1
<1>1. ASSUME NEW v \in Voters, NEW x \in Analysis!Verdicts \cup {Analysis!None},
             Analysis!Change(v, x)
      PROVE  \A r \in Runs : SoundRun(r)'
  <2>1. \A r \in Runs : steady'[r] \subseteq steady[r] /\ steady'[r] \subseteq Analysis!Eligible'
    BY <1>1, <1>a DEF Analysis!Change, Analysis!Eligible, Analysis!Having
  <2> QED
    BY <1>1, <2>1, Untouched DEF Analysis!Change, Analysis!table, Analysis!locals
<1>b. ASSUME NEW r \in Runs, \A q \in Runs \ {r} :
               /\ steady'[q] = steady[q] /\ status'[q] = status[q] /\ results'[q] = results[q]
               /\ row'[q] = row[q] /\ pc'[q] = pc[q] /\ cursor'[q] = cursor[q]
               /\ page'[q] = page[q] /\ tally'[q] = tally[q],
             verdict' = verdict, SoundRun(r)'
      PROVE  \A q \in Runs : SoundRun(q)'
  <2>1. Analysis!Eligible' = Analysis!Eligible
    BY <1>b DEF Analysis!Eligible, Analysis!Having
  <2> QED
    BY <1>a, <1>b, <2>1, Untouched
<1>2. ASSUME NEW r \in Runs, Analysis!Trigger(r)
      PROVE  \A q \in Runs : SoundRun(q)'
  <2>1. SoundRun(r)'
    BY <1>2 DEF Analysis!Trigger, SoundRun, Closed, AtCursor, PageNext, Over, Analysis!Eligible,
                Analysis!Having
  <2> QED
    BY <1>2, <1>b, <2>1 DEF Analysis!Trigger
<1>3. ASSUME NEW r \in Runs, Analysis!Resume(r)
      PROVE  \A q \in Runs : SoundRun(q)'
  <2>1. SoundRun(r)'
    BY <1>3 DEF Analysis!Resume, Analysis!table, SoundRun, Closed, AtCursor, PageNext, Over,
                Analysis!Eligible, Analysis!Having
  <2> QED
    BY <1>3, <1>b, <2>1 DEF Analysis!Resume, Analysis!table
<1>4. ASSUME NEW r \in Runs, Analysis!Begin(r)
      PROVE  \A q \in Runs : SoundRun(q)'
  <2>1. Closed(r)'
    BY <1>4 DEF Analysis!Begin, SoundRun, Closed, Analysis!Eligible, Analysis!Having
  <2>2. AtCursor(r)'
    BY <1>4 DEF Analysis!Begin, AtCursor, Top
  <2>3. PageNext(r)' /\ Over(r)'
    BY <1>4 DEF Analysis!Begin, PageNext, Over
  <2> QED
    BY <1>4, <1>b, <2>1, <2>2, <2>3 DEF Analysis!Begin, SoundRun
<1>5. ASSUME NEW r \in Runs, Analysis!Fetch(r)
      PROVE  \A q \in Runs : SoundRun(q)'
  <2>1. Closed(r)' /\ AtCursor(r)' /\ Over(r)'
    BY <1>5 DEF Analysis!Fetch, Analysis!table, SoundRun, Closed, AtCursor, Over,
                Analysis!Eligible, Analysis!Having
  <2>2. PageNext(r)'
    <3>1. Analysis!Having(page'[r]) \subseteq Analysis!NextPage(r)
      BY <1>5 DEF Analysis!Fetch, Analysis!Having
    <3>2. ASSUME NEW v \in Analysis!NextPage(r)
          PROVE  page'[r][v] # Analysis!None
      <4>1. v \in Analysis!Eligible
        BY PageIs
      <4> QED
        BY <1>5, <4>1 DEF Analysis!Fetch, Analysis!Eligible, Analysis!Having
    <3>3. \A v \in Analysis!Having(page'[r]) : v > cursor[r]
      BY <3>1, PageIs
    <3>4. \A v \in steady[r], w \in Analysis!Having(page'[r]) :
            v > cursor[r] /\ v <= w => page'[r][v] # Analysis!None
      BY <1>a, <3>1, <3>2, PageIs
    <3> QED
      BY <1>5, <3>3, <3>4 DEF Analysis!Fetch, PageNext
  <2> QED
    BY <1>5, <1>b, <2>1, <2>2 DEF Analysis!Fetch, Analysis!table, SoundRun
<1>6. ASSUME NEW r \in Runs, Analysis!Flush(r)
      PROVE  \A q \in Runs : SoundRun(q)'
  <2>r. SoundRun(r)
    OBVIOUS
  <2>1. /\ results'[r] = [v \in Voters |-> IF results[r][v] = Analysis!None THEN page[r][v]
                                           ELSE results[r][v]]
        /\ tally'[r] = Analysis!Added(tally[r], Analysis!Tally(page[r]))
        /\ pc[r] = "flushing" /\ pc'[r] = "paging"
        /\ steady' = steady /\ verdict' = verdict /\ status' = status
    BY <1>6 DEF Analysis!Flush
  <2>2. tally'[r] = Analysis!Tally(results'[r])
    <3>1. results[r] \in [Voters -> AnyVerdict] /\ page[r] \in [Voters -> AnyVerdict]
      BY DEF AnyVerdict
    <3>2. \A v \in Voters : page[r][v] # Analysis!None => results[r][v] = Analysis!None
      BY <1>6, <2>r, FlushIs
    <3>3. tally[r] = Analysis!Tally(results[r])
      BY <2>r, <2>1 DEF SoundRun, AtCursor
    <3>4. Analysis!Tally([v \in Voters |-> IF results[r][v] = Analysis!None THEN page[r][v]
                                           ELSE results[r][v]])
          = Analysis!Added(Analysis!Tally(results[r]), Analysis!Tally(page[r]))
      BY <3>1, <3>2, TallyOfBoth, Zenon
    <3> QED
      BY <2>1, <3>3, <3>4
  <2>3. AtCursor(r)'
    BY <1>6, <2>r, <2>2, FlushIs DEF AtCursor, Top, Analysis!Having
  <2>4. ASSUME NEW v \in steady[r], NEW w \in Analysis!Having(results'[r]), v <= w
        PROVE  results'[r][v] # Analysis!None
    <3>1. v \in Voters /\ v \in Nat /\ v > 0
      BY DEF Analysis!RunsAssumption
    <3>2. CASE w \in Analysis!Having(results[r])
      BY <2>r, <2>1, <2>4, <3>1, <3>2 DEF SoundRun, Closed
    <3>3. CASE w \in Analysis!Having(page[r]) /\ v > cursor[r]
      BY <2>r, <2>1, <2>4, <3>1, <3>3 DEF SoundRun, PageNext
    <3>4. CASE ~(v > cursor[r])
      <4>1. cursor[r] \in Nat /\ v <= cursor[r]
        BY <1>n, <3>1, <3>4
      <4>2. /\ Analysis!Having(results[r]) # {}
            /\ cursor[r] = Analysis!Max(Analysis!Having(results[r]))
        BY <2>r, <2>1, <3>1, <4>1 DEF SoundRun, AtCursor, Top
      <4>3. cursor[r] \in Analysis!Having(results[r])
        BY <4>2, LastRow
      <4>4. results[r][v] # Analysis!None
        BY <2>r, <4>1, <4>3 DEF SoundRun, Closed
      <4> QED
        BY <2>1, <3>1, <4>4
    <3> QED
      BY <1>6, <2>r, <3>2, <3>3, <3>4, FlushIs
  <2>5. Closed(r)'
    BY <1>a, <2>1, <2>4 DEF Closed, Analysis!Eligible, Analysis!Having
  <2>6. PageNext(r)' /\ Over(r)'
    BY <2>r, <2>1 DEF PageNext, Over, SoundRun
  <2> QED
    BY <1>6, <1>b, <2>3, <2>5, <2>6 DEF Analysis!Flush, SoundRun
<1>7. ASSUME NEW r \in Runs, Analysis!Complete(r)
      PROVE  \A q \in Runs : SoundRun(q)'
  <2>1. SoundRun(r) /\ pc[r] = "paging" /\ Analysis!NextPage(r) = {} /\ pc'[r] = "none"
        /\ row'[r] = tally[r] /\ results' = results /\ steady' = steady
    BY <1>7 DEF Analysis!Complete
  <2>2. Closed(r)' /\ AtCursor(r)' /\ PageNext(r)'
    BY <1>7, <2>1 DEF Analysis!Complete, SoundRun, Closed, AtCursor, PageNext, Analysis!Eligible,
                      Analysis!Having
  <2>3. ASSUME NEW v \in steady[r]
        PROVE  results[r][v] # Analysis!None
    <3>1. v \in Voters /\ v \in Nat /\ v > 0 /\ cursor[r] \in Nat
      BY <1>n
    <3>2. v <= cursor[r]
      <4>1. ~(v > cursor[r])
        BY <1>a, <2>1, PageIs
      <4> QED
        BY <3>1, <4>1
    <3>3. Analysis!Having(results[r]) # {} /\ cursor[r] = Analysis!Max(Analysis!Having(results[r]))
      BY <2>1, <3>1, <3>2 DEF SoundRun, AtCursor, Top
    <3>4. cursor[r] \in Analysis!Having(results[r])
      BY <3>3, LastRow
    <3> QED
      BY <2>1, <3>2, <3>4 DEF SoundRun, Closed
  <2>4. Over(r)'
    BY <2>1, <2>3 DEF Over, SoundRun, AtCursor
  <2> QED
    BY <1>7, <1>b, <2>2, <2>4 DEF Analysis!Complete, SoundRun
<1>8. ASSUME NEW r \in Runs, Analysis!Raise(r)
      PROVE  \A q \in Runs : SoundRun(q)'
  <2>1. /\ \A q \in Runs \ {r} : /\ row'[q] = row[q] /\ status'[q] = status[q]
                                 /\ page'[q] = page[q] /\ pc'[q] = pc[q]
        /\ status'[r] = "failed" /\ pc'[r] = "none"
        /\ UNCHANGED <<verdict, flag, results, cursor, tally, steady>>
    BY <1>8 DEF Analysis!Raise
  <2>2. SoundRun(r)'
    BY <2>1 DEF SoundRun, Closed, AtCursor, PageNext, Over, Analysis!Eligible, Analysis!Having
  <2> QED
    BY <1>b, <2>1, <2>2
<1>9. CASE Analysis!Restart
  <2> SUFFICES ASSUME NEW r \in Runs
               PROVE  SoundRun(r)'
    OBVIOUS
  <2>1. /\ (pc'[r] = pc[r] /\ page'[r] = page[r]) \/ pc'[r] = "none"
        /\ status'[r] = "completed" => status[r] = "completed"
        /\ UNCHANGED <<verdict, flag, results, row, cursor, tally, steady>>
    BY <1>9 DEF Analysis!Restart
  <2> QED
    BY <2>1 DEF SoundRun, Closed, AtCursor, PageNext, Over, Analysis!Eligible, Analysis!Having
<1>10. CASE UNCHANGED runs
  BY <1>10, <1>a, Untouched DEF runs, Analysis!table, Analysis!locals, Analysis!Eligible,
                                Analysis!Having
<1> QED
  BY <1>1, <1>2, <1>3, <1>4, <1>5, <1>6, <1>7, <1>8, <1>9, <1>10
     DEF Analysis!Next, Analysis!Process

(* A flag has its completed run: completed runs get no more rows.          *)
LEMMA FlagsNext ==
  ASSUME Analysis!RunsAssumption, RunTypes, RunInv, [Analysis!Next]_runs
  PROVE  Analysis!FlagsHaveRun'
<1> USE DEF RunTypes, Analysis!TypeOK, Analysis!Goto
<1>1. ASSUME NEW r \in Runs, status[r] = "completed"
      PROVE  status'[r] = "completed" /\ results'[r] = results[r]
  <2>1. pc[r] = "none"
    BY <1>1 DEF RunInv, SoundRun, Over
  <2>2. ASSUME NEW q \in Runs, \/ Analysis!Trigger(q) \/ Analysis!Resume(q)
                               \/ Analysis!Process(q) \/ Analysis!Raise(q)
        PROVE  q # r \/ UNCHANGED <<status, results>>
    BY <1>1, <2>1, <2>2 DEF Analysis!Trigger, Analysis!Resume, Analysis!Process, Analysis!Begin,
                            Analysis!Fetch, Analysis!Flush, Analysis!Complete, Analysis!Raise,
                            Analysis!None,
                            Analysis!table
  <2>3. ASSUME NEW q \in Runs \ {r}, \/ Analysis!Trigger(q) \/ Analysis!Resume(q)
                                     \/ Analysis!Process(q) \/ Analysis!Raise(q)
        PROVE  status'[r] = status[r] /\ results'[r] = results[r]
    <3>1. CASE Analysis!Trigger(q) \/ Analysis!Resume(q)
      BY <3>1 DEF Analysis!Trigger, Analysis!Resume, Analysis!table
    <3>2. CASE Analysis!Process(q)
      BY <3>2 DEF Analysis!Process, Analysis!Begin, Analysis!Fetch, Analysis!Flush,
                  Analysis!Complete, Analysis!table
    <3>3. CASE Analysis!Raise(q)
      BY <3>3 DEF Analysis!Raise
    <3> QED
      BY <2>3, <3>1, <3>2, <3>3
  <2>4. \/ \E v \in Voters, x \in Analysis!Verdicts \cup {Analysis!None} : Analysis!Change(v, x)
        \/ Analysis!Restart \/ UNCHANGED runs
        => status'[r] = status[r] /\ results'[r] = results[r]
    BY <1>1 DEF Analysis!Change, Analysis!Restart, runs, Analysis!table
  <2> QED
    BY <1>1, <2>2, <2>3, <2>4 DEF Analysis!Next
<1>2. ASSUME NEW r \in Runs, Analysis!Complete(r)
      PROVE  Analysis!FlagsHaveRun'
  <2>1. ASSUME NEW v \in Voters, flag'[v] # Analysis!None
        PROVE  \E q \in Runs : status'[q] = "completed" /\ results'[q][v] = flag'[v]
    <3>1. CASE results[r][v] = Analysis!None
      <4>1. flag'[v] = flag[v]
        BY <1>2, <2>1, <3>1 DEF Analysis!Complete
      <4>2. PICK q \in Runs : status[q] = "completed" /\ results[q][v] = flag[v]
        BY <2>1, <4>1 DEF RunInv, Analysis!FlagsHaveRun
      <4> QED
        BY <1>1, <4>1, <4>2
    <3>2. CASE results[r][v] # Analysis!None
      <4>1. flag'[v] = results[r][v]
        BY <1>2, <2>1, <3>2 DEF Analysis!Complete
      <4> QED
        BY <1>2, <4>1 DEF Analysis!Complete
    <3> QED
      BY <3>1, <3>2
  <2> QED
    BY <2>1 DEF Analysis!FlagsHaveRun
<1>3. CASE flag' = flag
  <2>1. ASSUME NEW v \in Voters, flag[v] # Analysis!None
        PROVE  \E q \in Runs : status'[q] = "completed" /\ results'[q][v] = flag[v]
    <3>1. PICK q \in Runs : status[q] = "completed" /\ results[q][v] = flag[v]
      BY <2>1 DEF RunInv, Analysis!FlagsHaveRun
    <3> QED
      BY <1>1, <3>1
  <2> QED
    BY <1>3, <2>1 DEF Analysis!FlagsHaveRun
<1>4. (\E r \in Runs : Analysis!Complete(r)) \/ flag' = flag
  BY DEF Analysis!Next, Analysis!Change, Analysis!Trigger, Analysis!Resume, Analysis!Process,
         Analysis!Begin, Analysis!Fetch, Analysis!Flush, Analysis!Raise, Analysis!Restart,
         runs, Analysis!table, Analysis!locals
<1> QED
  BY <1>2, <1>3, <1>4

LEMMA RunsStay ==
  ASSUME RunTypes, RunInv, [Analysis!Next]_runs
  PROVE  RunTypes' /\ RunInv'
<1>1. RunTypes'
  BY RecordsAssumption, RunTypesNext
<1>2. \A r \in Runs : SoundRun(r)'
  BY <1>1, RecordsAssumption, SoundRunNext DEF RunInv
<1>3. Analysis!FlagsHaveRun'
  BY RecordsAssumption, FlagsNext
<1> QED
  BY <1>1, <1>2, <1>3 DEF RunInv

LEMMA RunsInvariant == RecordsSpec => [](part = "analysis" => RunTypes /\ RunInv)
<1> DEFINE Inv == part = "analysis" => RunTypes /\ RunInv
<1>1. RecordsInit => Inv
  BY RecordsAssumption, RunTypesInit, RunInit DEF RecordsInit
<1>2. Inv /\ [RecordsNext]_<<part, vars, kept>> => Inv'
  <2> SUFFICES ASSUME Inv, [RecordsNext]_<<part, vars, kept>>, part' = "analysis" PROVE Inv'
    OBVIOUS
  <2>1. part = "analysis" /\ (Analysis!Next \/ UNCHANGED runs)
    BY DEF RecordsNext, kept
  <2> QED
    BY <2>1, RunsStay
<1> QED
  BY <1>1, <1>2, PTL DEF RecordsSpec

(* Type correctness of the runs of the server and of command lines.        *)
THEOREM RunsTyped == RecordsSpec => [](part = "analysis" => Analysis!TypeOK)
<1>1. (part = "analysis" => RunTypes /\ RunInv) => (part = "analysis" => Analysis!TypeOK)
  BY DEF RunTypes
<1> QED
  BY <1>1, RunsInvariant, PTL

(* A completed run skipped nobody who was eligible throughout, counts its  *)
(* rows, and only completed runs flag voters (analysis_service).           *)
THEOREM RunsAlwaysHold == RecordsSpec => []RunsHold
<1>1. RunTypes /\ RunInv => Analysis!RunsHold
  BY DEF Analysis!RunsHold, Analysis!NobodySkipped, Analysis!CountsAddUp, RunInv, SoundRun, Over
<1>2. (part = "analysis" => RunTypes /\ RunInv) => RunsHold
  BY <1>1 DEF RunsHold
<1> QED
  BY <1>2, RunsInvariant, PTL

-----------------------------------------------------------------------------
(* District checks.                                                        *)

(* The answers are those for the inputs, which nothing changes.            *)
ChecksInv ==
  /\ boundaries \in SUBSET (Checks!Districts \cup Checks!Precincts) /\ IsFiniteSet(boundaries)
  /\ point \in located
  /\ compared # Nil
       => compared = Checks!CompareBoundaries(Checks!FindBoundariesForPoint(point))
  /\ checked # Nil => checked = Checks!CheckBatchBoundaries

Written == [number : Numbers \cup Labels, width : Widths \cup Homes \cup {0}]

(* The instance has its own name for what Cardinality is.                  *)
LEMMA CountedBoundaries == \A S : Checks!Cardinality(S) = Cardinality(S)
  BY DEF Checks!Cardinality, Cardinality

LEMMA BoundaryFields ==
  ASSUME ChecksInv, NEW b \in boundaries
  PROVE  /\ [number |-> b.number, width |-> b.width] \in Written
         /\ ~Checks!Before(b, b)
<1>1. /\ b.number \in Nat /\ b.width \in Nat /\ b.type \in {"district", "precinct"}
      /\ [number |-> b.number, width |-> b.width] \in Written
  BY RecordsAssumption DEF ChecksInv, Checks!ChecksAssumption, Checks!Districts,
                           Checks!Precincts, Checks!Bare, Written
<1>2. CASE b.type = "district"
  BY <1>1, <1>2 DEF Checks!Before
<1>3. CASE b.type # "district"
  BY <1>1, <1>3 DEF Checks!Before, Checks!Bare
<1> QED
  BY <1>1, <1>2, <1>3

(* Where boundaries do not overlap, the one around a point is the one that *)
(* is found for it.                                                        *)
LEMMA OnlyOneAround ==
  ASSUME ChecksInv, Checks!Partition, NEW p \in Points, NEW t \in Checks!Types,
         NEW b \in Checks!Around(p, t)
  PROVE  Checks!FindBoundariesForPoint(p)[t] = [number |-> b.number, width |-> b.width]
<1> DEFINE A == Checks!Around(p, t)
<1>1. IsFiniteSet(A) /\ Cardinality(A) <= 1
  <2>1. A \subseteq boundaries
    BY DEF Checks!Around
  <2>2. IsFiniteSet(A)
    BY <2>1, FS_Subset DEF ChecksInv
  <2> QED
    BY <2>2, CountedBoundaries DEF Checks!Partition
<1>2. ASSUME NEW c \in A PROVE c = b
  <2>1. IsFiniteSet({b, c}) /\ Cardinality({b, c}) <= Cardinality(A)
    BY <1>1, FS_Subset
  <2>2. SUFFICES ASSUME c # b PROVE FALSE
    OBVIOUS
  <2>3. Cardinality({b, c}) = 2
    <3>1. IsFiniteSet({b}) /\ Cardinality({b}) = 1
      BY FS_Singleton
    <3>2. Cardinality({b} \cup {c}) = 2
      <4>1. Cardinality({b} \cup {c}) = Cardinality({b}) + 1
        BY <2>2, <3>1, FS_AddElement, c \notin {b}
      <4> QED
        BY <3>1, <4>1
    <3>3. {b, c} = {b} \cup {c}
      OBVIOUS
    <3> QED
      BY <3>2, <3>3
  <2> QED
    BY <1>1, <2>1, <2>3, FS_CardinalityType
<1>3. A = {b}
  BY <1>2
<1>4. ~Checks!Before(b, b)
  BY BoundaryFields DEF Checks!Around
<1>5. (CHOOSE c \in A : ~\E d \in A : Checks!Before(d, c)) = b
  BY <1>3, <1>4
<1> QED
  BY <1>3, <1>5 DEF Checks!FindBoundariesForPoint

LEMMA AnswersFollow ==
  ASSUME ChecksInv, located \subseteq Points
  PROVE  Checks!AnswersAgree
<1> DEFINE found == Checks!FindBoundariesForPoint(point)
           Of(t) == {c \in checked[t] : c.point = point}
<1>1. SUFFICES ASSUME compared # Nil, checked # Nil, Checks!Partition
               PROVE  /\ \A t \in Checks!Registered : \A c \in Of(t) :
                           IF c.inside THEN t \notin compared.mismatches
                           ELSE c.determined = compared.determined[t]
                      /\ Checks!Registered # {}
                           /\ (\A t \in Checks!Registered : \E c \in Of(t) : c.inside)
                         => Checks!MatchStatus(compared) = "match"
  BY DEF Checks!AnswersAgree
<1>2. /\ compared.determined = found
      /\ compared.mismatches =
           {t \in Checks!Registered : /\ found[t] # Nil
                                      /\ ~Checks!SameIdentifier(t, found[t], registered[t])}
  BY <1>1 DEF ChecksInv, Checks!CompareBoundaries
<1>3. point \in Points
  BY DEF ChecksInv
<1>4. ASSUME NEW t \in Checks!Registered, NEW c \in Of(t)
      PROVE  \E b \in Checks!Lookup(t) :
               /\ c.inside = (point \in b.inside)
               /\ c.determined = IF point \in b.inside THEN Nil ELSE found[t]
  <2>1. checked[t] = {[point |-> p, inside |-> p \in b.inside,
                       determined |-> IF p \in b.inside THEN Nil
                                      ELSE Checks!FindBoundariesForPoint(p)[t]] :
                        p \in located, b \in Checks!Lookup(t)}
    BY <1>1 DEF ChecksInv, Checks!CheckBatchBoundaries
  <2>2. PICK p \in located, b \in Checks!Lookup(t) :
          c = [point |-> p, inside |-> p \in b.inside,
               determined |-> IF p \in b.inside THEN Nil
                              ELSE Checks!FindBoundariesForPoint(p)[t]]
    BY <2>1
  <2>3. p = point
    BY <2>2
  <2> QED
    BY <2>2, <2>3
<1>5. ASSUME NEW t \in Checks!Registered, NEW c \in Of(t), c.inside
      PROVE  found[t] \in Written /\ found[t].number = registered[t].number
  <2>1. PICK b \in Checks!Lookup(t) : point \in b.inside
    BY <1>4, <1>5
  <2>2. b \in boundaries /\ b.type = t /\ b.number = registered[t].number
    BY <2>1 DEF Checks!Lookup, Checks!Candidates
  <2>3. b \in Checks!Around(point, t) /\ t \in Checks!Types
    BY <2>1, <2>2 DEF Checks!Around, Checks!Registered
  <2>4. found[t] = [number |-> b.number, width |-> b.width]
    BY <2>3, <1>1, <1>3, OnlyOneAround
  <2> QED
    BY <2>2, <2>4, BoundaryFields
<1>6. Nil \notin Written
  BY RecordsAssumption DEF Checks!ChecksAssumption, Checks!Bare, Written
<1>7. ASSUME NEW t \in Checks!Registered, NEW c \in Of(t), c.inside
      PROVE  found[t] # Nil /\ t \notin compared.mismatches
  BY <1>2, <1>5, <1>6, <1>7 DEF Checks!SameIdentifier
<1>8. ASSUME NEW t \in Checks!Registered, NEW c \in Of(t), ~c.inside
      PROVE  c.determined = compared.determined[t]
  BY <1>2, <1>4, <1>8
<1>9. ASSUME Checks!Registered # {}, \A t \in Checks!Registered : \E c \in Of(t) : c.inside
      PROVE  Checks!MatchStatus(compared) = "match"
  <2>1. compared.mismatches = {}
    BY <1>2, <1>7, <1>9
  <2>2. \E t \in Checks!Types : compared.determined[t] # Nil
    BY <1>2, <1>7, <1>9 DEF Checks!Registered
  <2> QED
    BY <2>1, <2>2 DEF Checks!MatchStatus
<1> QED
  BY <1>7, <1>8, <1>9

LEMMA ChecksStart == Checks!Init => ChecksInv /\ located \subseteq Points
<1> SUFFICES ASSUME Checks!Init PROVE ChecksInv /\ located \subseteq Points
  OBVIOUS
<1>1. PICK b, c \in Checks!Districts \cup Checks!Precincts : boundaries = {b, c}
  BY DEF Checks!Init
<1>2. IsFiniteSet({b, c})
  <2>1. IsFiniteSet({b}) /\ IsFiniteSet({c}) /\ {b, c} = {b} \cup {c}
    BY FS_Singleton
  <2> QED
    BY <2>1, FS_Union
<1>3. boundaries \in SUBSET (Checks!Districts \cup Checks!Precincts) /\ IsFiniteSet(boundaries)
  BY <1>1, <1>2
<1> QED
  BY <1>3 DEF Checks!Init, ChecksInv

LEMMA ChecksStep ==
  ASSUME ChecksInv, located \subseteq Points, Checks!Next
  PROVE  (ChecksInv /\ located \subseteq Points)'
<1>1. UNCHANGED <<boundaries, registered, home, located, point>>
  BY DEF Checks!Next, Checks!Compare, Checks!Check, Checks!inputs
<1>2. /\ compared' = compared
           \/ compared' = Checks!CompareBoundaries(Checks!FindBoundariesForPoint(point))
      /\ checked' = checked \/ checked' = Checks!CheckBatchBoundaries
  BY DEF Checks!Next, Checks!Compare, Checks!Check
<1>3. /\ Checks!CompareBoundaries(Checks!FindBoundariesForPoint(point))'
           = Checks!CompareBoundaries(Checks!FindBoundariesForPoint(point))
      /\ Checks!CheckBatchBoundaries' = Checks!CheckBatchBoundaries
  BY <1>1 DEF Checks!CompareBoundaries, Checks!FindBoundariesForPoint, Checks!Around,
              Checks!Registered, Checks!CheckBatchBoundaries, Checks!Lookup, Checks!Candidates
<1> QED
  BY <1>1, <1>2, <1>3 DEF ChecksInv

LEMMA ChecksStay == ChecksInv /\ UNCHANGED answers => ChecksInv'
<1> SUFFICES ASSUME ChecksInv, UNCHANGED answers PROVE ChecksInv'
  OBVIOUS
<1>1. /\ Checks!CompareBoundaries(Checks!FindBoundariesForPoint(point))'
           = Checks!CompareBoundaries(Checks!FindBoundariesForPoint(point))
      /\ Checks!CheckBatchBoundaries' = Checks!CheckBatchBoundaries
  BY DEF answers, Checks!CompareBoundaries, Checks!FindBoundariesForPoint, Checks!Around,
         Checks!Registered, Checks!CheckBatchBoundaries, Checks!Lookup, Checks!Candidates
<1> QED
  BY <1>1 DEF ChecksInv, answers

(* For any boundaries and any registration: where boundaries of a type do  *)
(* not overlap, the comparator (analyzer/comparator) and the batch check   *)
(* (analyzer/batch_check) never contradict each other.                     *)
THEOREM AnswersAlwaysAgree == RecordsSpec => []AnswersAgree
<1> DEFINE Inv == part = "checks" => ChecksInv /\ located \subseteq Points
<1>1. RecordsInit => Inv
  BY ChecksStart DEF RecordsInit
<1>2. Inv /\ [RecordsNext]_<<part, vars, kept>> => Inv'
  <2> SUFFICES ASSUME Inv, [RecordsNext]_<<part, vars, kept>>, part' = "checks" PROVE Inv'
    OBVIOUS
  <2>1. part = "checks" /\ (Checks!Next \/ UNCHANGED answers)
    BY DEF RecordsNext, kept
  <2>2. CASE Checks!Next
    BY <2>1, <2>2, ChecksStep
  <2>3. CASE UNCHANGED answers
    <3>1. UNCHANGED located
      BY <2>3 DEF answers
    <3>2. ChecksInv'
      BY <2>1, <2>3, ChecksStay
    <3> QED
      BY <2>1, <3>1, <3>2
  <2> QED
    BY <2>1, <2>2, <2>3
<1>3. Inv => AnswersAgree
  BY AnswersFollow DEF AnswersAgree
<1> QED
  BY <1>1, <1>2, <1>3, PTL DEF RecordsSpec

-----------------------------------------------------------------------------
(* Meetings.  Each kind of row has parents of the kind above it.           *)
Above(n, p) ==
  /\ n \in Bodies => p = Nil
  /\ n \in Meetings => p \in Bodies
  /\ n \in Items => p \in Meetings
  /\ n \in Agenda!Media => p \in Meetings \cup Items

Exists(n) == entry[n].state # "none"

(* The state is of the right shape.                                        *)
AgendaTyped ==
  /\ entry \in [Agenda!Rows -> [state : {"none", "active", "deleted"},
                                parent : Agenda!Rows \cup {Nil}]]
  /\ approval \in [Meetings -> [status : {"none", "pending", "approved", "rejected"},
                                by : Admins \cup {Nil}, reason : BOOLEAN,
                                submitter : Agenda!Editors \cup {Nil},
                                editor : Agenda!Editors \cup {Nil}]]
  /\ DOMAIN order = Items /\ order = [i \in Items |-> order[i]]
  /\ DOMAIN req = Requests /\ req = [r \in Requests |-> req[r]]

(* The rows form a tree, of which no branch is taken away.                 *)
Rooted ==
  \A n \in Agenda!Rows : Exists(n) =>
    /\ Above(n, entry[n].parent)
    /\ entry[n].parent # Nil => Exists(entry[n].parent)

(* What a request has read still holds of what it will write.              *)
Creating(q) ==
  Agenda!Creates(q) =>
    /\ q = [op |-> q.op, child |-> q.child, parent |-> q.parent, user |-> q.user,
            order |-> q.order]
    /\ q.child \in Agenda!Rows /\ ~Exists(q.child)
    /\ Above(q.child, q.parent)
    /\ q.parent # Nil =>
         Exists(q.parent) /\ (Agenda!Active(q.parent) \/ q.child \in raced)
    /\ q.child \in Meetings => q.user \in Agenda!Editors
    /\ q.op = "create" /\ q.child \in Attachments => q.child \in files
    /\ q.op = "upload" => q.child \in Attachments

Deciding(q) ==
  /\ q.op = "edit" =>
       /\ q.meeting \in Meetings /\ q.user \in Agenda!Editors /\ Exists(q.meeting)
       /\ q.user \in Admins \/ q.user = approval[q.meeting].submitter
  /\ q.op \in {"approve", "reject"} => q.meeting \in Meetings /\ q.user \in Admins

Reordering(q) ==
  q.op = "reorder" =>
    /\ \A i \in q.changed : i \in Items /\ Exists(i) /\ entry[i].parent = q.meeting
    /\ \A j \in DOMAIN q.wanted :
         /\ q.wanted[j] \in Items /\ q.target[q.wanted[j]] \in Int
         /\ q.wanted[j] \notin q.changed => q.target[q.wanted[j]] = q.read[q.wanted[j]]
    /\ \A j, k \in DOMAIN q.wanted :
         j < k => q.target[q.wanted[j]] < q.target[q.wanted[k]]

Deleting(q) ==
  q.op = "delete" =>
    /\ q.target \in Agenda!Rows /\ Exists(q.target)
    /\ q.target \in Bodies => q.kids = {}
    /\ \A k \in q.kids : k \in Agenda!Rows /\ Exists(k) /\ entry[k].parent = q.target
    /\ \A n \in Agenda!Rows : Agenda!Active(n) /\ entry[n].parent = q.target
                                => n \in q.kids \cup raced

(* No two requests create one row; one that a deletion crosses is raced.   *)
Apart(q, s) == Agenda!Creates(q) /\ Agenda!Creates(s) => q.child # s.child
Crossed(q, d) ==
  Agenda!Creates(q) /\ d.op = "delete" /\ d.target \in {q.parent} \cup Agenda!Parent(q.parent)
    => q.child \in raced

InAgenda ==
  \A r \in Requests :
    /\ Creating(req[r]) /\ Deciding(req[r]) /\ Reordering(req[r]) /\ Deleting(req[r])
    /\ \A s \in Requests : (r # s => Apart(req[r], req[s])) /\ Crossed(req[r], req[s])

AgendaHolds == AgendaTyped /\ Rooted /\ InAgenda /\ Agenda!RecordsHold

(* The kinds of rows, in the words of the modules above.                   *)
LEMMA Kinds ==
  /\ Nil \notin Agenda!Rows
  /\ Bodies \cap (Meetings \cup Items \cup Agenda!Media) = {}
  /\ Meetings \cap (Items \cup Agenda!Media) = {}
  /\ Items \cap Agenda!Media = {}
  /\ Agenda!Rows = Bodies \cup Meetings \cup Items \cup Agenda!Media
  /\ Agenda!Media = Attachments \cup Embeds /\ Attachments \cap Embeds = {}
  /\ Items \subseteq Int /\ IsFiniteSet(Items)
<1>1. Agenda!IsFiniteSet(Items) = IsFiniteSet(Items)
  BY DEF Agenda!IsFiniteSet, IsFiniteSet
<1>. QED
  BY <1>1, RecordsAssumption
     DEF RecordsAssumption, Agenda!MeetingsAssumption, Agenda!Rows, Agenda!Media

(* What a search finds has its meeting, in every state.                    *)
LEMMA Searched == Agenda!SearchIsClean /\ Agenda!SearchIsClean'
BY Kinds DEF Agenda!SearchIsClean, Agenda!Found, Agenda!Visible, Agenda!Active

(* At the start there is nothing.                                          *)
LEMMA AgendaBegins ==
  ASSUME Agenda!Init
  PROVE  AgendaHolds
<1>. USE DEF Agenda!Init
<1>1. AgendaTyped
  BY Kinds DEF AgendaTyped, Agenda!NoMeeting
<1>2. Rooted
  BY DEF Rooted, Exists
<1>3. InAgenda
  BY DEF InAgenda, Agenda!Idle, Agenda!Creates, Creating, Deciding, Reordering, Deleting, Apart,
         Crossed
<1>4. Agenda!RecordsHold
  <2>1. Agenda!NoStrays
    BY DEF Agenda!NoStrays, Agenda!Active
  <2>2. Agenda!RowsHaveFiles
    BY Kinds DEF Agenda!RowsHaveFiles
  <2>3. Agenda!ApprovalHolds
    BY DEF Agenda!ApprovalHolds, Agenda!NoMeeting
  <2>4. Agenda!PlacesDiffer
    BY Kinds DEF Agenda!PlacesDiffer, Agenda!Active
  <2>. QED  BY <2>1, <2>2, <2>3, <2>4, Searched DEF Agenda!RecordsHold
<1>. QED  BY <1>1, <1>2, <1>3, <1>4 DEF AgendaHolds

(* A request that only reads leaves what it was given to write.            *)
LEMMA AgendaReads ==
  ASSUME NEW r \in Requests, NEW q, AgendaHolds, Agenda!Read(r, q),
         Creating(q), Deciding(q), Reordering(q), Deleting(q),
         \A s \in Requests : Apart(q, req[s])
  PROVE  AgendaHolds'
<1>0. /\ entry' = entry /\ approval' = approval /\ order' = order /\ files' = files
      /\ DOMAIN req' = Requests /\ req' = [s \in Requests |-> req'[s]]
      /\ req'[r] = q /\ \A s \in Requests \ {r} : req'[s] = req[s]
      /\ \A n \in raced : n \in raced'
  BY DEF Agenda!Read, AgendaHolds, AgendaTyped
<1>1. \A s, t \in Requests : Crossed(req[s], req[t])' /\ (s # t => Apart(req[s], req[t])')
  <2>. SUFFICES ASSUME NEW s \in Requests, NEW t \in Requests
                PROVE  Crossed(req[s], req[t])' /\ (s # t => Apart(req[s], req[t])')
    OBVIOUS
  <2>1. {req'[s], req'[t]} \subseteq {req[x] : x \in Requests} \cup {q}
    BY <1>0
  <2>2. Crossed(req[s], req[t])'
    <3>. SUFFICES ASSUME NEW c \in {req[x] : x \in Requests} \cup {q}, Agenda!Creates(c),
                         NEW d \in {req[x] : x \in Requests} \cup {q}, d.op = "delete",
                         d.target \in {c.parent} \cup Agenda!Parent(c.parent)
                  PROVE  c.child \in raced'
      BY <1>0, <2>1 DEF Crossed, Agenda!Parent, Agenda!Creates
    <3>. QED  BY DEF Agenda!Read, Agenda!Races
  <2>3. ASSUME s # t PROVE Apart(req[s], req[t])'
    BY <1>0, <2>3 DEF Apart, AgendaHolds, InAgenda
  <2>. QED  BY <2>2, <2>3
<1>2. \A s \in Requests : /\ Creating(req[s])' /\ Deciding(req[s])'
                          /\ Reordering(req[s])' /\ Deleting(req[s])'
  <2>. SUFFICES ASSUME NEW s \in Requests
                PROVE  /\ Creating(req[s])' /\ Deciding(req[s])'
                       /\ Reordering(req[s])' /\ Deleting(req[s])'
    OBVIOUS
  <2>. DEFINE x == IF s = r THEN q ELSE req[s]
  <2>1. Creating(x) /\ Deciding(x) /\ Reordering(x) /\ Deleting(x) /\ req'[s] = x
    BY <1>0 DEF AgendaHolds, InAgenda
  <2>. HIDE DEF x
  <2>2. Creating(req[s])'
    BY <2>1, <1>0 DEF Creating, Exists, Agenda!Active, Agenda!Creates
  <2>3. Deciding(req[s])'
    BY <2>1, <1>0 DEF Deciding, Exists
  <2>4. Reordering(req[s])'
    BY <2>1, <1>0 DEF Reordering, Exists
  <2>5. Deleting(req[s])'
    BY <2>1, <1>0 DEF Deleting, Exists, Agenda!Active
  <2>. QED  BY <2>2, <2>3, <2>4, <2>5
<1>3. InAgenda'
  BY <1>1, <1>2 DEF InAgenda
<1>4. AgendaTyped' /\ Rooted'
  BY <1>0 DEF AgendaHolds, AgendaTyped, Rooted, Exists
<1>5. Agenda!RecordsHold'
  BY <1>0, Searched DEF AgendaHolds, Agenda!RecordsHold, Agenda!NoStrays, Agenda!Active,
     Agenda!RowsHaveFiles, Agenda!ApprovalHolds, Agenda!PlacesDiffer
<1>. QED  BY <1>3, <1>4, <1>5 DEF AgendaHolds

(* A row that nobody has begun may be created under one that is there.     *)
LEMMA RowBegins ==
  ASSUME NEW r \in Requests, NEW c \in Agenda!Rows, NEW p, NEW u, NEW o,
         NEW op \in {"create", "upload"}, AgendaHolds,
         Agenda!Unborn(c), Above(c, p), p # Nil => Agenda!Active(p),
         c \in Meetings => u \in Agenda!Editors, op = "upload" <=> c \in Attachments,
         Agenda!Read(r, [op |-> op, child |-> c, parent |-> p, user |-> u, order |-> o])
  PROVE  AgendaHolds'
<1>. DEFINE q == [op |-> op, child |-> c, parent |-> p, user |-> u, order |-> o]
<1>1. Creating(q)
  BY DEF Creating, Exists, Agenda!Active, Agenda!Unborn, Agenda!Begun
<1>2. Deciding(q) /\ Reordering(q) /\ Deleting(q)
  BY DEF Deciding, Reordering, Deleting
<1>3. \A s \in Requests : Apart(q, req[s])
  BY DEF Apart, Agenda!Unborn, Agenda!Begun
<1>. QED  BY <1>1, <1>2, <1>3, AgendaReads

(* A deletion of an active row reads all its children, or it has none.     *)
LEMMA DeletionBegins ==
  ASSUME NEW r \in Requests, NEW n \in Agenda!Rows, AgendaHolds, Agenda!Active(n),
         NEW kids, kids = Agenda!Children(n), n \in Bodies => kids = {},
         Agenda!Read(r, [op |-> "delete", target |-> n, kids |-> kids])
  PROVE  AgendaHolds'
<1>. DEFINE q == [op |-> "delete", target |-> n, kids |-> kids]
<1>1. Creating(q) /\ Deciding(q) /\ Reordering(q) /\ \A s \in Requests : Apart(q, req[s])
  BY DEF Creating, Deciding, Reordering, Apart, Agenda!Creates
<1>2. Deleting(q)
  <2>1. \A k \in kids : k \in Agenda!Rows /\ Exists(k) /\ entry[k].parent = n
    BY DEF Agenda!Children, Exists
  <2>2. ASSUME NEW k \in Agenda!Rows, Agenda!Active(k), entry[k].parent = n
        PROVE  k \in kids
    <3>1. entry[k] = [state |-> "active", parent |-> n]
      BY <2>2 DEF AgendaHolds, AgendaTyped, Agenda!Active
    <3>. QED  BY <3>1 DEF Agenda!Children
  <2>. QED  BY <2>1, <2>2 DEF Deleting, Exists, Agenda!Active
<1>. QED  BY <1>1, <1>2, AgendaReads

(* A reordering that is asked for names every item, at growing places.     *)
LEMMA ReorderBegins ==
  ASSUME NEW r \in Requests, NEW m \in Meetings, AgendaHolds,
         NEW wanted \in Agenda!SetToAllKPermutations(Agenda!Children(m) \cap Items),
         Agenda!ReorderItems(r, m, wanted)
  PROVE  AgendaHolds'
<1>1. PICK n \in Nat : DOMAIN wanted = 1..n
  <2>1. PICK S \in SUBSET (Agenda!Children(m) \cap Items) : wanted \in Agenda!SetToSeqs(S)
    BY DEF Agenda!SetToAllKPermutations
  <2>2. Agenda!Cardinality(S) = Cardinality(S)
    BY DEF Agenda!Cardinality, Cardinality
  <2>3. IsFiniteSet(S)
    BY Kinds, FS_Subset
  <2>4. Cardinality(S) \in Nat
    BY <2>3, FS_CardinalityType
  <2>5. DOMAIN wanted = 1..Cardinality(S)
    BY <2>1, <2>2 DEF Agenda!SetToSeqs
  <2>. QED  BY <2>4, <2>5
<1>. DEFINE target == [i \in Items |->
              IF i \in Agenda!ToSet(wanted)
                THEN Agenda!Gap * (CHOOSE k \in DOMAIN wanted : wanted[k] = i)
                ELSE order[i]]
            changed == {i \in Agenda!ToSet(wanted) : order[i] # target[i]}
            q == [op |-> "reorder", meeting |-> m, wanted |-> wanted, target |-> target,
                  changed |-> changed, read |-> order]
<1>2. /\ \A i, k \in DOMAIN wanted : wanted[i] = wanted[k] => i = k
      /\ Agenda!ToSet(wanted) = Agenda!Children(m) \cap Items
      /\ Agenda!ToSet(wanted) = {wanted[k] : k \in DOMAIN wanted}
      /\ Agenda!Read(r, q)
  BY Zenon DEF Agenda!ReorderItems, Agenda!ToSet
<1>3. \A k \in DOMAIN wanted : wanted[k] \in Items /\ target[wanted[k]] = 10 * k
  <2>. SUFFICES ASSUME NEW k \in DOMAIN wanted
                PROVE  wanted[k] \in Items /\ target[wanted[k]] = 10 * k
    OBVIOUS
  <2>1. wanted[k] \in Agenda!ToSet(wanted) /\ wanted[k] \in Items
    BY <1>2
  <2>2. (CHOOSE l \in DOMAIN wanted : wanted[l] = wanted[k]) = k
    BY <1>2
  <2>. QED  BY <2>1, <2>2 DEF Agenda!Gap
<1>4. Reordering(q)
  <2>1. \A i \in changed : i \in Items /\ Exists(i) /\ entry[i].parent = m
    BY <1>2 DEF Agenda!Children, Exists
  <2>. HIDE DEF target
  <2>2. \A k \in DOMAIN wanted :
          wanted[k] \notin changed => target[wanted[k]] = order[wanted[k]]
    BY <1>2
  <2>. HIDE DEF changed
  <2>3. \A k \in DOMAIN wanted : k \in Nat /\ target[wanted[k]] \in Int
    BY <1>1, <1>3
  <2>4. \A i, k \in DOMAIN wanted : i < k => target[wanted[i]] < target[wanted[k]]
    BY <2>3, <1>3
  <2>. QED  BY <1>3, <2>1, <2>2, <2>3, <2>4 DEF Reordering
<1>5. Creating(q) /\ Deciding(q) /\ Deleting(q) /\ \A s \in Requests : Apart(q, req[s])
  BY DEF Creating, Deciding, Deleting, Apart, Agenda!Creates
<1>. HIDE DEF q
<1>. QED  BY <1>2, <1>4, <1>5, AgendaReads

(* Whatever the routers let somebody begin keeps the invariant.            *)
LEMMA BodiesBegin ==
  ASSUME NEW r \in Requests, NEW u \in Agenda!Editors, AgendaHolds, Agenda!BodiesRouter(r, u)
  PROVE  AgendaHolds'
<1>1. ASSUME NEW b \in Bodies, Agenda!CreateBody(r, b)
      PROVE  AgendaHolds'
  BY <1>1, Kinds, RowBegins DEF Agenda!CreateBody, Agenda!NewRow, Above
<1>2. ASSUME NEW b \in Bodies, Agenda!DeleteBody(r, b)
      PROVE  AgendaHolds'
  BY <1>2, Kinds, DeletionBegins DEF Agenda!DeleteBody
<1>. QED  BY <1>1, <1>2 DEF Agenda!BodiesRouter

LEMMA MeetingsBegin ==
  ASSUME NEW r \in Requests, NEW u \in Agenda!Editors, AgendaHolds, Agenda!MeetingsRouter(r, u)
  PROVE  AgendaHolds'
<1>1. ASSUME NEW m \in Meetings, NEW b \in Bodies, Agenda!CreateMeeting(r, u, m, b)
      PROVE  AgendaHolds'
  BY <1>1, Kinds, RowBegins DEF Agenda!CreateMeeting, Agenda!NewRow, Above
<1>2. ASSUME NEW m \in Meetings, NEW q, Agenda!Read(r, q), Agenda!Active(m),
             \/ /\ q = [op |-> "edit", meeting |-> m, user |-> u]
                /\ u \in Admins \/ approval[m].submitter = u
             \/ u \in Admins /\ q \in [op : {"approve", "reject"}, meeting : {m}, user : {u}]
      PROVE  AgendaHolds'
  <2>1. Creating(q) /\ Reordering(q) /\ Deleting(q) /\ \A s \in Requests : Apart(q, req[s])
    BY <1>2 DEF Creating, Reordering, Deleting, Apart, Agenda!Creates
  <2>2. Deciding(q)
    BY <1>2 DEF Deciding, Exists, Agenda!Active
  <2>. QED  BY <1>2, <2>1, <2>2, AgendaReads
<1>3. ASSUME NEW m \in Meetings, Agenda!UpdateMeeting(r, u, m)
      PROVE  AgendaHolds'
  BY <1>2, <1>3 DEF Agenda!UpdateMeeting, Agenda!Visible
<1>4. ASSUME NEW m \in Meetings, u \in Admins,
             Agenda!ApproveMeeting(r, u, m) \/ Agenda!RejectMeeting(r, u, m)
      PROVE  AgendaHolds'
  BY <1>2, <1>4 DEF Agenda!ApproveMeeting, Agenda!RejectMeeting, Agenda!Pending
<1>5. ASSUME NEW m \in Meetings, Agenda!DeleteMeeting(r, m)
      PROVE  AgendaHolds'
  BY <1>5, Kinds, DeletionBegins DEF Agenda!DeleteMeeting
<1>. QED  BY <1>1, <1>3, <1>4, <1>5 DEF Agenda!MeetingsRouter

LEMMA ItemsBegin ==
  ASSUME NEW r \in Requests, NEW u \in Agenda!Editors, AgendaHolds, Agenda!AgendaRouter(r, u)
  PROVE  AgendaHolds'
<1>1. ASSUME NEW i \in Items, NEW m \in Meetings, Agenda!CreateItem(r, i, m)
      PROVE  AgendaHolds'
  <2>1. PICK o : Agenda!Read(r, Agenda!NewRow(i, m, Nil, o))
    BY <1>1 DEF Agenda!CreateItem
  <2>2. Agenda!Unborn(i) /\ Agenda!Active(m)
    BY <1>1 DEF Agenda!CreateItem
  <2>. QED  BY <2>1, <2>2, Kinds, RowBegins DEF Agenda!NewRow, Above
<1>2. ASSUME NEW i \in Items, Agenda!DeleteItem(r, i)
      PROVE  AgendaHolds'
  BY <1>2, Kinds, DeletionBegins DEF Agenda!DeleteItem
<1>. QED  BY <1>1, <1>2, ReorderBegins DEF Agenda!AgendaRouter

LEMMA MediaBegin ==
  ASSUME NEW r \in Requests, NEW u \in Agenda!Editors, AgendaHolds,
         Agenda!AttachmentsRouter(r, u) \/ Agenda!EmbedsRouter(r, u)
  PROVE  AgendaHolds'
<1>1. ASSUME NEW a \in Attachments, NEW p \in Meetings \cup Items,
             Agenda!UploadAttachment(r, a, p)
      PROVE  AgendaHolds'
  <2>1. /\ Agenda!Unborn(a) /\ Agenda!Active(p)
        /\ Agenda!Read(r, [op |-> "upload", child |-> a, parent |-> p, user |-> Nil,
                           order |-> 0])
    BY <1>1 DEF Agenda!UploadAttachment, Agenda!NewRow
  <2>. QED  BY <2>1, Kinds, RowBegins DEF Above
<1>2. ASSUME NEW e \in Embeds, NEW p \in Meetings \cup Items, Agenda!CreateEmbed(r, e, p)
      PROVE  AgendaHolds'
  BY <1>2, Kinds, RowBegins DEF Agenda!CreateEmbed, Agenda!NewRow, Above
<1>3. ASSUME NEW x \in Agenda!Media, Agenda!DeleteMedia(r, x)
      PROVE  AgendaHolds'
  <2>1. Agenda!Children(x) = {}
    BY Kinds DEF Agenda!Children, AgendaHolds, Rooted, Above, Exists
  <2>. QED  BY <1>3, <2>1, Kinds, DeletionBegins DEF Agenda!DeleteMedia
<1>. QED
  BY <1>1, <1>2, <1>3, Kinds DEF Agenda!AttachmentsRouter, Agenda!EmbedsRouter

(* When a request is done, what is known of the others must be kept.       *)
LEMMA RequestEnds ==
  ASSUME NEW r \in Requests, AgendaHolds, Agenda!Done(r),
         AgendaTyped', Rooted', Agenda!RecordsHold',
         \A s \in Requests \ {r} : /\ Creating(req[s])' /\ Deciding(req[s])'
                                   /\ Reordering(req[s])' /\ Deleting(req[s])',
         \A s, t \in Requests \ {r} : Crossed(req[s], req[t])'
  PROVE  AgendaHolds'
<1>1. req'[r] = [op |-> "idle"] /\ \A s \in Requests \ {r} : req'[s] = req[s]
  BY DEF Agenda!Done, Agenda!Idle, AgendaHolds, AgendaTyped
<1>2. /\ Creating(req[r])' /\ Deciding(req[r])' /\ Reordering(req[r])' /\ Deleting(req[r])'
      /\ \A s \in Requests : /\ Crossed(req[r], req[s])' /\ Crossed(req[s], req[r])'
                             /\ Apart(req[r], req[s])' /\ Apart(req[s], req[r])'
  BY <1>1 DEF Creating, Deciding, Reordering, Deleting, Crossed, Apart, Agenda!Creates
<1>3. \A s, t \in Requests \ {r} : s # t => Apart(req[s], req[t])'
  BY <1>1 DEF AgendaHolds, InAgenda, Apart
<1>. QED  BY <1>2, <1>3 DEF AgendaHolds, InAgenda

(* A request that gives up has changed nothing.                            *)
LEMMA NothingWritten ==
  ASSUME NEW r \in Requests, AgendaHolds, Agenda!Done(r),
         UNCHANGED <<entry, approval, order, files>>
  PROVE  AgendaHolds'
<1>1. /\ raced' = raced /\ DOMAIN req' = Requests /\ req' = [s \in Requests |-> req'[s]]
      /\ \A s \in Requests \ {r} : req'[s] = req[s]
  BY DEF Agenda!Done, AgendaHolds, AgendaTyped
<1>2. AgendaTyped' /\ Rooted'
  BY <1>1 DEF AgendaHolds, AgendaTyped, Rooted, Exists
<1>3. Agenda!RecordsHold'
  BY <1>1, Searched DEF AgendaHolds, Agenda!RecordsHold, Agenda!NoStrays, Agenda!Active,
     Agenda!RowsHaveFiles, Agenda!ApprovalHolds, Agenda!PlacesDiffer
<1>4. \A s \in Requests \ {r} : /\ Creating(req[s])' /\ Deciding(req[s])'
                                /\ Reordering(req[s])' /\ Deleting(req[s])'
  <2>. SUFFICES ASSUME NEW s \in Requests \ {r}
                PROVE  /\ Creating(req[s])' /\ Deciding(req[s])'
                       /\ Reordering(req[s])' /\ Deleting(req[s])'
    OBVIOUS
  <2>1. Creating(req[s]) /\ Deciding(req[s]) /\ Reordering(req[s]) /\ Deleting(req[s])
    BY DEF AgendaHolds, InAgenda
  <2>2. Creating(req[s])'
    BY <1>1, <2>1 DEF Creating, Exists, Agenda!Active, Agenda!Creates
  <2>3. Deciding(req[s])' /\ Reordering(req[s])' /\ Deleting(req[s])'
    BY <1>1, <2>1 DEF Deciding, Reordering, Deleting, Exists, Agenda!Active
  <2>. QED  BY <2>2, <2>3
<1>5. \A s, t \in Requests \ {r} : Crossed(req[s], req[t])'
  BY <1>1 DEF AgendaHolds, InAgenda, Crossed, Agenda!Parent, Agenda!Creates
<1>. QED  BY <1>2, <1>3, <1>4, <1>5, RequestEnds

(* The file is stored before the row.                                      *)
LEMMA FileStored ==
  ASSUME NEW r \in Requests, AgendaHolds, Agenda!SaveFile(r)
  PROVE  AgendaHolds'
<1>. DEFINE c == req[r].child
            q == [op |-> "create", child |-> c, parent |-> req[r].parent,
                  user |-> req[r].user, order |-> req[r].order]
<1>1. /\ entry' = entry /\ approval' = approval /\ order' = order /\ raced' = raced
      /\ files' = files \cup {c} /\ req[r].op = "upload"
  BY DEF Agenda!SaveFile
<1>2. Creating(req[r])
  BY DEF AgendaHolds, InAgenda
<1>3. req[r] = [op |-> "upload", child |-> c, parent |-> req[r].parent,
                user |-> req[r].user, order |-> req[r].order]
  BY <1>1, <1>2 DEF Creating, Agenda!Creates
<1>4. /\ req' = [req EXCEPT ![r] = q] /\ DOMAIN req' = Requests
      /\ req' = [s \in Requests |-> req'[s]] /\ req'[r] = q
      /\ \A s \in Requests \ {r} : req'[s] = req[s]
  <2>1. req' = [req EXCEPT ![r] = [req[r] EXCEPT !.op = "create"]]
    BY DEF Agenda!SaveFile, AgendaHolds, AgendaTyped
  <2>2. [req[r] EXCEPT !.op = "create"] = q
    BY <1>3
  <2>. QED  BY <2>1, <2>2 DEF AgendaHolds, AgendaTyped
<1>5. AgendaTyped' /\ Rooted'
  BY <1>1, <1>4 DEF AgendaHolds, AgendaTyped, Rooted, Exists
<1>6. Agenda!RecordsHold'
  BY <1>1, Searched DEF AgendaHolds, Agenda!RecordsHold, Agenda!NoStrays, Agenda!Active,
     Agenda!RowsHaveFiles, Agenda!ApprovalHolds, Agenda!PlacesDiffer
<1>7. \A s \in Requests : /\ Creating(req[s])' /\ Deciding(req[s])'
                          /\ Reordering(req[s])' /\ Deleting(req[s])'
  <2>. SUFFICES ASSUME NEW s \in Requests
                PROVE  /\ Creating(req[s])' /\ Deciding(req[s])'
                       /\ Reordering(req[s])' /\ Deleting(req[s])'
    OBVIOUS
  <2>1. Creating(req[s]) /\ Deciding(req[s]) /\ Reordering(req[s]) /\ Deleting(req[s])
    BY DEF AgendaHolds, InAgenda
  <2>2. CASE s = r
    <3>1. Creating(req[r])'
      BY <1>1, <1>2, <1>4 DEF Creating, Exists, Agenda!Active, Agenda!Creates
    <3>. QED  BY <1>4, <2>2, <3>1 DEF Deciding, Reordering, Deleting
  <2>3. CASE s # r
    <3>1. Creating(req[s])'
      BY <1>1, <1>4, <2>1, <2>3 DEF Creating, Exists, Agenda!Active, Agenda!Creates
    <3>2. Deciding(req[s])' /\ Reordering(req[s])' /\ Deleting(req[s])'
      BY <1>1, <1>4, <2>1, <2>3 DEF Deciding, Reordering, Deleting, Exists, Agenda!Active
    <3>. QED  BY <3>1, <3>2
  <2>. QED  BY <2>2, <2>3
<1>8. \A s, t \in Requests : Crossed(req[s], req[t])' /\ (s # t => Apart(req[s], req[t])')
  <2>. SUFFICES ASSUME NEW s \in Requests, NEW t \in Requests
                PROVE  Crossed(req[s], req[t])' /\ (s # t => Apart(req[s], req[t])')
    OBVIOUS
  <2>1. \A x \in Requests : /\ req'[x].op = "delete" <=> req[x].op = "delete"
                            /\ req'[x].op = "delete" => req'[x] = req[x]
                            /\ Agenda!Creates(req'[x]) <=> Agenda!Creates(req[x])
                            /\ Agenda!Creates(req[x]) => /\ req'[x].child = req[x].child
                                                         /\ req'[x].parent = req[x].parent
    BY <1>1, <1>4 DEF Agenda!Creates
  <2>2. Crossed(req[s], req[t]) /\ (s # t => Apart(req[s], req[t]))
    BY DEF AgendaHolds, InAgenda
  <2>. QED  BY <1>1, <2>1, <2>2 DEF Crossed, Apart, Agenda!Parent
<1>. QED  BY <1>5, <1>6, <1>7, <1>8 DEF AgendaHolds, InAgenda

(* A decision or an edit changes one meeting that is there.                *)
LEMMA MeetingChanged ==
  ASSUME NEW r \in Requests, AgendaHolds,
         Agenda!Edit(r) \/ Agenda!Approve(r) \/ Agenda!Reject(r)
  PROVE  AgendaHolds'
<1>1. /\ entry' = entry /\ order' = order /\ files' = files /\ raced' = raced
      /\ Agenda!Done(r) /\ DOMAIN req' = Requests /\ req' = [s \in Requests |-> req'[s]]
      /\ \A s \in Requests \ {r} : req'[s] = req[s]
  BY DEF Agenda!Done, Agenda!Edit, Agenda!Approve, Agenda!Reject, AgendaHolds, AgendaTyped
<1>. DEFINE m == req[r].meeting
            u == req[r].user
<1>2. Deciding(req[r])
  BY DEF AgendaHolds, InAgenda
<1>3. /\ m \in Meetings /\ u \in Agenda!Editors
      /\ \/ /\ approval' = [approval EXCEPT ![m].editor = u]
            /\ u \in Admins \/ u = approval[m].submitter
         \/ approval' = [approval EXCEPT ![m].status = "approved", ![m].by = u] /\ u \in Admins
         \/ /\ approval' = [approval EXCEPT ![m].status = "rejected", ![m].by = u,
                                            ![m].reason = TRUE]
            /\ u \in Admins
  BY <1>2 DEF Deciding, Agenda!Edit, Agenda!Approve, Agenda!Reject, Agenda!Editors
<1>. HIDE DEF m, u
<1>4. /\ AgendaTyped' /\ Agenda!ApprovalHolds'
      /\ \A x \in Meetings : approval'[x].submitter = approval[x].submitter
  <2>1. approval \in [Meetings -> [status : {"none", "pending", "approved", "rejected"},
                                   by : Admins \cup {Nil}, reason : BOOLEAN,
                                   submitter : Agenda!Editors \cup {Nil},
                                   editor : Agenda!Editors \cup {Nil}]]
    BY DEF AgendaHolds, AgendaTyped
  <2>2. Agenda!ApprovalHolds
    BY DEF AgendaHolds, Agenda!RecordsHold
  <2>3. /\ approval' \in [Meetings -> [status : {"none", "pending", "approved", "rejected"},
                                       by : Admins \cup {Nil}, reason : BOOLEAN,
                                       submitter : Agenda!Editors \cup {Nil},
                                       editor : Agenda!Editors \cup {Nil}]]
        /\ Agenda!ApprovalHolds'
        /\ \A x \in Meetings : approval'[x].submitter = approval[x].submitter
    BY <1>3, <2>1, <2>2 DEF Agenda!ApprovalHolds
  <2>. QED  BY <1>1, <2>3 DEF AgendaHolds, AgendaTyped
<1>5. Rooted'
  BY <1>1 DEF AgendaHolds, Rooted, Exists
<1>6. Agenda!RecordsHold'
  BY <1>1, <1>4, Searched DEF AgendaHolds, Agenda!RecordsHold, Agenda!NoStrays, Agenda!Active,
     Agenda!RowsHaveFiles, Agenda!PlacesDiffer
<1>7. \A s \in Requests \ {r} : /\ Creating(req[s])' /\ Deciding(req[s])'
                                /\ Reordering(req[s])' /\ Deleting(req[s])'
  <2>. SUFFICES ASSUME NEW s \in Requests \ {r}
                PROVE  /\ Creating(req[s])' /\ Deciding(req[s])'
                       /\ Reordering(req[s])' /\ Deleting(req[s])'
    OBVIOUS
  <2>1. Creating(req[s]) /\ Deciding(req[s]) /\ Reordering(req[s]) /\ Deleting(req[s])
    BY DEF AgendaHolds, InAgenda
  <2>2. Creating(req[s])'
    BY <1>1, <2>1 DEF Creating, Exists, Agenda!Active, Agenda!Creates
  <2>3. Deciding(req[s])'
    BY <1>1, <1>4, <2>1 DEF Deciding, Exists
  <2>4. Reordering(req[s])' /\ Deleting(req[s])'
    BY <1>1, <2>1 DEF Reordering, Deleting, Exists, Agenda!Active
  <2>. QED  BY <2>2, <2>3, <2>4
<1>8. \A s, t \in Requests \ {r} : Crossed(req[s], req[t])'
  BY <1>1 DEF AgendaHolds, InAgenda, Crossed, Agenda!Parent, Agenda!Creates
<1>. QED  BY <1>1, <1>4, <1>5, <1>6, <1>7, <1>8, RequestEnds

(* A permutation that passes the index leaves every item at its own place. *)
LEMMA PlacesChanged ==
  ASSUME NEW r \in Requests, AgendaHolds, Agenda!Reorder(r)
  PROVE  AgendaHolds'
<1>. DEFINE q == req[r]
<1>1. /\ entry' = entry /\ approval' = approval /\ files' = files /\ raced' = raced
      /\ Agenda!Done(r) /\ DOMAIN req' = Requests /\ req' = [s \in Requests |-> req'[s]]
      /\ \A s \in Requests \ {r} : req'[s] = req[s]
      /\ q.op = "reorder" /\ Agenda!Fits(q)
      /\ order' = [i \in Items |-> IF i \in q.changed THEN q.target[i] ELSE order[i]]
  BY DEF Agenda!Done, Agenda!Reorder, AgendaHolds, AgendaTyped
<1>2. Reordering(q)
  BY DEF AgendaHolds, InAgenda
<1>. HIDE DEF q
<1>3. AgendaTyped' /\ Rooted'
  BY <1>1 DEF AgendaHolds, AgendaTyped, Rooted, Exists
<1>4. Agenda!PlacesDiffer'
  <2>. SUFFICES ASSUME NEW i \in Items, NEW k \in Items, i # k, Agenda!Active(i),
                       Agenda!Active(k), entry[i].parent = entry[k].parent
                PROVE  order'[i] # order'[k]
    BY <1>1 DEF Agenda!PlacesDiffer, Agenda!Active
  <2>1. i \in Int /\ k \in Int /\ i \in Agenda!Rows /\ k \in Agenda!Rows
    BY Kinds
  <2>2. /\ entry[i] = [state |-> "active", parent |-> entry[i].parent]
        /\ entry[k] = [state |-> "active", parent |-> entry[k].parent]
    BY <2>1 DEF AgendaHolds, AgendaTyped, Agenda!Active
  <2>3. order[i] # order[k]
    BY DEF AgendaHolds, Agenda!RecordsHold, Agenda!PlacesDiffer
  <2>4. ASSUME NEW x \in {i, k}, NEW y \in {i, k}, x # y, x \in q.changed,
               IF y \in q.changed THEN y < x ELSE TRUE
        PROVE  order'[x] # order'[y]
    <3>1. entry[x].parent = q.meeting
      BY <1>1, <1>2, <2>4 DEF Reordering
    <3>2. y \in (Agenda!Children(q.meeting) \cap Items) \ {x}
      BY <2>1, <2>2, <2>4, <3>1 DEF Agenda!Children
    <3>3. (IF y \in q.changed /\ y < x THEN q.target[y] ELSE order[y]) # q.target[x]
      BY <1>1, <2>4, <3>2 DEF Agenda!Fits
    <3>. QED  BY <1>1, <2>4, <3>3
  <2>5. CASE i \in q.changed /\ k \in q.changed
    BY <2>1, <2>4, <2>5
  <2>6. CASE i \in q.changed /\ k \notin q.changed
    BY <2>4, <2>6
  <2>7. CASE i \notin q.changed /\ k \in q.changed
    BY <2>4, <2>7
  <2>8. CASE i \notin q.changed /\ k \notin q.changed
    BY <1>1, <2>3, <2>8
  <2>. QED  BY <2>5, <2>6, <2>7, <2>8
<1>5. Agenda!RecordsHold'
  BY <1>1, <1>4, Searched DEF AgendaHolds, Agenda!RecordsHold, Agenda!NoStrays,
     Agenda!Active, Agenda!RowsHaveFiles, Agenda!ApprovalHolds
<1>6. \A s \in Requests \ {r} : /\ Creating(req[s])' /\ Deciding(req[s])'
                                /\ Reordering(req[s])' /\ Deleting(req[s])'
  <2>. SUFFICES ASSUME NEW s \in Requests \ {r}
                PROVE  /\ Creating(req[s])' /\ Deciding(req[s])'
                       /\ Reordering(req[s])' /\ Deleting(req[s])'
    OBVIOUS
  <2>1. Creating(req[s]) /\ Deciding(req[s]) /\ Reordering(req[s]) /\ Deleting(req[s])
    BY DEF AgendaHolds, InAgenda
  <2>2. Creating(req[s])'
    BY <1>1, <2>1 DEF Creating, Exists, Agenda!Active, Agenda!Creates
  <2>3. Deciding(req[s])' /\ Reordering(req[s])' /\ Deleting(req[s])'
    BY <1>1, <2>1 DEF Deciding, Reordering, Deleting, Exists, Agenda!Active
  <2>. QED  BY <2>2, <2>3
<1>7. \A s, t \in Requests \ {r} : Crossed(req[s], req[t])'
  BY <1>1 DEF AgendaHolds, InAgenda, Crossed, Agenda!Parent, Agenda!Creates
<1>. QED  BY <1>1, <1>3, <1>5, <1>6, <1>7, RequestEnds

(* A row comes under a parent that is there, or is known to have raced.    *)
LEMMA RowInserted ==
  ASSUME NEW r \in Requests, AgendaHolds, Agenda!Insert(r)
  PROVE  AgendaHolds'
<1>. DEFINE q == req[r]
            c == q.child
<1>1. /\ files' = files /\ raced' = raced
      /\ Agenda!Done(r) /\ DOMAIN req' = Requests /\ req' = [s \in Requests |-> req'[s]]
      /\ \A s \in Requests \ {r} : req'[s] = req[s]
      /\ q.op = "create" /\ Agenda!Creates(q)
      /\ c \in Items => ~Agenda!OrderTaken(c, q.parent, q.order)
  BY DEF Agenda!Done, Agenda!Insert, Agenda!Creates, AgendaHolds, AgendaTyped
<1>2. /\ Creating(q) /\ \A s \in Requests \ {r} : Apart(q, req[s])
      /\ \A s \in Requests : Crossed(q, req[s])
  BY DEF AgendaHolds, InAgenda
<1>3. /\ c \in Agenda!Rows /\ ~Exists(c) /\ Above(c, q.parent)
      /\ q.parent # Nil => Exists(q.parent) /\ (Agenda!Active(q.parent) \/ c \in raced)
      /\ c \in Meetings => q.user \in Agenda!Editors
      /\ c \in Attachments => c \in files
  BY <1>1, <1>2 DEF Creating
<1>4. /\ q.parent \in Agenda!Rows \cup {Nil}
      /\ \A s \in Requests \ {r} : Agenda!Creates(req[s]) => req[s].child # c
  BY <1>1, <1>2, <1>3, Kinds DEF Above, Apart
<1>5. /\ DOMAIN entry' = Agenda!Rows
      /\ entry'[c] = [state |-> "active", parent |-> q.parent]
      /\ \A n \in Agenda!Rows \ {c} : entry'[n] = entry[n]
  BY <1>3 DEF Agenda!Insert, AgendaHolds, AgendaTyped
<1>6. /\ order' = [i \in Items |-> order'[i]] /\ DOMAIN order' = Items
      /\ c \in Items => order'[c] = q.order
      /\ \A i \in Items \ {c} : order'[i] = order[i]
  <2>1. order' = IF c \in Items THEN [order EXCEPT ![c] = q.order] ELSE order
    BY DEF Agenda!Insert
  <2>2. DOMAIN order = Items /\ order = [i \in Items |-> order[i]]
    BY DEF AgendaHolds, AgendaTyped
  <2>. HIDE DEF q, c
  <2>. QED  BY <2>1, <2>2
<1>7. /\ approval' \in [Meetings -> [status : {"none", "pending", "approved", "rejected"},
                                     by : Admins \cup {Nil}, reason : BOOLEAN,
                                     submitter : Agenda!Editors \cup {Nil},
                                     editor : Agenda!Editors \cup {Nil}]]
      /\ Agenda!ApprovalHolds'
      /\ \A m \in Meetings \ {c} : approval'[m] = approval[m]
  <2>1. approval \in [Meetings -> [status : {"none", "pending", "approved", "rejected"},
                                   by : Admins \cup {Nil}, reason : BOOLEAN,
                                   submitter : Agenda!Editors \cup {Nil},
                                   editor : Agenda!Editors \cup {Nil}]]
    BY DEF AgendaHolds, AgendaTyped
  <2>2. Agenda!ApprovalHolds
    BY DEF AgendaHolds, Agenda!RecordsHold
  <2>. DEFINE w == [Agenda!NoMeeting EXCEPT
                      !.status = IF q.user \in Admins THEN "approved" ELSE "pending",
                      !.submitter = q.user, !.editor = q.user]
  <2>3. approval' = IF c \notin Meetings THEN approval ELSE [approval EXCEPT ![c] = w]
    BY DEF Agenda!Insert
  <2>4. c \in Meetings => q.user \in Agenda!Editors
    BY <1>3
  <2>. HIDE DEF q, c
  <2>5. Agenda!NoMeeting \in [status : {"none"}, by : {Nil}, reason : {FALSE},
                              submitter : {Nil}, editor : {Nil}]
    BY DEF Agenda!NoMeeting
  <2>6. ASSUME NEW n, n \in [status : {"none"}, by : {Nil}, reason : {FALSE},
                             submitter : {Nil}, editor : {Nil}],
               NEW v, NEW u
        PROVE  [n EXCEPT !.status = v, !.submitter = u, !.editor = u]
                 \in [status : {v}, by : {Nil}, reason : {FALSE},
                      submitter : {u}, editor : {u}]
    BY <2>6
  <2>7. w \in [status : {IF q.user \in Admins THEN "approved" ELSE "pending"}, by : {Nil},
               reason : {FALSE}, submitter : {q.user}, editor : {q.user}]
    BY <2>5, <2>6
  <2>. HIDE DEF w
  <2>. QED  BY <2>1, <2>2, <2>3, <2>4, <2>7 DEF Agenda!ApprovalHolds
<1>. HIDE DEF c, q
<1>8. /\ \A n \in Agenda!Rows : Exists(n) => n # c /\ Exists(n)'
      /\ \A n \in Agenda!Rows : Agenda!Active(n) => Agenda!Active(n)'
      /\ q.parent # c
  BY <1>3, <1>5, Kinds DEF Exists, Agenda!Active
<1>9. AgendaTyped'
  <2>1. entry' \in [Agenda!Rows -> [state : {"none", "active", "deleted"},
                                    parent : Agenda!Rows \cup {Nil}]]
    <3>1. entry' = [entry EXCEPT ![c] = [state |-> "active", parent |-> q.parent]]
      BY DEF Agenda!Insert, c, q
    <3>. QED  BY <1>4, <3>1 DEF AgendaHolds, AgendaTyped
  <2>. QED  BY <1>1, <1>6, <1>7, <2>1 DEF AgendaTyped
<1>10. Rooted'
  <2>. SUFFICES ASSUME NEW n \in Agenda!Rows, Exists(n)'
                PROVE  /\ Above(n, entry'[n].parent)
                       /\ entry'[n].parent # Nil => Exists(entry[n].parent)'
    BY DEF Rooted
  <2>1. CASE n = c
    BY <1>3, <1>4, <1>5, <1>8, <2>1 DEF Exists
  <2>2. CASE n # c
    <3>1. /\ entry'[n] = entry[n] /\ Exists(n) /\ Above(n, entry[n].parent)
          /\ entry[n].parent # Nil => Exists(entry[n].parent)
      BY <1>5, <2>2 DEF Exists, AgendaHolds, Rooted
    <3>2. entry[n].parent # Nil => entry[n].parent \in Agenda!Rows
      BY <3>1, Kinds DEF Above
    <3>. QED  BY <1>5, <1>8, <3>1, <3>2 DEF Exists
  <2>. QED  BY <2>1, <2>2
<1>11. Agenda!RecordsHold'
  <2>1. Agenda!NoStrays'
    <3>. SUFFICES ASSUME NEW n \in Agenda!Rows, Agenda!Active(n)', n \notin raced,
                         entry'[n].parent # Nil, ~Agenda!Active(entry[n].parent)'
                  PROVE  /\ n \in Agenda!Media /\ entry'[n].parent \in Items
                         /\ ~Agenda!Active(entry[entry[n].parent].parent)'
      BY <1>1 DEF Agenda!NoStrays, Agenda!Active
    <3>1. n # c
      BY <1>3, <1>4, <1>5, <1>8 DEF Agenda!Active
    <3>2. entry'[n] = entry[n] /\ Agenda!Active(n) /\ Exists(n)
      BY <1>5, <3>1 DEF Agenda!Active, Exists
    <3>3. /\ Exists(entry[n].parent) /\ entry[n].parent \in Agenda!Rows \ {c}
      BY <1>8, <3>2, Kinds DEF AgendaHolds, Rooted, Above
    <3>4. entry'[entry[n].parent] = entry[entry[n].parent]
      BY <1>5, <3>3
    <3>5. ~Agenda!Active(entry[n].parent)
      BY <3>2, <3>4 DEF Agenda!Active
    <3>6. /\ n \in Agenda!Media /\ entry[n].parent \in Items
          /\ ~Agenda!Active(entry[entry[n].parent].parent)
      BY <3>2, <3>5 DEF AgendaHolds, Agenda!RecordsHold, Agenda!NoStrays
    <3>7. entry[entry[n].parent].parent \in Agenda!Rows \ {c}
      BY <1>8, <3>3, <3>6, Kinds DEF AgendaHolds, Rooted, Above
    <3>. QED  BY <1>5, <3>2, <3>4, <3>6, <3>7 DEF Agenda!Active
  <2>2. Agenda!RowsHaveFiles'
    BY <1>1, <1>3, <1>5, Kinds DEF AgendaHolds, Agenda!RecordsHold, Agenda!RowsHaveFiles
  <2>3. Agenda!PlacesDiffer'
    <3>. SUFFICES ASSUME NEW i \in Items, NEW k \in Items, i # k, Agenda!Active(i)',
                         Agenda!Active(k)', entry'[i].parent = entry'[k].parent
                  PROVE  order'[i] # order'[k]
      BY DEF Agenda!PlacesDiffer
    <3>1. ASSUME NEW x \in {i, k}, x # c
          PROVE  /\ entry'[x] = entry[x] /\ Agenda!Active(x) /\ order'[x] = order[x]
                 /\ entry[x] = [state |-> "active", parent |-> entry[x].parent]
      BY <1>5, <1>6, <3>1, Kinds DEF Agenda!Active, AgendaHolds, AgendaTyped
    <3>2. ASSUME NEW x \in {i, k}, NEW y \in {i, k}, x = c, y # c
          PROVE  order'[x] # order'[y]
      <4>1. y \in Agenda!Children(q.parent) \cap Items
        BY <1>5, <3>1, <3>2, Kinds DEF Agenda!Children
      <4>. QED  BY <1>1, <1>6, <3>1, <3>2, <4>1 DEF Agenda!OrderTaken
    <3>3. CASE i # c /\ k # c
      BY <3>1, <3>3 DEF AgendaHolds, Agenda!RecordsHold, Agenda!PlacesDiffer
    <3>. QED  BY <3>2, <3>3
  <2>. QED  BY <1>7, <2>1, <2>2, <2>3, Searched DEF Agenda!RecordsHold
<1>12. \A s \in Requests \ {r} : /\ Creating(req[s])' /\ Deciding(req[s])'
                                 /\ Reordering(req[s])' /\ Deleting(req[s])'
  <2>. SUFFICES ASSUME NEW s \in Requests \ {r}
                PROVE  /\ Creating(req[s])' /\ Deciding(req[s])'
                       /\ Reordering(req[s])' /\ Deleting(req[s])'
    OBVIOUS
  <2>1. Creating(req[s]) /\ Deciding(req[s]) /\ Reordering(req[s]) /\ Deleting(req[s])
    BY DEF AgendaHolds, InAgenda
  <2>2. Creating(req[s])'
    <3>. SUFFICES ASSUME Agenda!Creates(req[s])
                  PROVE  Creating(req[s])'
      BY <1>1 DEF Creating, Agenda!Creates
    <3>1. req[s].parent # Nil => req[s].parent \in Agenda!Rows
      BY <2>1, Kinds DEF Creating, Above
    <3>. QED
      BY <1>1, <1>4, <1>5, <1>8, <2>1, <3>1 DEF Creating, Agenda!Creates, Exists, Agenda!Active
  <2>3. Deciding(req[s])'
    <3>1. req[s].op = "edit" => req[s].meeting # c
      BY <1>3, <2>1 DEF Deciding
    <3>. QED  BY <1>1, <1>5, <1>7, <2>1, <3>1, Kinds DEF Deciding, Exists
  <2>4. Reordering(req[s])'
    BY <1>1, <1>5, <1>8, <2>1, Kinds DEF Reordering, Exists
  <2>5. Deleting(req[s])'
    <3>. SUFFICES ASSUME req[s].op = "delete"
                  PROVE  Deleting(req[s])'
      BY <1>1 DEF Deleting
    <3>1. req[s].target = q.parent => c \in raced
      BY <1>1, <1>2, Kinds DEF Crossed, c, q
    <3>. QED  BY <1>1, <1>3, <1>5, <1>8, <2>1, <3>1 DEF Deleting, Exists, Agenda!Active
  <2>. QED  BY <2>2, <2>3, <2>4, <2>5
<1>13. \A s, t \in Requests \ {r} : Crossed(req[s], req[t])'
  <2>. SUFFICES ASSUME NEW s \in Requests \ {r}, NEW t \in Requests \ {r},
                       Agenda!Creates(req[s])
                PROVE  Crossed(req[s], req[t])'
    BY <1>1 DEF Crossed, Agenda!Creates
  <2>1. Creating(req[s]) /\ Crossed(req[s], req[t])
    BY DEF AgendaHolds, InAgenda
  <2>2. req[s].parent # Nil => req[s].parent \in Agenda!Rows \ {c}
    BY <1>8, <2>1, Kinds DEF Creating, Above
  <2>. QED  BY <1>1, <1>5, <2>1, <2>2 DEF Crossed, Agenda!Parent, Agenda!Creates
<1>. QED  BY <1>1, <1>9, <1>10, <1>11, <1>12, <1>13, RequestEnds

(* A deletion takes along what was read, and what came since has raced.    *)
LEMMA RowsStamped ==
  ASSUME NEW r \in Requests, AgendaHolds, Agenda!Stamp(r)
  PROVE  AgendaHolds'
<1>. DEFINE q == req[r]
            gone == {q.target} \cup q.kids
<1>1. /\ approval' = approval /\ order' = order /\ files' = files /\ raced' = raced
      /\ Agenda!Done(r) /\ DOMAIN req' = Requests /\ req' = [s \in Requests |-> req'[s]]
      /\ \A s \in Requests \ {r} : req'[s] = req[s]
      /\ q.op = "delete"
  BY DEF Agenda!Done, Agenda!Stamp, AgendaHolds, AgendaTyped
<1>2. Deleting(q)
  BY DEF AgendaHolds, InAgenda
<1>3. /\ gone \subseteq Agenda!Rows /\ \A n \in gone : Exists(n)
      /\ \A n \in gone : n = q.target \/ entry[n].parent = q.target
      /\ \A n \in Agenda!Rows : Agenda!Active(n) /\ entry[n].parent = q.target
                                  => n \in gone \cup raced
  BY <1>1, <1>2 DEF Deleting
<1>4. /\ entry' \in [Agenda!Rows -> [state : {"none", "active", "deleted"},
                                     parent : Agenda!Rows \cup {Nil}]]
      /\ \A n \in Agenda!Rows : entry'[n].parent = entry[n].parent
      /\ \A n \in Agenda!Rows \ gone : entry'[n] = entry[n]
      /\ \A n \in gone : entry'[n].state = "deleted"
  <2>1. entry' = [n \in Agenda!Rows |-> IF n \in gone THEN [entry[n] EXCEPT !.state = "deleted"]
                                                      ELSE entry[n]]
    BY DEF Agenda!Stamp
  <2>2. entry \in [Agenda!Rows -> [state : {"none", "active", "deleted"},
                                   parent : Agenda!Rows \cup {Nil}]]
    BY DEF AgendaHolds, AgendaTyped
  <2>3. gone \subseteq Agenda!Rows
    BY <1>3
  <2>. HIDE DEF gone
  <2>. QED  BY <2>1, <2>2, <2>3
<1>. HIDE DEF gone, q
<1>5. \A n \in Agenda!Rows : /\ Exists(n)' <=> Exists(n)
                             /\ Agenda!Active(n)' <=> Agenda!Active(n) /\ n \notin gone
  BY <1>3, <1>4 DEF Exists, Agenda!Active
<1>6. AgendaTyped'
  BY <1>1, <1>4 DEF AgendaHolds, AgendaTyped
<1>7. \A n \in Agenda!Rows : Exists(n) => entry[n].parent \in Agenda!Rows \cup {Nil}
  BY DEF AgendaHolds, AgendaTyped
<1>8. Rooted'
  <2>. SUFFICES ASSUME NEW n \in Agenda!Rows, Exists(n)'
                PROVE  /\ Above(n, entry'[n].parent)
                       /\ entry'[n].parent # Nil => Exists(entry[n].parent)'
    BY DEF Rooted
  <2>1. Exists(n) /\ entry'[n].parent = entry[n].parent
    BY <1>4, <1>5
  <2>2. /\ Above(n, entry[n].parent)
        /\ entry[n].parent # Nil => Exists(entry[n].parent) /\ entry[n].parent \in Agenda!Rows
    BY <1>7, <2>1 DEF AgendaHolds, Rooted
  <2>. QED  BY <1>3, <1>4, <2>1, <2>2 DEF Exists
<1>9. Agenda!RecordsHold'
  <2>1. Agenda!NoStrays'
    <3>. SUFFICES ASSUME NEW n \in Agenda!Rows, NEW p, p = entry[n].parent, Agenda!Active(n)',
                         n \notin raced, p # Nil, ~Agenda!Active(p)'
                  PROVE  /\ n \in Agenda!Media /\ p \in Items
                         /\ ~Agenda!Active(entry[p].parent)'
      BY <1>1, <1>4 DEF Agenda!NoStrays, Agenda!Active
    <3>1. Agenda!Active(n) /\ n \notin gone /\ Exists(n)
      BY <1>5 DEF Agenda!Active, Exists
    <3>2. Exists(p) /\ p \in Agenda!Rows /\ Above(n, p)
      BY <1>7, <3>1 DEF AgendaHolds, Rooted
    <3>3. p \in Items => entry[p].parent \in Agenda!Rows
      BY <3>2, Kinds DEF AgendaHolds, Rooted, Above
    <3>4. CASE p \notin gone
      <4>1. ~Agenda!Active(p)
        BY <1>4, <3>2, <3>4 DEF Agenda!Active
      <4>2. n \in Agenda!Media /\ p \in Items /\ ~Agenda!Active(entry[p].parent)
        BY <3>1, <4>1 DEF AgendaHolds, Agenda!RecordsHold, Agenda!NoStrays
      <4>. QED  BY <1>4, <1>5, <3>2, <3>3, <4>2 DEF Agenda!Active
    <3>5. CASE p \in gone
      <4>1. p # q.target
        BY <1>3, <3>1
      <4>2. entry[p].parent = q.target /\ entry[p].parent \in gone
        BY <1>3, <3>5, <4>1 DEF gone
      <4>3. p \in q.kids /\ q.target \notin Bodies
        BY <1>1, <1>2, <3>5, <4>1 DEF Deleting, gone
      <4>4. Above(p, q.target)
        BY <3>2, <4>2 DEF AgendaHolds, Rooted
      <4>5. q.target \in Agenda!Rows
        BY <1>3 DEF gone
      <4>6. p \in Items /\ n \in Agenda!Media
        BY <3>2, <4>3, <4>4, <4>5, Kinds DEF Above
      <4>. QED  BY <1>3, <1>4, <3>2, <4>2, <4>6 DEF Agenda!Active
    <3>. QED  BY <3>4, <3>5
  <2>2. Agenda!RowsHaveFiles'
    BY <1>1, <1>5, Kinds DEF AgendaHolds, Agenda!RecordsHold, Agenda!RowsHaveFiles, Exists
  <2>3. Agenda!PlacesDiffer'
    BY <1>1, <1>4, <1>5, Kinds DEF AgendaHolds, Agenda!RecordsHold, Agenda!PlacesDiffer,
       Agenda!Active
  <2>4. Agenda!ApprovalHolds'
    BY <1>1 DEF AgendaHolds, Agenda!RecordsHold, Agenda!ApprovalHolds
  <2>. QED  BY <2>1, <2>2, <2>3, <2>4, Searched DEF Agenda!RecordsHold
<1>10. \A s \in Requests \ {r} : /\ Creating(req[s])' /\ Deciding(req[s])'
                                 /\ Reordering(req[s])' /\ Deleting(req[s])'
  <2>. SUFFICES ASSUME NEW s \in Requests \ {r}
                PROVE  /\ Creating(req[s])' /\ Deciding(req[s])'
                       /\ Reordering(req[s])' /\ Deleting(req[s])'
    OBVIOUS
  <2>1. Creating(req[s]) /\ Deciding(req[s]) /\ Reordering(req[s]) /\ Deleting(req[s])
    BY DEF AgendaHolds, InAgenda
  <2>2. Creating(req[s])'
    <3>. SUFFICES ASSUME Agenda!Creates(req[s])
                  PROVE  Creating(req[s])'
      BY <1>1 DEF Creating, Agenda!Creates
    <3>. DEFINE x == req[s].child
                p == req[s].parent
    <3>1. /\ x \in Agenda!Rows /\ ~Exists(x) /\ (p # Nil => p \in Agenda!Rows)
          /\ p # Nil => Exists(p) /\ (Agenda!Active(p) \/ x \in raced)
      BY <2>1, Kinds DEF Creating, Above
    <3>2. p # Nil /\ p \in gone => x \in raced
      <4>. SUFFICES ASSUME p # Nil, p \in gone
                    PROVE  x \in raced
        OBVIOUS
      <4>1. Crossed(req[s], q)
        BY DEF AgendaHolds, InAgenda, q
      <4>2. q.target \in {p} \cup Agenda!Parent(p)
        BY <1>3 DEF Agenda!Parent
      <4>. QED  BY <1>1, <4>1, <4>2 DEF Crossed
    <3>3. p # Nil => entry'[p].state # "none" /\ (entry'[p].state = "active" \/ x \in raced)
      <4>. HIDE DEF p, x
      <4>. QED  BY <1>4, <1>3, <3>1, <3>2 DEF Exists, Agenda!Active
    <3>4. entry'[x].state = "none"
      <4>. HIDE DEF x
      <4>. QED  BY <1>4, <1>3, <3>1 DEF Exists
    <3>. QED
      BY <1>1, <2>1, <3>1, <3>3, <3>4 DEF Creating, Agenda!Creates, Exists, Agenda!Active
  <2>3. Deciding(req[s])'
    BY <1>1, <1>5, <2>1, Kinds DEF Deciding, Exists
  <2>4. Reordering(req[s])'
    BY <1>1, <1>4, <1>5, <2>1, Kinds DEF Reordering, Exists
  <2>5. Deleting(req[s])'
    BY <1>1, <1>4, <1>5, <2>1 DEF Deleting, Exists, Agenda!Active
  <2>. QED  BY <2>2, <2>3, <2>4, <2>5
<1>11. \A s, t \in Requests \ {r} : Crossed(req[s], req[t])'
  <2>. SUFFICES ASSUME NEW s \in Requests \ {r}, NEW t \in Requests \ {r},
                       Agenda!Creates(req[s])
                PROVE  Crossed(req[s], req[t])'
    BY <1>1 DEF Crossed, Agenda!Creates
  <2>1. Creating(req[s]) /\ Crossed(req[s], req[t])
    BY DEF AgendaHolds, InAgenda
  <2>2. req[s].parent # Nil => req[s].parent \in Agenda!Rows
    BY <2>1, Kinds DEF Creating, Above
  <2>. QED  BY <1>1, <1>4, <2>1, <2>2 DEF Crossed, Agenda!Parent, Agenda!Creates
<1>. QED  BY <1>1, <1>6, <1>8, <1>9, <1>10, <1>11, RequestEnds

(* Every step of the meeting records keeps the invariant.                  *)
LEMMA AgendaStep ==
  ASSUME AgendaHolds, Agenda!Next
  PROVE  AgendaHolds'
<1>1. ASSUME NEW r \in Requests, NEW u \in Agenda!Editors,
             \/ Agenda!BodiesRouter(r, u) \/ Agenda!MeetingsRouter(r, u)
             \/ Agenda!AgendaRouter(r, u) \/ Agenda!AttachmentsRouter(r, u)
             \/ Agenda!EmbedsRouter(r, u)
      PROVE  AgendaHolds'
  BY <1>1, BodiesBegin, MeetingsBegin, ItemsBegin, MediaBegin
<1>2. ASSUME NEW r \in Requests,
             \/ Agenda!SaveFile(r) \/ Agenda!Insert(r) \/ Agenda!Edit(r) \/ Agenda!Approve(r)
             \/ Agenda!Reject(r) \/ Agenda!Reorder(r) \/ Agenda!Stamp(r)
      PROVE  AgendaHolds'
  BY <1>2, FileStored, RowInserted, MeetingChanged, PlacesChanged, RowsStamped
<1>3. ASSUME NEW r \in Requests, Agenda!ReorderFails(r) \/ Agenda!Abort(r)
      PROVE  AgendaHolds'
  BY <1>3, NothingWritten DEF Agenda!ReorderFails, Agenda!Abort
<1>. QED  BY <1>1, <1>2, <1>3 DEF Agenda!Next

LEMMA AgendaStays ==
  ASSUME AgendaHolds, UNCHANGED meetings
  PROVE  AgendaHolds'
<1>1. /\ entry' = entry /\ approval' = approval /\ order' = order /\ files' = files
      /\ req' = req /\ raced' = raced
  BY DEF meetings
<1>2. AgendaTyped' /\ Rooted'
  BY <1>1 DEF AgendaHolds, AgendaTyped, Rooted, Exists
<1>3. Agenda!RecordsHold'
  BY <1>1, Searched DEF AgendaHolds, Agenda!RecordsHold, Agenda!NoStrays, Agenda!Active,
     Agenda!RowsHaveFiles, Agenda!ApprovalHolds, Agenda!PlacesDiffer
<1>4. \A s \in Requests : Creating(req[s])' /\ Deciding(req[s])'
  BY <1>1 DEF AgendaHolds, InAgenda, Creating, Deciding, Exists, Agenda!Active, Agenda!Creates
<1>5. \A s \in Requests : Reordering(req[s])' /\ Deleting(req[s])'
  BY <1>1 DEF AgendaHolds, InAgenda, Reordering, Deleting, Exists, Agenda!Active
<1>6. \A s, t \in Requests : Crossed(req[s], req[t])' /\ (s # t => Apart(req[s], req[t])')
  BY <1>1 DEF AgendaHolds, InAgenda, Crossed, Apart, Agenda!Parent, Agenda!Creates
<1>. QED  BY <1>2, <1>3, <1>4, <1>5, <1>6 DEF AgendaHolds, InAgenda

LEMMA AgendaAlwaysHolds == RecordsSpec => [](part = "meetings" => AgendaHolds)
<1>1. ASSUME RecordsInit PROVE part = "meetings" => AgendaHolds
  BY <1>1, AgendaBegins DEF RecordsInit
<1>2. ASSUME part = "meetings" => AgendaHolds, [RecordsNext]_<<part, vars, kept>>
      PROVE  (part = "meetings" => AgendaHolds)'
  <2>. SUFFICES ASSUME part' = "meetings"
                PROVE  AgendaHolds'
    BY DEF AgendaHolds
  <2>1. part' = part
    BY <1>2 DEF RecordsNext
  <2>2. Agenda!Next \/ UNCHANGED meetings
    BY <1>2, <2>1 DEF RecordsNext, kept
  <2>. QED  BY <1>2, <2>1, <2>2, AgendaStep, AgendaStays
<1>. QED  BY <1>1, <1>2, PTL DEF RecordsSpec

(* No row is left under a deleted parent unless it raced, every attachment *)
(* has its file, a search shows nothing deleted, decisions are those of    *)
(* administrators, and no two items of an agenda have the same place:      *)
(* whatever requests overlap, and wherever they stop.                      *)
THEOREM RecordsAlwaysHold == RecordsSpec => []RecordsHold
<1>1. (part = "meetings" => AgendaHolds) => RecordsHold
  BY DEF AgendaHolds, RecordsHold
<1>. QED  BY <1>1, AgendaAlwaysHolds, PTL

(* A reordering that goes through puts the agenda in the order it was      *)
(* asked for, but for items that it had no need to move and others did.    *)
THEOREM ReordersAsAsked == RecordsSpec => ReorderAsAsked
<1>1. ASSUME part = "meetings" => AgendaHolds, [RecordsNext]_<<part, vars, kept>>
      PROVE  [part = "meetings" => Agenda!AsAsked]_<<part, meetings>>
  <2>. SUFFICES ASSUME AgendaHolds, part = "meetings", Agenda!Next
                PROVE  Agenda!AsAsked
    BY <1>1 DEF RecordsNext, kept
  <2>. SUFFICES ASSUME NEW r \in Requests, req[r].op = "reorder", order' # order,
                       req'[r] = Agenda!Idle
                PROVE  Agenda!InOrder(req[r], Agenda!Placed(req[r]))
    BY DEF Agenda!AsAsked, Agenda!Reordered
  <2>0. DOMAIN req = Requests /\ Agenda!Idle # req[r]
    BY DEF AgendaHolds, AgendaTyped, Agenda!Idle
  <2>1. ASSUME NEW s \in Requests, Agenda!Insert(s)
        PROVE  FALSE
    BY <2>0, <2>1 DEF Agenda!Insert, Agenda!Done
  <2>2. ASSUME NEW s \in Requests, Agenda!Reorder(s)
        PROVE  s = r
    BY <2>0, <2>2 DEF Agenda!Reorder, Agenda!Done
  <2>3. Agenda!Reorder(r)
    <3>1. ASSUME NEW s \in Requests, NEW u \in Agenda!Editors,
                 Agenda!BodiesRouter(s, u) \/ Agenda!MeetingsRouter(s, u)
          PROVE  order' = order
      BY <3>1 DEF Agenda!BodiesRouter, Agenda!MeetingsRouter, Agenda!CreateBody,
         Agenda!DeleteBody, Agenda!CreateMeeting, Agenda!UpdateMeeting,
         Agenda!ApproveMeeting, Agenda!RejectMeeting, Agenda!DeleteMeeting, Agenda!Read
    <3>2. ASSUME NEW s \in Requests, NEW u \in Agenda!Editors, Agenda!AgendaRouter(s, u)
          PROVE  order' = order
      BY <3>2 DEF Agenda!AgendaRouter, Agenda!CreateItem, Agenda!ReorderItems,
         Agenda!DeleteItem, Agenda!Read
    <3>3. ASSUME NEW s \in Requests, NEW u \in Agenda!Editors,
                 Agenda!AttachmentsRouter(s, u) \/ Agenda!EmbedsRouter(s, u)
          PROVE  order' = order
      BY <3>3 DEF Agenda!AttachmentsRouter, Agenda!EmbedsRouter, Agenda!UploadAttachment,
         Agenda!CreateEmbed, Agenda!DeleteMedia, Agenda!Read
    <3>4. ASSUME NEW s \in Requests,
                 \/ Agenda!SaveFile(s) \/ Agenda!Edit(s) \/ Agenda!Approve(s)
                 \/ Agenda!Reject(s) \/ Agenda!ReorderFails(s) \/ Agenda!Stamp(s)
                 \/ Agenda!Abort(s)
          PROVE  order' = order
      BY <3>4 DEF Agenda!SaveFile, Agenda!Edit, Agenda!Approve, Agenda!Reject,
         Agenda!ReorderFails, Agenda!Stamp, Agenda!Abort
    <3>5. PICK s \in Requests : Agenda!Insert(s) \/ Agenda!Reorder(s)
      BY <3>1, <3>2, <3>3, <3>4 DEF Agenda!Next
    <3>. QED  BY <2>1, <2>2, <3>5
  <2>. DEFINE q == req[r]
  <2>4. /\ \A j \in DOMAIN q.wanted :
             /\ q.wanted[j] \in Items
             /\ q.wanted[j] \notin q.changed => q.target[q.wanted[j]] = q.read[q.wanted[j]]
        /\ \A j, k \in DOMAIN q.wanted :
             j < k => q.target[q.wanted[j]] < q.target[q.wanted[k]]
    BY DEF AgendaHolds, InAgenda, Reordering
  <2>5. order' = [i \in Items |-> IF i \in q.changed THEN q.target[i] ELSE order[i]]
    BY <2>3 DEF Agenda!Reorder
  <2>. HIDE DEF q
  <2>6. \A j \in DOMAIN q.wanted :
          q.wanted[j] \in Agenda!Placed(q) => order'[q.wanted[j]] = q.target[q.wanted[j]]
    BY <2>4, <2>5 DEF Agenda!Placed
  <2>7. Agenda!InOrder(q, Agenda!Placed(q))
    BY <2>4, <2>6 DEF Agenda!InOrder
  <2>. QED  BY <2>7 DEF q
<1>. QED  BY <1>1, AgendaAlwaysHolds, PTL DEF RecordsSpec, ReorderAsAsked

-----------------------------------------------------------------------------
(* Accounts.                                                               *)

LEMMA SerialsBounded == MaxSerial \in Nat
BY RecordsAssumption DEF RecordsAssumption, Users!AccountsAssumption

Token   == [n : Nat, recent : BOOLEAN, used : BOOLEAN]
Anybody == Emails \cup {CHOOSE e \in Emails : TRUE}
Any     == Invites \cup {CHOOSE i \in Invites : TRUE}
Resets  == {"mail reset", "store reset", "commit reset", "reset"}
Factors == {"enroll", "confirm", "disable"}
Letters == {"mail invite", "store invite", "mail again", "store again", "accept"}
Places  == {"idle"} \cup Resets \cup Factors \cup Letters
Credential == [row : Nat, verified : BOOLEAN]
Invitation == [state : {"none", "open", "accepted", "deleted"}, email : Anybody, n : Nat]
Session == [pc : Places, u : Nat, n : Nat, i : Any, old : SUBSET Token, email : Anybody]

AccountsTyped ==
  /\ serial \in Nat /\ serial <= MaxSerial
  /\ user \in [Emails -> Nat]
  /\ creds \in [Users!Ids -> Credential]
  /\ codes \in [Users!Ids -> SUBSET Nat]
  /\ tokens \in [Users!Ids -> SUBSET Token]
  /\ invite \in [Invites -> Invitation]
  /\ made \in [Invites -> SUBSET Nat]
  /\ mailed \in SUBSET Nat /\ linked \in SUBSET Nat
  /\ session \in [Requests -> Session]

(* What a request has in hand at each of its steps.                        *)
InHand(t, sent, invites) ==
  /\ t.pc \in Resets \cup Factors => t.u \in Users!Ids
  /\ t.pc \in {"store reset", "commit reset", "store invite", "store again"} => t.n \in sent
  /\ t.pc \in {"mail invite", "store invite", "accept"} => t.email \in Emails
  /\ t.pc \in Letters => t.i \in Invites
  /\ t.pc = "accept" => invites[t.i].state # "none"

(* An account has one address, and its number is one given already.        *)
OneAddress == /\ \A e \in Emails : user[e] <= serial
              /\ \A e, f \in Emails : user[e] = user[f] /\ user[e] # 0 => e = f
              /\ \A u \in linked : u <= serial /\ u # 0

OpenInvited == \A i \in Invites : invite[i].state = "open" => invite[i].email \in Emails

AccountsInv == /\ AccountsTyped /\ OneAddress /\ OpenInvited
               /\ \A r \in Requests : InHand(session[r], mailed, invite)
               /\ Users!AccountsHold

(* Which actions write which rows.                                         *)
LEMMA WriteAccounts == ASSUME Users!Next PROVE
  \/ UNCHANGED <<user, linked, tokens>>
  \/ \E e \in Emails : Users!CreateUser(e) \/ Users!DeleteUser(e)
  \/ \E e, f \in Emails : Users!UpdateEmail(e, f)
  \/ \E r \in Requests : Users!AcceptInvite(r) \/ Users!StoreReset(r) \/ Users!ConfirmReset(r)
  \/ \E u \in Users!Ids : Users!Age(u)
<1>1. ASSUME NEW r \in Requests, Users!Reset(r)
      PROVE  UNCHANGED <<user, linked, tokens>> \/ Users!StoreReset(r) \/ Users!ConfirmReset(r)
  BY <1>1 DEF Users!Reset, Users!MailReset, Users!DeletePrior, Users!StoreResetFails,
              Users!ConfirmResetFails, Users!RequestReset, Users!ReadToken, Users!Fails, Users!rows
<1>2. ASSUME NEW r \in Requests, Users!Invite(r)
      PROVE  UNCHANGED <<user, linked, tokens>> \/ Users!AcceptInvite(r)
  BY <1>2 DEF Users!Invite, Users!MailInvite, Users!StoreInvite, Users!MailAgain,
              Users!StoreAgain, Users!StoreAgainFails, Users!AcceptFails, Users!ResendInvite,
              Users!CheckInvite, Users!CreateInvite, Users!Fails, Users!rows
<1>3. ASSUME NEW r \in Requests, Users!Totp(r) \/ Users!MailFails(r)
      PROVE  UNCHANGED <<user, linked, tokens>>
  BY <1>3 DEF Users!Totp, Users!MailFails, Users!Enrolled, Users!EnrollFails, Users!ConfirmTotp,
              Users!ConfirmFails, Users!Disabled, Users!EnrollTotp, Users!ReadCredential,
              Users!DisableTotp, Users!Fails, Users!rows
<1>4. ASSUME NEW i \in Invites, Users!CancelInvite(i)
      PROVE  UNCHANGED <<user, linked, tokens>>
  BY <1>4 DEF Users!CancelInvite
<1> QED
  BY <1>1, <1>2, <1>3, <1>4 DEF Users!Next

LEMMA WriteFactors == ASSUME Users!Next PROVE
  \/ UNCHANGED <<creds, codes>>
  \/ \E e \in Emails : Users!DeleteUser(e)
  \/ \E r \in Requests : Users!Enrolled(r) \/ Users!ConfirmTotp(r) \/ Users!Disabled(r)
<1>1. ASSUME NEW r \in Requests, Users!Reset(r)
      PROVE  UNCHANGED <<creds, codes>>
  BY <1>1 DEF Users!Reset, Users!MailReset, Users!DeletePrior, Users!StoreReset,
              Users!StoreResetFails, Users!ConfirmReset, Users!ConfirmResetFails,
              Users!RequestReset, Users!ReadToken, Users!Fails, Users!rows
<1>2. ASSUME NEW r \in Requests, Users!Invite(r) \/ Users!MailFails(r)
      PROVE  UNCHANGED <<creds, codes>>
  BY <1>2 DEF Users!Invite, Users!MailInvite, Users!StoreInvite, Users!MailAgain,
              Users!StoreAgain, Users!StoreAgainFails, Users!AcceptInvite, Users!AcceptFails,
              Users!ResendInvite, Users!CheckInvite, Users!CreateInvite, Users!MailFails,
              Users!Fails, Users!rows
<1>3. ASSUME NEW r \in Requests, Users!Totp(r)
      PROVE  \/ UNCHANGED <<creds, codes>>
             \/ Users!Enrolled(r) \/ Users!ConfirmTotp(r) \/ Users!Disabled(r)
  BY <1>3 DEF Users!Totp, Users!EnrollFails, Users!ConfirmFails, Users!EnrollTotp,
              Users!ReadCredential, Users!DisableTotp, Users!Fails, Users!rows
<1>4. ASSUME NEW e \in Emails, Users!CreateUser(e) \/ \E f \in Emails : Users!UpdateEmail(e, f)
      PROVE  UNCHANGED <<creds, codes>>
  BY <1>4 DEF Users!CreateUser, Users!UpdateEmail
<1>5. ASSUME (\E i \in Invites : Users!CancelInvite(i)) \/ (\E u \in Users!Ids : Users!Age(u))
      PROVE  UNCHANGED <<creds, codes>>
  BY <1>5 DEF Users!CancelInvite, Users!Age
<1> QED
  BY <1>1, <1>2, <1>3, <1>4, <1>5 DEF Users!Next

LEMMA WriteInvites == ASSUME Users!Next PROVE
  \/ UNCHANGED <<invite, made>>
  \/ \E r \in Requests : Users!StoreInvite(r) \/ Users!StoreAgain(r) \/ Users!AcceptInvite(r)
  \/ \E i \in Invites : Users!CancelInvite(i)
<1>1. ASSUME NEW r \in Requests, Users!Reset(r)
      PROVE  UNCHANGED <<invite, made>>
  BY <1>1 DEF Users!Reset, Users!MailReset, Users!DeletePrior, Users!StoreReset,
              Users!StoreResetFails, Users!ConfirmReset, Users!ConfirmResetFails,
              Users!RequestReset, Users!ReadToken, Users!Fails, Users!rows
<1>2. ASSUME NEW r \in Requests, Users!Invite(r)
      PROVE  \/ UNCHANGED <<invite, made>>
             \/ Users!StoreInvite(r) \/ Users!StoreAgain(r) \/ Users!AcceptInvite(r)
  BY <1>2 DEF Users!Invite, Users!MailInvite, Users!MailAgain, Users!StoreAgainFails,
              Users!AcceptFails, Users!ResendInvite, Users!CheckInvite, Users!CreateInvite,
              Users!Fails, Users!rows
<1>3. ASSUME NEW r \in Requests, Users!Totp(r) \/ Users!MailFails(r)
      PROVE  UNCHANGED <<invite, made>>
  BY <1>3 DEF Users!Totp, Users!MailFails, Users!Enrolled, Users!EnrollFails, Users!ConfirmTotp,
              Users!ConfirmFails, Users!Disabled, Users!EnrollTotp, Users!ReadCredential,
              Users!DisableTotp, Users!Fails, Users!rows
<1>4. ASSUME NEW e \in Emails, \/ Users!CreateUser(e) \/ Users!DeleteUser(e)
                              \/ \E f \in Emails : Users!UpdateEmail(e, f)
      PROVE  UNCHANGED <<invite, made>>
  BY <1>4 DEF Users!CreateUser, Users!DeleteUser, Users!UpdateEmail
<1>5. ASSUME NEW u \in Users!Ids, Users!Age(u)
      PROVE  UNCHANGED <<invite, made>>
  BY <1>5 DEF Users!Age
<1> QED
  BY <1>1, <1>2, <1>3, <1>4, <1>5 DEF Users!Next

(* The serial number and the record of what was mailed only grow.          *)
LEMMA HistoryGrows == ASSUME AccountsTyped, Users!Next PROVE
  /\ serial' \in Nat /\ serial <= serial' /\ serial' <= MaxSerial
  /\ mailed \subseteq mailed'
  /\ \/ mailed' = mailed
     \/ \E r \in Requests : mailed' = mailed \cup {session[r].n}
<1>1. \/ UNCHANGED mailed
      \/ \E r \in Requests : Users!MailReset(r) \/ Users!MailInvite(r) \/ Users!MailAgain(r)
  BY ZenonT(40) DEF Users!Next, Users!Reset, Users!Invite, Users!Totp, Users!Fails, Users!rows,
         Users!CreateUser, Users!DeleteUser, Users!UpdateEmail, Users!DeletePrior,
         Users!StoreReset, Users!StoreResetFails, Users!ConfirmReset, Users!ConfirmResetFails,
         Users!StoreInvite, Users!StoreAgain, Users!StoreAgainFails, Users!AcceptInvite,
         Users!AcceptFails, Users!Enrolled, Users!EnrollFails, Users!ConfirmTotp,
         Users!ConfirmFails, Users!Disabled, Users!MailFails, Users!RequestReset, Users!ReadToken,
         Users!ResendInvite, Users!CheckInvite, Users!CreateInvite, Users!EnrollTotp,
         Users!ReadCredential, Users!DisableTotp, Users!CancelInvite, Users!Age
<1>2. mailed' = mailed \/ \E r \in Requests : mailed' = mailed \cup {session[r].n}
  BY <1>1 DEF Users!MailReset, Users!MailInvite, Users!MailAgain
<1>3. UNCHANGED serial \/ Users!Fresh
  BY ZenonT(40) DEF Users!Next, Users!Reset, Users!Invite, Users!Totp, Users!Fails, Users!rows,
         Users!CreateUser, Users!DeleteUser, Users!UpdateEmail, Users!MailReset,
         Users!DeletePrior, Users!StoreReset, Users!StoreResetFails, Users!ConfirmReset,
         Users!ConfirmResetFails, Users!MailInvite, Users!StoreInvite, Users!MailAgain,
         Users!StoreAgain, Users!StoreAgainFails, Users!AcceptInvite, Users!AcceptFails,
         Users!Enrolled, Users!EnrollFails, Users!ConfirmTotp, Users!ConfirmFails, Users!Disabled,
         Users!MailFails, Users!RequestReset, Users!ReadToken, Users!ResendInvite,
         Users!CheckInvite, Users!CreateInvite, Users!EnrollTotp, Users!ReadCredential,
         Users!DisableTotp, Users!CancelInvite, Users!Age
<1>4. serial' \in Nat /\ serial <= serial' /\ serial' <= MaxSerial
  BY <1>3, SerialsBounded DEF AccountsTyped, Users!Fresh
<1> QED
  BY <1>2, <1>4

(* Users, their links and their tokens.                                    *)
LinkTyped == /\ user' \in [Emails -> Nat] /\ linked' \in SUBSET Nat
             /\ tokens' \in [Users!Ids -> SUBSET Token]
             /\ \A u \in Users!Ids : \A k \in tokens'[u] : k.n \in mailed'

LEMMA LinkStep ==
  ASSUME AccountsInv, Users!Next
  PROVE  LinkTyped /\ OneAddress' /\ Users!LinkWorks'
<1> DEFINE Goal == LinkTyped /\ OneAddress' /\ Users!LinkWorks'
<1>t. /\ user \in [Emails -> Nat] /\ linked \in SUBSET Nat
      /\ tokens \in [Users!Ids -> SUBSET Token] /\ serial \in Nat
      /\ OneAddress /\ Users!LinkWorks
      /\ \A u \in Users!Ids : \A k \in tokens[u] : k.n \in mailed
  BY DEF AccountsInv, AccountsTyped, Users!AccountsHold, Users!StoredWasMailed
<1>s. /\ serial' \in Nat /\ serial <= serial' /\ serial' <= MaxSerial
      /\ mailed \subseteq mailed'
  BY HistoryGrows DEF AccountsInv
<1>i. Users!Ids \subseteq Nat /\ MaxSerial \in Nat
  BY SerialsBounded DEF Users!Ids
<1>1. CASE UNCHANGED <<user, linked, tokens>>
  <2>1. OneAddress'
    BY <1>1, <1>t, <1>s DEF OneAddress
  <2>2. LinkTyped /\ Users!LinkWorks'
    BY <1>1, <1>t, <1>s DEF LinkTyped, Users!LinkWorks, Users!Live
  <2> QED
    BY <2>1, <2>2
<1>2. ASSUME NEW e \in Emails, Users!CreateUser(e)
      PROVE  Goal
  <2>1. /\ user[e] = 0 /\ serial' = serial + 1 /\ user' = [user EXCEPT ![e] = serial']
        /\ UNCHANGED <<linked, tokens>>
    BY <1>2 DEF Users!CreateUser, Users!Fresh, Users!None
  <2>2. LinkTyped
    BY <2>1, <1>t, <1>s DEF LinkTyped
  <2>3. OneAddress'
    BY <2>1, <1>t, <1>s DEF OneAddress
  <2>4. ASSUME NEW u \in linked, Users!Live(u)' PROVE Users!Live(u)
    <3>1. u # serial'
      BY <2>1, <1>t DEF OneAddress
    <3> QED
      BY <2>1, <2>4, <3>1, <1>t DEF Users!Live
  <2> QED
    BY <2>1, <2>2, <2>3, <2>4, <1>t DEF Users!LinkWorks
<1>3. ASSUME NEW e \in Emails, Users!DeleteUser(e)
      PROVE  Goal
  <2>1. /\ user[e] # 0 /\ user' = [user EXCEPT ![e] = 0] /\ UNCHANGED <<linked, serial>>
        /\ tokens' = [tokens EXCEPT ![user[e]] = {}]
    BY <1>3 DEF Users!DeleteUser, Users!None
  <2>2. LinkTyped
    BY <2>1, <1>t, <1>s DEF LinkTyped
  <2>3. OneAddress'
    BY <2>1, <1>t, <1>s DEF OneAddress
  <2>4. ASSUME NEW u \in linked, Users!Live(u)' PROVE Users!Live(u) /\ u # user[e]
    <3>1. u # 0
      BY <1>t DEF OneAddress
    <3>2. PICK f \in Emails : user'[f] = u
      BY <2>4 DEF Users!Live
    <3>3. f # e /\ user[f] = u
      BY <2>1, <3>1, <3>2, <1>t
    <3> QED
      BY <2>1, <3>3, <1>t DEF Users!Live, OneAddress
  <2>5. ASSUME NEW u \in linked, u # user[e] PROVE tokens'[u] = tokens[u]
    BY <2>1, <2>5, <1>t, <1>i DEF OneAddress, Users!Ids
  <2> QED
    BY <2>1, <2>2, <2>3, <2>4, <2>5, <1>t DEF Users!LinkWorks
<1>4. ASSUME NEW e \in Emails, NEW f \in Emails, Users!UpdateEmail(e, f)
      PROVE  Goal
  <2>1. /\ user[e] # 0 /\ user[f] = 0 /\ UNCHANGED <<linked, serial, tokens>>
        /\ user' = [user EXCEPT ![e] = 0, ![f] = user[e]]
    BY <1>4 DEF Users!UpdateEmail, Users!None
  <2>2. LinkTyped
    BY <2>1, <1>t, <1>s DEF LinkTyped
  <2>3. OneAddress'
    BY <2>1, <1>t, <1>s DEF OneAddress
  <2>4. ASSUME NEW u \in linked, Users!Live(u)' PROVE Users!Live(u)
    BY <2>1, <2>4, <1>t DEF Users!Live, OneAddress
  <2> QED
    BY <2>1, <2>2, <2>3, <2>4, <1>t DEF Users!LinkWorks
<1>5. ASSUME NEW r \in Requests, Users!AcceptInvite(r)
      PROVE  Goal
  <2> DEFINE e == session[r].email
  <2>1. /\ user[e] = 0 /\ serial' = serial + 1 /\ user' = [user EXCEPT ![e] = serial']
        /\ UNCHANGED <<linked, tokens>>
    BY <1>5 DEF Users!AcceptInvite, Users!Acceptable, Users!Fresh, Users!None
  <2>2. LinkTyped
    BY <2>1, <1>t, <1>s DEF LinkTyped
  <2>3. OneAddress'
    BY <2>1, <1>t, <1>s DEF OneAddress
  <2>4. ASSUME NEW u \in linked, Users!Live(u)' PROVE Users!Live(u)
    <3>1. u # serial'
      BY <2>1, <1>t DEF OneAddress
    <3> QED
      BY <2>1, <2>4, <3>1, <1>t DEF Users!Live
  <2> QED
    BY <2>1, <2>2, <2>3, <2>4, <1>t DEF Users!LinkWorks
<1>6. ASSUME NEW r \in Requests, Users!StoreReset(r)
      PROVE  Goal
  <2> DEFINE u == session[r].u
             k == [n |-> session[r].n, recent |-> TRUE, used |-> FALSE]
  <2>1. /\ tokens' = [tokens EXCEPT ![u] = (@ \ session[r].old) \cup {k}]
        /\ linked' = linked \cup {u} /\ Users!Live(u) /\ UNCHANGED <<user, serial>>
    BY <1>6 DEF Users!StoreReset
  <2>2. u \in Users!Ids /\ u \in Nat /\ u # 0 /\ k \in Token /\ session[r].n \in mailed
    <3>1. /\ session[r].pc = "commit reset" /\ session[r] \in Session
          /\ InHand(session[r], mailed, invite)
      BY <1>6 DEF Users!StoreReset, AccountsInv, AccountsTyped
    <3>2. u \in Users!Ids /\ session[r].n \in mailed
      BY <3>1 DEF InHand, Resets
    <3>3. session[r].n \in Nat
      BY <3>1 DEF Session
    <3> QED
      BY <3>2, <3>3, <1>i DEF Token, Users!Ids
  <2>3. LinkTyped
    <3>1. tokens' \in [Users!Ids -> SUBSET Token]
      BY <2>1, <2>2, <1>t
    <3>2. ASSUME NEW v \in Users!Ids, NEW x \in tokens'[v] PROVE x.n \in mailed'
      <4>1. x \in tokens[v] \/ x = k
        BY <2>1, <2>2, <1>t
      <4> QED
        BY <4>1, <2>2, <1>t, <1>s
    <3> QED
      BY <2>1, <2>2, <3>1, <3>2, <1>t DEF LinkTyped
  <2>4. OneAddress'
    <3>1. u <= serial
      BY <2>1, <1>t DEF Users!Live, OneAddress
    <3> QED
      BY <2>1, <2>2, <3>1, <1>t DEF OneAddress
  <2>5. ASSUME NEW v \in linked', Users!Live(v)' PROVE \E x \in tokens'[v] : ~x.used
    <3>1. CASE v = u
      <4>1. k \in tokens'[u] /\ ~k.used
        BY <2>1, <2>2, <1>t
      <4> QED
        BY <3>1, <4>1
    <3>2. CASE v # u
      <4>1. v \in linked /\ Users!Live(v) /\ tokens'[v] = tokens[v]
        <5>1. v \in Users!Ids
          BY <2>1, <3>2, <1>t, <1>i, <1>s DEF OneAddress, Users!Ids
        <5> QED
          BY <2>1, <2>5, <3>2, <5>1, <1>t DEF Users!Live
      <4> QED
        BY <4>1, <1>t DEF Users!LinkWorks
    <3> QED
      BY <3>1, <3>2
  <2> QED
    BY <2>3, <2>4, <2>5 DEF Users!LinkWorks
<1>7. ASSUME NEW r \in Requests, Users!ConfirmReset(r)
      PROVE  Goal
  <2> DEFINE u == session[r].u
             Used == {[k EXCEPT !.used = TRUE] : k \in Users!Mine(r)}
  <2>1. /\ tokens' = [tokens EXCEPT ![u] = (@ \ Users!Mine(r)) \cup Used]
        /\ linked' = linked \ {u} /\ UNCHANGED <<user, serial>>
    BY <1>7 DEF Users!ConfirmReset
  <2>2. u \in Users!Ids
    <3>1. session[r].pc = "reset" /\ InHand(session[r], mailed, invite)
      BY <1>7 DEF Users!ConfirmReset, AccountsInv
    <3> QED
      BY <3>1 DEF InHand, Resets
  <2>3. ASSUME NEW x \in Used PROVE x \in Token /\ x.n \in mailed
    <3>1. PICK k \in Users!Mine(r) : x = [k EXCEPT !.used = TRUE]
      OBVIOUS
    <3>2. k \in tokens[u] /\ k \in Token
      BY <2>2, <1>t DEF Users!Mine
    <3>3. k.n \in mailed
      BY <2>2, <3>2, <1>t
    <3> QED
      BY <3>1, <3>2, <3>3 DEF Token
  <2>4. LinkTyped
    <3>1. tokens' \in [Users!Ids -> SUBSET Token]
      BY <2>1, <2>2, <2>3, <1>t
    <3>2. ASSUME NEW v \in Users!Ids, NEW x \in tokens'[v] PROVE x.n \in mailed'
      <4>1. x \in tokens[v] \/ x \in Used
        BY <2>1, <2>2, <1>t
      <4> QED
        BY <4>1, <2>3, <1>t, <1>s
    <3> QED
      BY <2>1, <3>1, <3>2, <1>t DEF LinkTyped
  <2>5. OneAddress'
    BY <2>1, <1>t DEF OneAddress
  <2>6. ASSUME NEW v \in linked', Users!Live(v)' PROVE \E x \in tokens'[v] : ~x.used
    <3>1. v \in linked /\ Users!Live(v) /\ v # u
      BY <2>1, <2>6 DEF Users!Live
    <3>2. v \in Users!Ids
      BY <3>1, <2>1, <1>t, <1>i, <1>s DEF OneAddress, Users!Ids
    <3>3. tokens'[v] = tokens[v]
      BY <2>1, <3>1, <3>2, <1>t
    <3> QED
      BY <3>1, <3>3, <1>t DEF Users!LinkWorks
  <2> QED
    BY <2>4, <2>5, <2>6 DEF Users!LinkWorks
<1>8. ASSUME NEW u \in Users!Ids, Users!Age(u)
      PROVE  Goal
  <2> DEFINE Aged == {[k EXCEPT !.recent = FALSE] : k \in tokens[u]}
  <2>1. tokens' = [tokens EXCEPT ![u] = Aged] /\ UNCHANGED <<user, linked, serial>>
    BY <1>8 DEF Users!Age
  <2>2. ASSUME NEW x \in Aged PROVE x \in Token /\ x.n \in mailed
    <3>1. PICK k \in tokens[u] : x = [k EXCEPT !.recent = FALSE]
      OBVIOUS
    <3>2. k \in Token /\ k.n \in mailed
      BY <1>t
    <3> QED
      BY <3>1, <3>2 DEF Token
  <2>3. LinkTyped
    <3>1. tokens' \in [Users!Ids -> SUBSET Token]
      BY <2>1, <2>2, <1>t
    <3>2. ASSUME NEW v \in Users!Ids, NEW x \in tokens'[v] PROVE x.n \in mailed'
      BY <2>1, <2>2, <1>t, <1>s
    <3> QED
      BY <2>1, <3>1, <3>2, <1>t DEF LinkTyped
  <2>4. OneAddress'
    BY <2>1, <1>t DEF OneAddress
  <2>5. ASSUME NEW v \in linked', Users!Live(v)' PROVE \E x \in tokens'[v] : ~x.used
    <3>1. PICK k \in tokens[v] : ~k.used
      BY <2>1, <2>5, <1>t DEF Users!LinkWorks, Users!Live
    <3>2. v \in Users!Ids
      BY <2>1, <1>t, <1>i, <1>s DEF OneAddress, Users!Ids
    <3>3. CASE v = u
      <4> DEFINE x == [k EXCEPT !.recent = FALSE]
      <4>1. k \in Token /\ x \in tokens'[v]
        BY <2>1, <3>1, <3>3, <1>t
      <4>2. ~x.used
        BY <3>1, <4>1 DEF Token
      <4> QED
        BY <4>1, <4>2
    <3>4. CASE v # u
      BY <2>1, <3>1, <3>2, <3>4, <1>t
    <3> QED
      BY <3>3, <3>4
  <2> QED
    BY <2>3, <2>4, <2>5 DEF Users!LinkWorks
<1> QED
  BY WriteAccounts, <1>1, <1>2, <1>3, <1>4, <1>5, <1>6, <1>7, <1>8

(* The credentials and their recovery codes.                               *)
LEMMA FactorStep ==
  ASSUME AccountsInv, Users!Next
  PROVE  /\ creds' \in [Users!Ids -> Credential] /\ codes' \in [Users!Ids -> SUBSET Nat]
         /\ Users!CodesHaveCredential'
<1> DEFINE Goal == /\ creds' \in [Users!Ids -> Credential]
                   /\ codes' \in [Users!Ids -> SUBSET Nat]
                   /\ Users!CodesHaveCredential'
<1>t. /\ creds \in [Users!Ids -> Credential] /\ codes \in [Users!Ids -> SUBSET Nat]
      /\ Users!CodesHaveCredential
  BY DEF AccountsInv, AccountsTyped, Users!AccountsHold
<1>n. Users!NoCred \in Credential
  BY DEF Users!NoCred, Users!None, Credential
<1>u. ASSUME NEW r \in Requests, session[r].pc \in Factors
      PROVE  session[r].u \in Users!Ids /\ session[r].n \in Nat
  BY <1>u DEF AccountsInv, AccountsTyped, InHand, Session
<1>1. CASE UNCHANGED <<creds, codes>>
  BY <1>1, <1>t DEF Users!CodesHaveCredential
<1>2. ASSUME NEW e \in Emails, Users!DeleteUser(e)
      PROVE  Goal
  <2>1. /\ creds' = [creds EXCEPT ![user[e]] = Users!NoCred]
        /\ codes' = [codes EXCEPT ![user[e]] = {}]
    BY <1>2 DEF Users!DeleteUser
  <2> QED
    BY <2>1, <1>t, <1>n DEF Users!CodesHaveCredential
<1>3. ASSUME NEW r \in Requests, Users!Enrolled(r)
      PROVE  Goal
  <2> DEFINE u == session[r].u
             c == [row |-> serial', verified |-> FALSE]
  <2>1. creds' = [creds EXCEPT ![u] = c] /\ codes' = [codes EXCEPT ![u] = {}]
    BY <1>3 DEF Users!Enrolled
  <2>2. c \in Credential
    BY HistoryGrows DEF AccountsInv, Credential
  <2> QED
    BY <2>1, <2>2, <1>t DEF Users!CodesHaveCredential
<1>4. ASSUME NEW r \in Requests, Users!ConfirmTotp(r)
      PROVE  Goal
  <2> DEFINE u == session[r].u
             c == [creds[u] EXCEPT !.verified = TRUE]
  <2>1. u \in Users!Ids /\ session[r].n \in Nat /\ creds[u].row = session[r].n
    BY <1>4, <1>u DEF Users!ConfirmTotp, Factors
  <2>2. creds' = [creds EXCEPT ![u] = c] /\ codes' = [codes EXCEPT ![u] = @ \cup {session[r].n}]
    BY <1>4 DEF Users!ConfirmTotp
  <2>3. c \in Credential /\ c.verified /\ c.row = creds[u].row
    BY <2>1, <1>t DEF Credential
  <2>4. creds' \in [Users!Ids -> Credential] /\ codes' \in [Users!Ids -> SUBSET Nat]
    BY <2>1, <2>2, <2>3, <1>t
  <2>5. ASSUME NEW v \in Users!Ids, codes'[v] # {}
        PROVE  creds'[v].verified /\ codes'[v] = {creds'[v].row}
    BY <2>1, <2>2, <2>3, <2>5, <1>t DEF Users!CodesHaveCredential
  <2> QED
    BY <2>4, <2>5 DEF Users!CodesHaveCredential
<1>5. ASSUME NEW r \in Requests, Users!Disabled(r)
      PROVE  Goal
  <2> DEFINE u == session[r].u
  <2>1. session[r].pc = "disable"
    BY <1>5 DEF Users!Disabled, AccountsInv, AccountsTyped, Session, Places, Resets, Factors,
                Letters
  <2>2. /\ creds' = creds \/ creds' = [creds EXCEPT ![u] = Users!NoCred]
        /\ codes' = [codes EXCEPT ![u] = {}]
    BY <1>5, <2>1 DEF Users!Disabled
  <2> QED
    BY <2>2, <1>t, <1>n DEF Users!CodesHaveCredential
<1> QED
  BY WriteFactors, <1>1, <1>2, <1>3, <1>4, <1>5

(* The invites, and the users made from them.                              *)
InvitesKept == /\ invite' \in [Invites -> Invitation] /\ made' \in [Invites -> SUBSET Nat]
               /\ \A i \in Invites : invite[i].state # "none" => invite'[i].state # "none"
               /\ \A i \in Invites : invite'[i].state \in {"open", "accepted"}
                                       => invite'[i].n \in mailed'

LEMMA InviteStep ==
  ASSUME AccountsInv, Users!Next
  PROVE  InvitesKept /\ OpenInvited' /\ Users!AcceptedMadeUser'
<1> DEFINE Goal == InvitesKept /\ OpenInvited' /\ Users!AcceptedMadeUser'
<1>t. /\ invite \in [Invites -> Invitation] /\ made \in [Invites -> SUBSET Nat]
      /\ \A i \in Invites : invite[i].state \in {"open", "accepted"} => invite[i].n \in mailed
      /\ OpenInvited /\ Users!AcceptedMadeUser
  BY DEF AccountsInv, AccountsTyped, Users!AccountsHold, Users!StoredWasMailed
<1>s. serial' \in Nat /\ mailed \subseteq mailed'
  BY HistoryGrows DEF AccountsInv
<1>i. ASSUME NEW r \in Requests PROVE InHand(session[r], mailed, invite) /\ session[r] \in Session
  BY DEF AccountsInv, AccountsTyped
<1>1. CASE UNCHANGED <<invite, made>>
  BY <1>1, <1>t, <1>s DEF InvitesKept, OpenInvited, Users!AcceptedMadeUser
<1>2. ASSUME NEW r \in Requests, Users!StoreInvite(r)
      PROVE  Goal
  <2> DEFINE s == session[r]
             letter == [state |-> "open", email |-> s.email, n |-> s.n]
  <2>1. s.pc = "store invite" /\ invite' = [invite EXCEPT ![s.i] = letter] /\ UNCHANGED made
    BY <1>2 DEF Users!StoreInvite
  <2>2. s.email \in Emails /\ s.n \in mailed /\ s.n \in Nat
    BY <2>1, <1>i DEF InHand, Session
  <2>3. letter \in Invitation
    BY <2>2 DEF Invitation, Anybody
  <2> QED
    BY <2>1, <2>2, <2>3, <1>t, <1>s DEF InvitesKept, OpenInvited, Users!AcceptedMadeUser
<1>3. ASSUME NEW r \in Requests, Users!StoreAgain(r)
      PROVE  Goal
  <2> DEFINE s == session[r]
             letter == [invite[s.i] EXCEPT !.n = s.n]
  <2>1. s.pc = "store again" /\ invite' = [invite EXCEPT ![s.i] = letter] /\ UNCHANGED made
    BY <1>3 DEF Users!StoreAgain
  <2>2. s.i \in Invites /\ s.n \in mailed /\ s.n \in Nat
    BY <2>1, <1>i DEF InHand, Session, Letters
  <2>3. /\ letter \in Invitation /\ letter.state = invite[s.i].state /\ letter.n = s.n
        /\ letter.email = invite[s.i].email
    BY <2>2, <1>t DEF Invitation
  <2> QED
    BY <2>1, <2>2, <2>3, <1>t, <1>s DEF InvitesKept, OpenInvited, Users!AcceptedMadeUser
<1>4. ASSUME NEW r \in Requests, Users!AcceptInvite(r)
      PROVE  Goal
  <2> DEFINE s == session[r]
             letter == [invite[s.i] EXCEPT !.state = "accepted"]
  <2>1. /\ s.pc = "accept" /\ invite[s.i].state # "deleted"
        /\ invite' = [invite EXCEPT ![s.i] = letter]
        /\ made' = [made EXCEPT ![s.i] = @ \cup {serial'}]
    BY <1>4 DEF Users!AcceptInvite, Users!Acceptable
  <2>2. s.i \in Invites /\ invite[s.i].state # "none"
    BY <2>1, <1>i DEF InHand, Letters
  <2>3. /\ letter \in Invitation /\ letter.state = "accepted" /\ letter.n = invite[s.i].n
        /\ invite[s.i].n \in mailed
    BY <2>1, <2>2, <1>t DEF Invitation
  <2>4. InvitesKept
    BY <2>1, <2>2, <2>3, <1>t, <1>s DEF InvitesKept
  <2>5. OpenInvited'
    BY <2>1, <2>2, <2>3, <1>t DEF OpenInvited
  <2>6. Users!AcceptedMadeUser'
    BY <2>1, <2>2, <2>3, <1>t DEF Users!AcceptedMadeUser
  <2> QED
    BY <2>4, <2>5, <2>6
<1>5. ASSUME NEW i \in Invites, Users!CancelInvite(i)
      PROVE  Goal
  <2> DEFINE letter == [invite[i] EXCEPT !.state = "deleted"]
  <2>1. invite' = [invite EXCEPT ![i] = letter] /\ UNCHANGED made
    BY <1>5 DEF Users!CancelInvite
  <2>2. letter \in Invitation /\ letter.state = "deleted"
    BY <1>t DEF Invitation
  <2> QED
    BY <2>1, <2>2, <1>t, <1>s DEF InvitesKept, OpenInvited, Users!AcceptedMadeUser
<1> QED
  BY WriteInvites, <1>1, <1>2, <1>3, <1>4, <1>5

(* What a request does next: a session again, with what its step needs.    *)
LEMMA IdleSession == Users!Idle \in Session /\ Users!Idle.pc = "idle"
  BY DEF Users!Idle, Users!None, Session, Places, Any, Anybody

Sound(t) == t \in Session /\ InHand(t, mailed', invite')

LEMMA SessionMoves ==
  ASSUME AccountsInv, Users!Next
  PROVE  \/ session' = session
         \/ \E r \in Requests, t \in Session : session' = [session EXCEPT ![r] = t] /\ Sound(t)
<1> DEFINE Goal == \E r \in Requests, t \in Session :
                     session' = [session EXCEPT ![r] = t] /\ Sound(t)
<1>s. serial' \in Nat /\ mailed \subseteq mailed'
  BY HistoryGrows DEF AccountsInv
<1>t. /\ user \in [Emails -> Nat] /\ tokens \in [Users!Ids -> SUBSET Token]
      /\ creds \in [Users!Ids -> Credential] /\ invite \in [Invites -> Invitation]
  BY DEF AccountsInv, AccountsTyped
<1>k. \A i \in Invites : invite[i].state # "none" => invite'[i].state # "none"
  BY InviteStep DEF InvitesKept
<1>i. ASSUME NEW r \in Requests PROVE InHand(session[r], mailed, invite) /\ session[r] \in Session
  BY DEF AccountsInv, AccountsTyped
<1>n. Users!Ids \subseteq Nat
  BY SerialsBounded DEF Users!Ids
<1>x. Sound(Users!Idle)
  BY IdleSession DEF Session, Sound, InHand, Resets, Factors, Letters
<1>e. ASSUME NEW r \in Requests, Users!End(r) PROVE Goal
  BY <1>e, <1>x, IdleSession DEF Session, Users!End, Users!Set
<1>g. ASSUME NEW r \in Requests, NEW t \in Session, InHand(t, mailed', invite'),
             Users!Set(r, t)
      PROVE  Goal
  BY <1>g DEF Users!Set, Sound
<1>1. ASSUME NEW r \in Requests, Users!Reset(r) PROVE Goal
  <2> DEFINE s == session[r]
  <2>1. CASE Users!MailReset(r)
    <3> DEFINE t == [s EXCEPT !.pc = "store reset"]
    <3>1. /\ s.pc = "mail reset" /\ Users!Set(r, t) /\ s.n \in mailed'
      BY <2>1 DEF Users!MailReset
    <3>2. t \in Session /\ t.pc = "store reset" /\ t.u = s.u /\ t.n = s.n
      BY <1>i DEF Session, Places, Resets
    <3>3. s.u \in Users!Ids
      BY <3>1, <1>i DEF InHand, Resets
    <3>4. InHand(t, mailed', invite')
      BY <3>1, <3>2, <3>3 DEF InHand, Letters, Users!Ids
    <3> QED
      BY <3>1, <3>2, <3>4, <1>g
  <2>2. CASE Users!DeletePrior(r)
    <3> DEFINE t == [s EXCEPT !.pc = "commit reset", !.old = tokens[s.u]]
    <3>1. /\ s.pc = "store reset" /\ Users!Set(r, t)
      BY <2>2 DEF Users!DeletePrior
    <3>2. s.u \in Users!Ids /\ s.n \in mailed
      BY <3>1, <1>i DEF InHand, Resets
    <3>3. t \in Session /\ t.pc = "commit reset" /\ t.u = s.u /\ t.n = s.n
      BY <3>2, <1>t, <1>i DEF Session, Places, Resets
    <3>4. InHand(t, mailed', invite')
      BY <3>2, <3>3, <1>s DEF InHand, Letters, Users!Ids
    <3> QED
      BY <3>1, <3>3, <3>4, <1>g
  <2>3. ASSUME NEW e \in Emails, Users!RequestReset(r, e) PROVE Goal
    <3> DEFINE t == [Users!Idle EXCEPT !.pc = "mail reset", !.u = user[e], !.n = serial']
    <3>1. user[e] # 0 /\ Users!Set(r, t)
      BY <2>3 DEF Users!RequestReset, Users!Begin, Users!None
    <3>2. user[e] \in Users!Ids
      BY <3>1, <1>t, SerialsBounded DEF AccountsInv, AccountsTyped, OneAddress, Users!Ids
    <3>3. t \in Session /\ t.pc = "mail reset" /\ t.u = user[e]
      BY <1>t, <1>s, IdleSession DEF Session, Places, Resets
    <3>4. InHand(t, mailed', invite')
      BY <3>2, <3>3 DEF InHand, Letters, Users!Ids
    <3> QED
      BY <3>1, <3>3, <3>4, <1>g
  <2>4. ASSUME NEW u \in Users!Ids, NEW k \in tokens[u], Users!ReadToken(r, u, k) PROVE Goal
    <3> DEFINE t == [Users!Idle EXCEPT !.pc = "reset", !.u = u, !.n = k.n]
    <3>1. Users!Set(r, t)
      BY <2>4 DEF Users!ReadToken, Users!Begin
    <3>2. k.n \in Nat /\ u \in Nat
      BY <1>t, <1>n DEF Token
    <3>3. t \in Session /\ t.pc = "reset" /\ t.u = u
      BY <3>2, IdleSession DEF Session, Places, Resets
    <3>4. InHand(t, mailed', invite')
      BY <3>3 DEF InHand, Letters, Users!Ids
    <3> QED
      BY <3>1, <3>3, <3>4, <1>g
  <2>5. CASE \/ Users!StoreReset(r) \/ Users!StoreResetFails(r) \/ Users!ConfirmReset(r)
             \/ Users!ConfirmResetFails(r)
    BY <2>5, <1>e DEF Users!StoreReset, Users!StoreResetFails, Users!ConfirmReset,
                      Users!ConfirmResetFails, Users!Fails
  <2> QED
    BY <1>1, <2>1, <2>2, <2>3, <2>4, <2>5 DEF Users!Reset
<1>2. ASSUME NEW r \in Requests, Users!Invite(r) PROVE Goal
  <2> DEFINE s == session[r]
  <2>1. CASE Users!MailInvite(r)
    <3> DEFINE t == [s EXCEPT !.pc = "store invite"]
    <3>1. /\ s.pc = "mail invite" /\ Users!Set(r, t) /\ s.n \in mailed'
      BY <2>1 DEF Users!MailInvite
    <3>2. t \in Session /\ t.pc = "store invite" /\ t.i = s.i /\ t.n = s.n /\ t.email = s.email
      BY <1>i DEF Session, Places, Letters
    <3>3. s.i \in Invites /\ s.email \in Emails
      BY <3>1, <1>i DEF InHand, Letters
    <3>4. InHand(t, mailed', invite')
      BY <3>1, <3>2, <3>3 DEF InHand, Resets, Factors
    <3> QED
      BY <3>1, <3>2, <3>4, <1>g
  <2>2. CASE Users!MailAgain(r)
    <3> DEFINE t == [s EXCEPT !.pc = "store again"]
    <3>1. /\ s.pc = "mail again" /\ Users!Set(r, t) /\ s.n \in mailed'
      BY <2>2 DEF Users!MailAgain
    <3>2. t \in Session /\ t.pc = "store again" /\ t.i = s.i /\ t.n = s.n
      BY <1>i DEF Session, Places, Letters
    <3>3. s.i \in Invites
      BY <3>1, <1>i DEF InHand, Letters
    <3>4. InHand(t, mailed', invite')
      BY <3>1, <3>2, <3>3 DEF InHand, Resets, Factors
    <3> QED
      BY <3>1, <3>2, <3>4, <1>g
  <2>3. ASSUME NEW i \in Invites, Users!ResendInvite(r, i) PROVE Goal
    <3> DEFINE t == [Users!Idle EXCEPT !.pc = "mail again", !.i = i, !.n = serial']
    <3>1. Users!Set(r, t)
      BY <2>3 DEF Users!ResendInvite, Users!Begin
    <3>2. t \in Session /\ t.pc = "mail again" /\ t.i = i
      BY <1>s, IdleSession DEF Session, Any, Places, Letters
    <3>3. InHand(t, mailed', invite')
      BY <3>2 DEF InHand, Resets, Factors
    <3> QED
      BY <3>1, <3>2, <3>3, <1>g
  <2>4. ASSUME NEW i \in Invites, Users!CheckInvite(r, i) PROVE Goal
    <3> DEFINE t == [Users!Idle EXCEPT !.pc = "accept", !.i = i, !.email = invite[i].email]
    <3>1. Users!Set(r, t) /\ invite[i].state = "open"
      BY <2>4 DEF Users!CheckInvite, Users!Begin
    <3>2. invite[i].email \in Emails /\ invite'[i].state # "none"
      BY <3>1, <1>k DEF AccountsInv, OpenInvited
    <3>3. t \in Session /\ t.pc = "accept" /\ t.i = i /\ t.email = invite[i].email
      BY <3>2, IdleSession DEF Session, Any, Anybody, Places, Letters
    <3>4. InHand(t, mailed', invite')
      BY <3>2, <3>3 DEF InHand, Resets, Factors
    <3> QED
      BY <3>1, <3>3, <3>4, <1>g
  <2>5. ASSUME NEW i \in Invites, NEW e \in Emails, Users!CreateInvite(r, i, e) PROVE Goal
    <3> DEFINE t == [Users!Idle EXCEPT !.pc = "mail invite", !.i = i, !.email = e, !.n = serial']
    <3>1. Users!Set(r, t)
      BY <2>5 DEF Users!CreateInvite, Users!Begin
    <3>2. t \in Session /\ t.pc = "mail invite" /\ t.i = i /\ t.email = e
      BY <1>s, IdleSession DEF Session, Any, Anybody, Places, Letters
    <3>3. InHand(t, mailed', invite')
      BY <3>2 DEF InHand, Resets, Factors
    <3> QED
      BY <3>1, <3>2, <3>3, <1>g
  <2>6. CASE \/ Users!StoreInvite(r) \/ Users!StoreAgain(r) \/ Users!StoreAgainFails(r)
             \/ Users!AcceptInvite(r) \/ Users!AcceptFails(r)
    BY <2>6, <1>e DEF Users!StoreInvite, Users!StoreAgain, Users!StoreAgainFails,
                      Users!AcceptInvite, Users!AcceptFails, Users!Fails
  <2> QED
    BY <1>2, <2>1, <2>2, <2>3, <2>4, <2>5, <2>6 DEF Users!Invite
<1>3. ASSUME NEW r \in Requests, Users!Totp(r) PROVE Goal
  <2>1. ASSUME NEW u \in Users!Ids,
               Users!EnrollTotp(r, u) \/ Users!ReadCredential(r, u) \/ Users!DisableTotp(r, u)
        PROVE  Goal
    <3>1. PICK p \in Factors : Users!Set(r, [Users!Idle EXCEPT !.pc = p, !.u = u,
                                                              !.n = creds[u].row])
      BY <2>1 DEF Users!EnrollTotp, Users!ReadCredential, Users!DisableTotp, Users!Begin, Factors
    <3> DEFINE t == [Users!Idle EXCEPT !.pc = p, !.u = u, !.n = creds[u].row]
    <3>2. creds[u].row \in Nat /\ u \in Nat /\ p \in Places
      BY <1>t, <1>n DEF Credential, Places
    <3>3. t \in Session /\ t.pc = p /\ t.u = u
      BY <3>2, IdleSession DEF Session
    <3>4. InHand(t, mailed', invite')
      BY <3>3 DEF InHand, Letters, Factors, Users!Ids
    <3> QED
      BY <3>1, <3>3, <3>4, <1>g
  <2>2. CASE \/ Users!Enrolled(r) \/ Users!EnrollFails(r) \/ Users!ConfirmTotp(r)
             \/ Users!ConfirmFails(r) \/ Users!Disabled(r)
    BY <2>2, <1>e DEF Users!Enrolled, Users!EnrollFails, Users!ConfirmTotp, Users!ConfirmFails,
                      Users!Disabled, Users!Fails
  <2> QED
    BY <1>3, <2>1, <2>2 DEF Users!Totp
<1>4. ASSUME NEW r \in Requests, Users!MailFails(r) PROVE Goal
  BY <1>4, <1>e DEF Users!MailFails
<1>5. CASE \/ \E e, f \in Emails : \/ Users!CreateUser(e) \/ Users!DeleteUser(e)
                                   \/ Users!UpdateEmail(e, f)
           \/ \E i \in Invites : Users!CancelInvite(i)
           \/ \E u \in Users!Ids : Users!Age(u)
  BY <1>5 DEF Users!CreateUser, Users!DeleteUser, Users!UpdateEmail, Users!CancelInvite, Users!Age
<1> QED
  BY <1>1, <1>2, <1>3, <1>4, <1>5 DEF Users!Next

LEMMA SessionStep ==
  ASSUME AccountsInv, Users!Next
  PROVE  /\ session' \in [Requests -> Session]
         /\ \A r \in Requests : InHand(session'[r], mailed', invite')
<1>s. /\ session \in [Requests -> Session] /\ mailed \subseteq mailed'
      /\ \A i \in Invites : invite[i].state # "none" => invite'[i].state # "none"
      /\ \A r \in Requests : InHand(session[r], mailed, invite)
  BY HistoryGrows, InviteStep DEF AccountsInv, AccountsTyped, InvitesKept
<1>1. ASSUME NEW r \in Requests PROVE InHand(session[r], mailed', invite')
  BY <1>s DEF InHand, Letters
<1>2. CASE session' = session
  BY <1>2, <1>1, <1>s
<1>3. ASSUME NEW r \in Requests, NEW t \in Session, Sound(t),
             session' = [session EXCEPT ![r] = t]
      PROVE  /\ session' \in [Requests -> Session]
             /\ \A q \in Requests : InHand(session'[q], mailed', invite')
  <2>1. session' \in [Requests -> Session]
    BY <1>3, <1>s
  <2>2. ASSUME NEW q \in Requests PROVE session'[q] = session[q] \/ session'[q] = t
    BY <1>3, <1>s
  <2> QED
    BY <2>1, <2>2, <1>1, <1>3 DEF Sound
<1> QED
  BY SessionMoves, <1>2, <1>3

LEMMA AccountsStart == Users!Init => AccountsInv
<1> SUFFICES ASSUME Users!Init PROVE AccountsInv
  OBVIOUS
<1>1. Users!NoCred \in Credential /\ Users!NoInvite \in Invitation /\ Users!NoInvite.state = "none"
  BY DEF Users!NoCred, Users!NoInvite, Users!None, Credential, Invitation, Anybody
<1>2. AccountsTyped
  BY <1>1, IdleSession, SerialsBounded DEF Users!Init, Users!None, AccountsTyped
<1>3. OneAddress /\ OpenInvited
  BY <1>1 DEF Users!Init, Users!None, OneAddress, OpenInvited
<1>4. \A r \in Requests : InHand(session[r], mailed, invite)
  BY IdleSession DEF Users!Init, InHand, Resets, Factors, Letters
<1>5. Users!AccountsHold
  BY <1>1 DEF Users!Init, Users!AccountsHold, Users!CodesHaveCredential, Users!StoredWasMailed,
              Users!LinkWorks, Users!AcceptedMadeUser
<1> QED
  BY <1>2, <1>3, <1>4, <1>5 DEF AccountsInv

LEMMA AccountsStep == AccountsInv /\ Users!Next => AccountsInv'
<1> SUFFICES ASSUME AccountsInv, Users!Next PROVE AccountsInv'
  OBVIOUS
<1>1. mailed' \in SUBSET Nat
  BY HistoryGrows, ZenonT(40) DEF AccountsInv, AccountsTyped, Session
<1>2. AccountsTyped'
  BY <1>1, HistoryGrows, LinkStep, FactorStep, InviteStep, SessionStep
     DEF AccountsInv, AccountsTyped, LinkTyped, InvitesKept
<1>3. Users!StoredWasMailed'
  BY LinkStep, InviteStep DEF LinkTyped, InvitesKept, Users!StoredWasMailed
<1>4. Users!AccountsHold'
  BY <1>3, LinkStep, FactorStep, InviteStep DEF Users!AccountsHold
<1> QED
  BY <1>2, <1>4, LinkStep, InviteStep, SessionStep DEF AccountsInv

LEMMA AccountsRest == AccountsInv /\ UNCHANGED accounts => AccountsInv'
  BY DEF AccountsInv, AccountsTyped, OneAddress, OpenInvited, accounts, Users!AccountsHold,
         Users!CodesHaveCredential, Users!StoredWasMailed, Users!LinkWorks,
         Users!AcceptedMadeUser, Users!Live, Token

(* Whatever requests overlap, and whatever the accounts and mails lost:    *)
(* recovery codes are those of a verified credential, stored tokens were   *)
(* mailed, a reset link that was sent works until it is used and an        *)
(* accepted invite made a user (auth_service, totp_service).               *)
THEOREM AccountsAlwaysHold == RecordsSpec => []AccountsHold
<1> DEFINE Inv == part = "accounts" => AccountsInv
<1>1. RecordsInit => Inv
  BY AccountsStart DEF RecordsInit
<1>2. Inv /\ [RecordsNext]_<<part, vars, kept>> => Inv'
  BY AccountsStep, AccountsRest DEF RecordsNext, kept
<1>3. Inv => AccountsHold
  BY DEF AccountsInv, AccountsHold
<1> QED
  BY <1>1, <1>2, <1>3, PTL DEF RecordsSpec

-----------------------------------------------------------------------------
(* Elected officials.                                                      *)

(* The records' fields; what they hold does not matter here.               *)
IsRow(x)     == x \in [there : {x.there}, district : {x.district}, name : {x.name},
                       link : {x.link}]
IsCommand(c) == c \in [pc : {c.pc}, got : {c.got}, todo : {c.todo}, district : {c.district},
                       plan : {c.plan}]

(* Each of its provider's sources in a district the command goes through   *)
(* has an official, is in a district that it has yet to look at, or is in  *)
(* the plan that it commits next; those it stored are in such districts.   *)
Seen(c)             == {c.got[r].district : r \in DOMAIN c.got}
Awaited(c, x, r) == \/ x.link # 0 \/ x.district \in c.todo
                    \/ (c.pc = "create" /\ r \in DOMAIN c.plan)
Covered(s, c, rows) ==
  /\ DOMAIN c.got \subseteq Provider[s]
  /\ c.pc \in {"districts", "create"}
       => \A r \in Provider[s] :
            /\ rows[r].there /\ rows[r].district \in Seen(c) => Awaited(c, rows[r], r)
            /\ rows[r].there /\ r \in DOMAIN c.got => rows[r].district = c.got[r].district

OfficialsInv == /\ source = [r \in People |-> source[r]] /\ \A r \in People : IsRow(source[r])
                /\ sync = [s \in Syncs |-> sync[s]] /\ \A s \in Syncs : IsCommand(sync[s])
                /\ \A s \in Syncs : Covered(s, sync[s], source)

LEMMA OfficialsStart == Elected!Init => OfficialsInv
<1> SUFFICES ASSUME Elected!Init PROVE OfficialsInv
  OBVIOUS
<1>1. /\ source = [r \in People |-> Elected!NoSource]
      /\ sync = [s \in Syncs |-> Elected!Idle]
  BY DEF Elected!Init
<1>2. IsRow(Elected!NoSource) /\ IsCommand(Elected!Idle)
  BY DEF IsRow, IsCommand, Elected!NoSource, Elected!Idle
<1>3. Elected!Idle.pc = "idle" /\ DOMAIN Elected!Idle.got = {}
  BY DEF Elected!Idle, Elected!NoPlan
<1> QED
  BY <1>1, <1>2, <1>3 DEF OfficialsInv, Covered

(* A command moves: the others and the sources are as they were.           *)
LEMMA CommandMoves ==
  ASSUME OfficialsInv, NEW s \in Syncs, NEW c, IsCommand(c), Covered(s, c, source),
         Elected!Set(s, c), UNCHANGED source
  PROVE  OfficialsInv'
<1>1. sync' = [sync EXCEPT ![s] = c]
  BY DEF Elected!Set
<1>2. sync' = [t \in Syncs |-> sync'[t]] /\ \A t \in Syncs : sync'[t] = IF t = s THEN c ELSE sync[t]
  BY <1>1 DEF OfficialsInv
<1>3. \A t \in Syncs : IsCommand(sync'[t]) /\ Covered(t, sync'[t], source)
  BY <1>2 DEF OfficialsInv
<1> QED
  BY <1>2, <1>3 DEF OfficialsInv

(* The rows that a commit of the command's links.                          *)
LEMMA DistrictLinked ==
  ASSUME OfficialsInv, NEW s \in Syncs, Elected!AutoCreate(s)
  PROVE  /\ source' = [r \in People |-> source'[r]]
         /\ \A r \in People : /\ IsRow(source'[r])
                              /\ source'[r].there = source[r].there
                              /\ source'[r].district = source[r].district
                              /\ source[r].link # 0 => source'[r].link # 0
                              /\ r \in DOMAIN sync[s].plan /\ source[r].there
                                   => source'[r].link # 0
         /\ Elected!Set(s, IF sync[s].todo = {} THEN Elected!Idle
                           ELSE [sync[s] EXCEPT !.pc = "districts", !.plan = Elected!NoPlan])
<1> DEFINE plan == sync[s].plan
<1>1. PICK link \in [DOMAIN plan -> Elected!Ids] :
        source' = [r \in People |-> IF r \in DOMAIN plan /\ source[r].there
                                    THEN [source[r] EXCEPT !.link = link[r]] ELSE source[r]]
  BY DEF Elected!AutoCreate
<1>2. ASSUME NEW r \in People, r \in DOMAIN plan
      PROVE  LET x == [source[r] EXCEPT !.link = link[r]]
             IN  /\ IsRow(x) /\ x.there = source[r].there /\ x.district = source[r].district
                 /\ x.link # 0
  <2>1. link[r] # 0
    BY <1>2 DEF Elected!Ids
  <2>2. IsRow(source[r])
    BY DEF OfficialsInv
  <2> QED
    BY <2>1, <2>2 DEF IsRow
<1>3. Elected!Set(s, IF sync[s].todo = {} THEN Elected!Idle
                     ELSE [sync[s] EXCEPT !.pc = "districts", !.plan = Elected!NoPlan])
  BY DEF Elected!AutoCreate
<1> QED
  BY <1>1, <1>2, <1>3 DEF OfficialsInv

LEMMA SyncEnds ==
  ASSUME OfficialsInv, NEW s \in Syncs, Elected!Ends(s)
  PROVE  Elected!AllLinked(s)
<1>1. sync[s].pc = "create" /\ sync[s].todo = {} /\ Elected!AutoCreate(s)
  BY DEF Elected!Ends
<1>2. SUFFICES ASSUME NEW r \in Provider[s], source'[r].there,
                      r \in DOMAIN sync[s].got \/ source'[r].district \in Seen(sync[s])
               PROVE  source'[r].link # 0
  BY DEF Elected!AllLinked, Elected!None, Elected!Visited, Seen
<1>3. r \in People
  BY RecordsAssumption DEF Elected!ProvidersAssumption
<1>4. source[r].there /\ source[r].district \in Seen(sync[s])
  <2>1. source[r].there /\ source'[r].district = source[r].district
    BY <1>1, <1>2, <1>3, DistrictLinked
  <2>2. r \in DOMAIN sync[s].got => source[r].district = sync[s].got[r].district
    BY <1>1, <2>1 DEF OfficialsInv, Covered
  <2> QED
    BY <1>2, <2>1, <2>2 DEF Seen
<1>5. source[r].link # 0 \/ r \in DOMAIN sync[s].plan
  BY <1>1, <1>4 DEF OfficialsInv, Covered, Awaited
<1> QED
  BY <1>1, <1>3, <1>4, <1>5, DistrictLinked

(* A commit of one command leaves every other covered.                     *)
LEMMA OfficialsStep == OfficialsInv /\ Elected!Next => OfficialsInv'
<1> SUFFICES ASSUME OfficialsInv, Elected!Next PROVE OfficialsInv'
  OBVIOUS
<1>t. /\ source = [r \in People |-> source[r]] /\ \A r \in People : IsRow(source[r])
      /\ sync = [s \in Syncs |-> sync[s]]
      /\ \A s \in Syncs : IsCommand(sync[s]) /\ Covered(s, sync[s], source)
  BY DEF OfficialsInv
<1>n. /\ IsRow(Elected!NoSource) /\ Elected!NoSource.there = FALSE
      /\ IsCommand(Elected!Idle) /\ Elected!Idle.pc = "idle" /\ DOMAIN Elected!Idle.got = {}
  BY DEF IsRow, IsCommand, Elected!NoSource, Elected!Idle, Elected!NoPlan
<1>a. /\ \A s \in Syncs : Provider[s] \subseteq People
      /\ \A s, t \in Syncs : s # t => Provider[s] \cap Provider[t] = {}
  BY RecordsAssumption DEF Elected!ProvidersAssumption
<1>1. ASSUME UNCHANGED <<source, sync>> PROVE OfficialsInv'
  BY <1>1 DEF OfficialsInv
<1>2. ASSUME NEW o \in Elected!Ids, Elected!DeleteOfficial(o) PROVE OfficialsInv'
  <2>1. /\ source' = [r \in People |-> IF source[r].link = o THEN Elected!NoSource ELSE source[r]]
        /\ sync' = sync
    BY <1>2 DEF Elected!DeleteOfficial
  <2>2. ASSUME NEW s \in Syncs PROVE Covered(s, sync[s], source')
    BY <2>1, <1>t, <1>n, <1>a DEF Covered, Awaited
  <2> QED
    BY <2>1, <2>2, <1>t, <1>n DEF OfficialsInv
<1>3. ASSUME NEW s \in Syncs, NEW listed \in SUBSET People, Elected!Fetch(s, listed)
      PROVE  OfficialsInv'
  <2> DEFINE c == [Elected!Idle EXCEPT !.pc = "upsert", !.got = [r \in listed |-> record[r]]]
  <2>1. Elected!Set(s, c) /\ UNCHANGED source /\ listed \subseteq Provider[s]
    BY <1>3 DEF Elected!Fetch
  <2>2. IsCommand(c) /\ c.pc = "upsert" /\ DOMAIN c.got = listed
    BY DEF IsCommand, Elected!Idle
  <2> QED
    BY <2>1, <2>2, CommandMoves DEF Covered
<1>4. ASSUME NEW s \in Syncs, Elected!UpsertSources(s) PROVE OfficialsInv'
  <2> DEFINE got == sync[s].got
             v   == [sync[s] EXCEPT !.pc = "districts", !.todo = Elected!Visited(s)]
             c   == IF DOMAIN got = {} THEN Elected!Idle ELSE v
             new(r) == [there |-> TRUE, district |-> got[r].district, name |-> got[r].name,
                        link |-> IF source[r].link # 0 THEN source[r].link
                                 ELSE Elected!LinkFor(got[r].district, got[r].name)]
  <2>1. /\ source' = [r \in People |-> IF r \notin DOMAIN got THEN source[r] ELSE new(r)]
        /\ sync' = [sync EXCEPT ![s] = c] /\ sync[s].pc = "upsert"
    BY <1>4 DEF Elected!UpsertSources, Elected!Set, Elected!None
  <2>2. DOMAIN got \subseteq Provider[s]
    BY <1>t DEF Covered
  <2>3. IsCommand(v) /\ v.pc = "districts" /\ v.got = got /\ v.todo = Seen(v)
    BY <1>t DEF IsCommand, Elected!Visited, Seen
  <2>4. \A r \in People : IsRow(source'[r])
    BY <2>1, <1>t DEF IsRow
  <2>5. ASSUME NEW r \in DOMAIN got PROVE source'[r].district = got[r].district
    BY <2>1, <2>2, <1>a
  <2>6. IsCommand(c) /\ Covered(s, c, source')
    <3>1. Covered(s, v, source')
      <4> HIDE DEF v
      <4> QED
        BY <2>2, <2>3, <2>5 DEF Covered, Awaited
    <3>2. Covered(s, Elected!Idle, source')
      BY <1>n DEF Covered
    <3>3. c = Elected!Idle \/ c = v
      OBVIOUS
    <3> HIDE DEF c, v
    <3> QED
      BY <2>3, <3>1, <3>2, <3>3, <1>n
  <2>7. ASSUME NEW t \in Syncs, t # s PROVE Covered(t, sync[t], source')
    <3>1. \A r \in Provider[t] : source'[r] = source[r]
      BY <2>1, <2>2, <2>7, <1>a
    <3> QED
      BY <3>1, <1>t DEF Covered
  <2> QED
    BY <2>1, <2>4, <2>6, <2>7, <1>t DEF OfficialsInv
<1>5. ASSUME NEW s \in Syncs, NEW d \in Seats, Elected!ReadUnlinked(s, d) PROVE OfficialsInv'
  <2> DEFINE todo == Elected!Unlinked(d)
             c == [sync[s] EXCEPT !.pc = "create", !.todo = @ \ {d}, !.district = d,
                                  !.plan = Elected!PlanFor(todo)]
  <2>1. sync[s].pc = "districts" /\ Elected!Set(s, c) /\ UNCHANGED source
    BY <1>5 DEF Elected!ReadUnlinked
  <2>2. /\ IsCommand(c) /\ c.pc = "create" /\ c.todo = sync[s].todo \ {d}
        /\ c.plan = Elected!PlanFor(todo) /\ c.got = sync[s].got
    BY <1>t DEF IsCommand
  <2>3. DOMAIN c.plan = todo
    BY <2>2 DEF Elected!PlanFor
  <2>4. ASSUME NEW r \in Provider[s], source[r].there, source[r].district \in Seen(c)
        PROVE  Awaited(c, source[r], r)
    <3>0. source[r].district \in Seen(sync[s])
      BY <2>2, <2>4 DEF Seen
    <3>1. source[r].link # 0 \/ source[r].district \in sync[s].todo
      BY <2>1, <2>4, <3>0, <1>t DEF Covered, Awaited
    <3>2. CASE source[r].link = 0 /\ source[r].district = d
      BY <2>2, <2>3, <2>4, <3>2, <1>a DEF Awaited, Elected!Unlinked, Elected!None
    <3> QED
      BY <2>2, <3>1, <3>2 DEF Awaited
  <2>5. Covered(s, c, source)
    <3> HIDE DEF c
    <3> QED
      BY <2>1, <2>2, <2>4, <1>t DEF Covered
  <2> QED
    BY <2>1, <2>2, <2>5, CommandMoves
<1>6. ASSUME NEW s \in Syncs, Elected!AutoCreate(s) PROVE OfficialsInv'
  <2> DEFINE c == IF sync[s].todo = {} THEN Elected!Idle
                  ELSE [sync[s] EXCEPT !.pc = "districts", !.plan = Elected!NoPlan]
  <2>1. sync' = [sync EXCEPT ![s] = c] /\ sync[s].pc = "create"
    BY <1>6, DistrictLinked DEF Elected!Set, Elected!AutoCreate
  <2>2. /\ source' = [r \in People |-> source'[r]]
        /\ \A r \in People : /\ IsRow(source'[r])
                             /\ source'[r].there = source[r].there
                             /\ source'[r].district = source[r].district
                             /\ source[r].link # 0 => source'[r].link # 0
                             /\ r \in DOMAIN sync[s].plan /\ source[r].there
                                  => source'[r].link # 0
    BY <1>6, DistrictLinked
  <2>3. /\ IsCommand(c)
        /\ \/ c.pc = "idle" /\ DOMAIN c.got = {}
           \/ c.pc = "districts" /\ c.todo = sync[s].todo /\ c.got = sync[s].got
    <3> DEFINE v == [sync[s] EXCEPT !.pc = "districts", !.plan = Elected!NoPlan]
    <3>1. IsCommand(v) /\ v.pc = "districts" /\ v.todo = sync[s].todo /\ v.got = sync[s].got
      BY <1>t DEF IsCommand
    <3>2. c = Elected!Idle \/ c = v
      OBVIOUS
    <3> HIDE DEF v, c
    <3> QED
      BY <3>1, <3>2, <1>n
  <2>4. Covered(s, c, source')
    <3> HIDE DEF c
    <3>1. ASSUME NEW r \in Provider[s], source'[r].there, c.pc = "districts"
          PROVE  /\ source'[r].district \in Seen(c) => Awaited(c, source'[r], r)
                 /\ r \in DOMAIN c.got => source'[r].district = c.got[r].district
      <4>1. source[r].there /\ source'[r].district = source[r].district /\ c.got = sync[s].got
        BY <2>2, <2>3, <3>1, <1>a
      <4>2. Seen(c) = Seen(sync[s])
        BY <4>1 DEF Seen
      <4>3. /\ source[r].district \in Seen(sync[s]) => Awaited(sync[s], source[r], r)
            /\ r \in DOMAIN sync[s].got => source[r].district = sync[s].got[r].district
        BY <2>1, <4>1, <1>t DEF Covered
      <4> QED
        BY <2>2, <2>3, <3>1, <4>1, <4>2, <4>3, <1>a DEF Awaited
    <3>2. DOMAIN c.got \subseteq Provider[s]
      BY <2>3, <1>t DEF Covered
    <3> QED
      BY <2>3, <3>1, <3>2 DEF Covered
  <2>5. ASSUME NEW t \in Syncs PROVE Covered(t, sync[t], source')
    BY <2>2, <1>t, <1>a DEF Covered, Awaited
  <2> QED
    BY <2>1, <2>2, <2>3, <2>4, <2>5, <1>t DEF OfficialsInv
<1>7. ASSUME NEW s \in Syncs, Elected!Fail(s) PROVE OfficialsInv'
  BY <1>7, <1>n, CommandMoves DEF Elected!Fail, Covered
<1> QED
  BY <1>1, <1>2, <1>3, <1>4, <1>5, <1>6, <1>7
     DEF Elected!Next, Elected!CreateOfficial, Elected!UpdateOfficial, Elected!ApproveOfficial,
         Elected!Correct

LEMMA OfficialsStay == OfficialsInv /\ UNCHANGED officials => OfficialsInv'
  BY DEF OfficialsInv, officials

(* A sync that gets to its end leaves an official to each source that it   *)
(* stored, and to those that earlier runs stored in the same districts,    *)
(* whatever the provider lists and whatever the admins and the syncs of    *)
(* the other providers do meanwhile (cli/officials_cmd.py, auto-create).   *)
THEOREM SyncsLinkAll == RecordsSpec => SyncedLinked
<1> DEFINE Inv  == part = "officials" => OfficialsInv
           Acts == [part = "officials" => Elected!EndsLinked]_<<part, officials>>
<1>1. RecordsInit => Inv
  BY OfficialsStart DEF RecordsInit
<1>2. Inv /\ [RecordsNext]_<<part, vars, kept>> => Inv'
  BY OfficialsStep, OfficialsStay DEF RecordsNext, kept
<1>3. Inv /\ [RecordsNext]_<<part, vars, kept>> => Acts
  BY SyncEnds DEF Elected!EndsLinked, RecordsNext, kept
<1> QED
  BY <1>1, <1>2, <1>3, PTL DEF RecordsSpec, SyncedLinked

-----------------------------------------------------------------------------
(* Election results.                                                       *)

Sources == Urls \cup {"none"}
Result  == [url : Sources \cup {"manual"}, n : Nat]
Worker  == [pc : {"idle", "next", "fetch", "persist", "flush", "submit", "insert"}, todo : SUBSET Elections,
            seen : [Elections -> Sources], e : Elections \cup {"none"}, base : Result, got : Result]
Race    == [live : BOOLEAN, active : BOOLEAN, source : {"none", "manual", "sos_feed", "linked"},
            url : Sources]

(* What a refresh is about to fetch, and has fetched, is from a feed.      *)
FromFeed(w) == /\ w.pc \in {"fetch", "persist", "flush"} => w.e \in Elections
               /\ w.pc = "fetch" => w.seen[w.e] \in Urls
               /\ w.pc \in {"persist", "flush"} => w.got.url \in Urls
               /\ \A e \in w.todo : w.seen[e] \in Urls

TrackingInv == /\ election \in [Elections -> Race]
               /\ statewide \in [Elections -> Result]
               /\ county \in [Elections -> [Counties -> Result]]
               /\ version \in [Urls -> Nat]
               /\ task \in [Tracking!Workers -> Worker]
               /\ \A t \in Tracking!Workers : FromFeed(task[t])
               /\ Tracking!CountiesAgree

LEMMA IdleWorker ==
  Tracking!Idle \in Worker /\ FromFeed(Tracking!Idle) /\ Tracking!Nothing \in Result
BY DEF Tracking!Idle, Tracking!Nothing, Tracking!NoUrl, Worker, Result, Sources, FromFeed

(* Whatever a worker does next, it is a worker again with a feed's results.*)
LEMMA WorkerMoves ==
  ASSUME TrackingInv, NEW t \in Tracking!Workers, NEW w \in Worker, FromFeed(w),
         Tracking!Set(t, w)
  PROVE  /\ task' \in [Tracking!Workers -> Worker]
         /\ \A s \in Tracking!Workers : FromFeed(task'[s])
<1>1. task \in [Tracking!Workers -> Worker] /\ \A s \in Tracking!Workers : FromFeed(task[s])
  BY DEF TrackingInv
<1>2. task' = [task EXCEPT ![t] = w]
  BY DEF Tracking!Set
<1>3. \A s \in Tracking!Workers : task'[s] = w \/ task'[s] = task[s]
  BY <1>1, <1>2
<1> QED
  BY <1>1, <1>2, <1>3

LEMMA FinishedWorker ==
  ASSUME TrackingInv, NEW t \in Tracking!Workers
  PROVE  Tracking!Done(t) \in Worker /\ FromFeed(Tracking!Done(t))
<1> DEFINE w == [task[t] EXCEPT !.pc = "next"]
<1>1. task[t] \in Worker /\ FromFeed(task[t])
  BY DEF TrackingInv
<1>2. w \in Worker /\ w.pc = "next" /\ w.todo = task[t].todo /\ w.seen = task[t].seen
  BY <1>1 DEF Worker
<1>3. FromFeed(w)
  BY <1>1, <1>2 DEF FromFeed
<1> QED
  BY <1>2, <1>3, IdleWorker DEF Tracking!Done

LEMMA FetchedResult ==
  ASSUME TrackingInv, NEW u \in Urls
  PROVE  Tracking!Fresh(u) \in Result /\ Tracking!Fresh(u).url = u
BY DEF TrackingInv, Tracking!Fresh, Result, Sources

LEMMA TrackingStart == Tracking!Init => TrackingInv
<1> SUFFICES ASSUME Tracking!Init PROVE TrackingInv
  OBVIOUS
<1>1. /\ election \in [Elections -> Race] /\ statewide \in [Elections -> Result]
      /\ county \in [Elections -> [Counties -> Result]] /\ version \in [Urls -> Nat]
  BY IdleWorker DEF Tracking!Init, Tracking!NoUrl, Race, Sources
<1>2. /\ task \in [Tracking!Workers -> Worker]
      /\ \A t \in Tracking!Workers : FromFeed(task[t])
  BY IdleWorker DEF Tracking!Init
<1>3. Tracking!CountiesAgree
  BY DEF Tracking!Init, Tracking!CountiesAgree
<1> QED
  BY <1>1, <1>2, <1>3 DEF TrackingInv

Refreshed == /\ task' \in [Tracking!Workers -> Worker]
             /\ \A s \in Tracking!Workers : FromFeed(task'[s])

LEMMA TrackingStep == TrackingInv /\ Tracking!Next => TrackingInv'
<1> SUFFICES ASSUME TrackingInv, Tracking!Next PROVE TrackingInv'
  OBVIOUS
<1>t. /\ election \in [Elections -> Race] /\ statewide \in [Elections -> Result]
      /\ county \in [Elections -> [Counties -> Result]] /\ version \in [Urls -> Nat]
      /\ task \in [Tracking!Workers -> Worker]
      /\ \A s \in Tracking!Workers : FromFeed(task[s])
      /\ Tracking!CountiesAgree
  BY DEF TrackingInv
<1>k. ASSUME UNCHANGED <<election, statewide, county, version>>, Refreshed PROVE TrackingInv'
  BY <1>k, <1>t DEF TrackingInv, Refreshed, Tracking!CountiesAgree
<1>w. ASSUME NEW t \in Tracking!Workers, NEW w \in Worker, FromFeed(w), Tracking!Set(t, w)
      PROVE  Refreshed
  BY <1>w, WorkerMoves DEF Refreshed
<1>r. ASSUME NEW e \in Elections, NEW x \in Race, election' = [election EXCEPT ![e] = x],
             UNCHANGED <<statewide, county, version, task>>
      PROVE  TrackingInv'
  BY <1>r, <1>t DEF TrackingInv, Tracking!CountiesAgree
<1>1. ASSUME NEW e \in Elections, NEW u \in Urls \cup {Tracking!NoUrl}, Tracking!Create(e, u)
      PROVE  TrackingInv'
  <2> DEFINE x == [live |-> TRUE, active |-> TRUE, url |-> u,
                   source |-> IF u = "none" THEN "manual" ELSE "sos_feed"]
  <2>1. x \in Race
    BY DEF Race, Sources, Tracking!NoUrl
  <2>2. election' = [election EXCEPT ![e] = x] /\ UNCHANGED <<statewide, county, version, task>>
    BY <1>1 DEF Tracking!Create, Tracking!NoUrl
  <2> QED
    BY <2>1, <2>2, <1>r
<1>2. ASSUME NEW e \in Elections, Tracking!UpdateStatus(e) \/ Tracking!SoftDelete(e)
      PROVE  TrackingInv'
  <2>1. [election[e] EXCEPT !.active = ~@] \in Race /\ [election[e] EXCEPT !.live = FALSE] \in Race
    BY <1>t DEF Race
  <2> QED
    BY <1>2, <2>1, <1>r DEF Tracking!UpdateStatus, Tracking!SoftDelete, Tracking!Edit
<1>3. ASSUME NEW e \in Elections, NEW u \in Urls,
             Tracking!UpdateUrl(e, u) \/ Tracking!LinkElection(e, u)
      PROVE  TrackingInv'
  <2>1. /\ [election[e] EXCEPT !.url = u] \in Race
        /\ [election[e] EXCEPT !.source = "linked", !.url = u] \in Race
    BY <1>t DEF Race, Sources
  <2> QED
    BY <1>3, <2>1, <1>r DEF Tracking!UpdateUrl, Tracking!LinkElection, Tracking!Edit
<1>4. ASSUME NEW e \in Elections, NEW u \in Urls, NEW t \in Askers, Tracking!ImportRace(t, e, u)
      PROVE  TrackingInv'
  <2> DEFINE x(a) == [live |-> TRUE, active |-> a, url |-> u, source |-> "sos_feed"]
             w(a) == [Tracking!Idle EXCEPT !.pc = IF a THEN "fetch" ELSE "persist",
                                !.seen[e] = u, !.e = e, !.got = Tracking!Fresh(u)]
  <2>1. PICK a \in BOOLEAN : /\ election' = [election EXCEPT ![e] = x(a)]
                             /\ Tracking!Set(t, Tracking!Idle) \/ Tracking!Set(t, w(a))
                             /\ UNCHANGED <<statewide, county, version>>
    BY <1>4 DEF Tracking!ImportRace
  <2>2. x(a) \in Race
    BY DEF Race, Sources
  <2>3. w(a) \in Worker
    BY IdleWorker, FetchedResult DEF Worker, Sources
  <2>4. FromFeed(w(a))
    <3>1. /\ w(a).pc \in {"fetch", "persist"} /\ w(a).todo = {} /\ w(a).e = e
          /\ w(a).got = Tracking!Fresh(u) /\ w(a).seen[e] = u
      BY IdleWorker DEF Worker, Tracking!Idle
    <3> QED
      BY <3>1, FetchedResult DEF FromFeed
  <2>5. Refreshed
    BY <2>1, <2>3, <2>4, <1>w, IdleWorker DEF Tracking!Workers
  <2> QED
    BY <2>1, <2>2, <2>5, <1>t DEF TrackingInv, Refreshed, Tracking!CountiesAgree
<1>5. ASSUME NEW u \in Urls, Tracking!Publish(u)
      PROVE  TrackingInv'
  BY <1>5, <1>t DEF TrackingInv, Tracking!Publish, Tracking!CountiesAgree
<1>6. CASE Tracking!StartCycle
  <2> DEFINE Due == {e \in Elections : Tracking!Due(e)}
             w == [Tracking!Idle EXCEPT !.pc = "next", !.todo = Due,
                                        !.seen = [e \in Elections |-> election[e].url]]
  <2>1. Tracking!Set("loop", w) /\ UNCHANGED <<election, statewide, county, version>>
    BY <1>6 DEF Tracking!StartCycle, Tracking!Loop
  <2>2. /\ w \in Worker /\ w.pc = "next" /\ w.todo = Due
        /\ \A e \in Elections : w.seen[e] = election[e].url
    BY <1>t, IdleWorker DEF Worker, Race
  <2>3. \A e \in Due : w.seen[e] \in Urls
    BY <2>2, <1>t DEF Tracking!Due, Tracking!NoUrl, Race, Sources
  <2>4. FromFeed(w)
    BY <2>2, <2>3 DEF FromFeed
  <2> QED
    BY <2>1, <2>2, <2>4, <1>w, <1>k DEF Tracking!Workers, Tracking!Loop
<1>7. ASSUME NEW e \in Elections, Tracking!LoadNext(e)
      PROVE  TrackingInv'
  <2> DEFINE v == task["loop"]
             rest == [v EXCEPT !.todo = @ \ {e}]
             next == [rest EXCEPT !.pc = "fetch", !.e = e, !.base = statewide[e]]
  <2>1. /\ "loop" \in Tracking!Workers
        /\ v.pc = "next" /\ e \in v.todo /\ UNCHANGED <<election, statewide, county, version>>
        /\ \/ Tracking!Set("loop", next) \/ Tracking!Set("loop", rest)
           \/ Tracking!Set("loop", Tracking!Idle)
    BY <1>7 DEF Tracking!LoadNext, Tracking!Loop, Tracking!Workers
  <2>2. v \in Worker /\ FromFeed(v)
    BY <2>1, <1>t
  <2>3. rest \in Worker /\ rest.pc = "next" /\ rest.todo = v.todo \ {e} /\ rest.seen = v.seen
    BY <2>1, <2>2 DEF Worker
  <2>4. /\ next \in Worker /\ next.pc = "fetch" /\ next.todo = v.todo \ {e} /\ next.seen = v.seen
        /\ next.e = e
    BY <2>3, <1>t DEF Worker
  <2>5. FromFeed(rest) /\ FromFeed(next)
    BY <2>1, <2>2, <2>3, <2>4 DEF FromFeed
  <2> QED
    BY <2>1, <2>3, <2>4, <2>5, <1>w, <1>k, IdleWorker
<1>8. ASSUME NEW t \in Askers, NEW e \in Elections, Tracking!Ask(t, e)
      PROVE  TrackingInv'
  <2> DEFINE w == [Tracking!Idle EXCEPT !.pc = "fetch", !.seen[e] = election[e].url, !.e = e,
                                        !.base = statewide[e]]
  <2>1. /\ Tracking!Set(t, w) /\ election[e].url # "none"
        /\ UNCHANGED <<election, statewide, county, version>>
    BY <1>8 DEF Tracking!Ask, Tracking!NoUrl
  <2>2. election[e].url \in Urls
    BY <2>1, <1>t DEF Race, Sources
  <2>3. w \in Worker
    BY <2>2, <1>t, IdleWorker DEF Worker, Sources
  <2>4. w.pc = "fetch" /\ w.e = e /\ w.todo = {} /\ w.seen[e] = election[e].url
    BY IdleWorker DEF Worker, Tracking!Idle
  <2>5. FromFeed(w)
    BY <2>2, <2>4 DEF FromFeed
  <2> QED
    BY <2>1, <2>3, <2>5, <1>w, <1>k DEF Tracking!Workers
<1>9. ASSUME NEW t \in Askers, NEW e \in Elections, Tracking!CheckManual(t, e)
      PROVE  TrackingInv'
  <2> DEFINE w == [Tracking!Idle EXCEPT !.pc = "submit", !.e = e, !.base = statewide[e]]
  <2>1. Tracking!Set(t, w) /\ UNCHANGED <<election, statewide, county, version>>
    BY <1>9 DEF Tracking!CheckManual
  <2>2. w \in Worker /\ w.pc = "submit" /\ w.todo = {}
    BY <1>t, IdleWorker DEF Worker, Tracking!Idle
  <2>3. FromFeed(w)
    BY <2>2 DEF FromFeed
  <2> QED
    BY <2>1, <2>2, <2>3, <1>w, <1>k DEF Tracking!Workers
<1>10. ASSUME NEW t \in Tracking!Workers, Tracking!Fetch(t) \/ Tracking!Lookup(t)
       PROVE  TrackingInv'
  <2> DEFINE r == task[t]
             g == Tracking!Fresh(r.seen[r.e])
             w == [r EXCEPT !.pc = "persist", !.got = g]
             v == [r EXCEPT !.pc = "flush", !.base = IF @ = Tracking!Nothing THEN statewide[r.e]
                                                     ELSE @]
  <2>1. r \in Worker /\ FromFeed(r) /\ UNCHANGED <<election, statewide, county, version>>
    BY <1>10, <1>t DEF Tracking!Fetch, Tracking!Lookup
  <2>2. CASE Tracking!Fetch(t)
    <3>1. r.pc = "fetch" /\ Tracking!Set(t, w)
      BY <2>2 DEF Tracking!Fetch
    <3>2. g \in Result /\ g.url \in Urls /\ r.e \in Elections
      BY <3>1, <2>1, FetchedResult DEF FromFeed
    <3>3. /\ w \in Worker /\ w.pc = "persist" /\ w.got = g /\ w.todo = r.todo /\ w.e = r.e
          /\ w.seen = r.seen
      BY <3>2, <2>1 DEF Worker
    <3>4. FromFeed(w)
      BY <3>2, <3>3, <2>1 DEF FromFeed
    <3> QED
      BY <3>1, <3>3, <3>4, <2>1, <1>w, <1>k
  <2>3. CASE Tracking!Lookup(t)
    <3>1. r.pc = "persist" /\ Tracking!Set(t, v)
      BY <2>3 DEF Tracking!Lookup
    <3>2. r.e \in Elections
      BY <3>1, <2>1 DEF FromFeed
    <3>3. /\ v \in Worker /\ v.pc = "flush" /\ v.got = r.got /\ v.todo = r.todo /\ v.e = r.e
          /\ v.seen = r.seen
      BY <3>2, <2>1, <1>t DEF Worker
    <3>4. FromFeed(v)
      BY <3>1, <3>3, <2>1 DEF FromFeed
    <3> QED
      BY <3>1, <3>3, <3>4, <2>1, <1>w, <1>k
  <2> QED
    BY <1>10, <2>2, <2>3
<1>11. ASSUME NEW t \in Tracking!Workers, Tracking!Persist(t)
       PROVE  TrackingInv'
  <2> DEFINE r == task[t]
             counts == [c \in Counties |-> IF c \in Covers[r.got.url] THEN r.got
                                           ELSE county[r.e][c]]
  <2>1. /\ r.pc = "flush" /\ Tracking!Set(t, Tracking!Done(t))
        /\ statewide' = statewide \/ statewide' = [statewide EXCEPT ![r.e] = r.got]
        /\ county' = [county EXCEPT ![r.e] = counts]
        /\ UNCHANGED <<election, version>>
    BY <1>11 DEF Tracking!Persist
  <2>2. r \in Worker /\ r.got \in Result /\ r.e \in Elections /\ r.got.url \in Urls
    BY <2>1, <1>t DEF FromFeed, Worker
  <2>3. counts \in [Counties -> Result]
    BY <2>2, <1>t
  <2>4. statewide' \in [Elections -> Result] /\ county' \in [Elections -> [Counties -> Result]]
    BY <2>1, <2>2, <2>3, <1>t
  <2>5. Tracking!CountiesAgree'
    <3>1. \A c, d \in {k \in Counties : \A u \in Urls : k \in Covers[u]} : counts[c] = counts[d]
      BY <2>2
    <3>2. \A e \in Elections : county'[e] = county[e] \/ county'[e] = counts
      BY <2>1, <1>t
    <3>3. ASSUME NEW e \in Elections,
                 NEW c \in {k \in Counties : \A u \in Urls : k \in Covers[u]},
                 NEW d \in {k \in Counties : \A u \in Urls : k \in Covers[u]}
          PROVE  county'[e][c] = county'[e][d]
      <4>1. CASE county'[e] = counts
        BY <3>1, <4>1
      <4>2. CASE county'[e] = county[e]
        BY <4>2, <1>t DEF Tracking!CountiesAgree
      <4> QED
        BY <3>2, <4>1, <4>2
    <3> QED
      BY <3>3 DEF Tracking!CountiesAgree
  <2>6. Refreshed
    BY <2>1, <1>w, FinishedWorker
  <2> QED
    BY <2>1, <2>4, <2>5, <2>6, <1>t DEF TrackingInv, Refreshed
<1>12. ASSUME NEW t \in Tracking!Workers, Tracking!Conflict(t) \/ Tracking!FetchFails(t)
       PROVE  TrackingInv'
  BY <1>12, <1>w, <1>k, IdleWorker, FinishedWorker DEF Tracking!Conflict, Tracking!FetchFails
<1>13. ASSUME NEW t \in Tracking!Workers, Tracking!NoRowToLock(t)
       PROVE  TrackingInv'
  <2> DEFINE r == task[t]
             w == [r EXCEPT !.pc = "insert"]
  <2>1. /\ r.pc = "submit" /\ Tracking!Set(t, w)
        /\ UNCHANGED <<election, statewide, county, version>>
    BY <1>13 DEF Tracking!NoRowToLock
  <2>2. r \in Worker /\ FromFeed(r)
    BY <1>t
  <2>3. w \in Worker /\ w.pc = "insert" /\ w.todo = r.todo /\ w.seen = r.seen
    BY <2>2 DEF Worker
  <2>4. FromFeed(w)
    BY <2>2, <2>3 DEF FromFeed
  <2> QED
    BY <2>1, <2>3, <2>4, <1>w, <1>k
<1>14. ASSUME NEW t \in Tracking!Workers, Tracking!SubmitManual(t)
       PROVE  TrackingInv'
  <2>1. /\ Tracking!Set(t, Tracking!Idle) /\ UNCHANGED <<election, county, version>>
        /\ \/ statewide' = statewide
           \/ statewide' = [statewide EXCEPT ![task[t].e] = Tracking!ByHand]
    BY <1>14 DEF Tracking!SubmitManual
  <2>2. Tracking!ByHand \in Result
    BY DEF Tracking!ByHand, Result
  <2>3. statewide' \in [Elections -> Result]
    BY <2>1, <2>2, <1>t
  <2>4. Refreshed
    BY <2>1, <1>w, IdleWorker
  <2> QED
    BY <2>1, <2>3, <2>4, <1>t DEF TrackingInv, Refreshed, Tracking!CountiesAgree
<1>15. CASE Tracking!Restart
  <2>1. Refreshed /\ UNCHANGED <<election, statewide, county, version>>
    BY <1>15, IdleWorker DEF Tracking!Restart, Refreshed
  <2> QED
    BY <2>1, <1>k
<1> QED
  BY <1>1, <1>2, <1>3, <1>4, <1>5, <1>6, <1>7, <1>8, <1>9, <1>10, <1>11, <1>12, <1>13, <1>14,
     <1>15 DEF Tracking!Next, Tracking!LoopStep, Tracking!Refresh, Tracking!Workers, Tracking!Loop

LEMMA TrackingStay == TrackingInv /\ UNCHANGED tracked => TrackingInv'
  BY DEF TrackingInv, tracked, Tracking!CountiesAgree

(* However the loop, admins' refreshes, submissions and restarts overlap,  *)
(* the counties that every feed of an election covers hold one version of  *)
(* one feed (election_service.refresh_single_election, persist).           *)
THEOREM CountiesAlwaysAgree == RecordsSpec => []CountiesAgree
<1> DEFINE Inv == part = "elections" => TrackingInv
<1>1. RecordsInit => Inv
  BY TrackingStart DEF RecordsInit
<1>2. Inv /\ [RecordsNext]_<<part, vars, kept>> => Inv'
  BY TrackingStep, TrackingStay DEF RecordsNext, kept
<1>3. Inv => CountiesAgree
  BY DEF TrackingInv, CountiesAgree
<1> QED
  BY <1>1, <1>2, <1>3, PTL DEF RecordsSpec
================================================================================
