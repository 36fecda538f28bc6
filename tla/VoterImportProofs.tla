--------------------------- MODULE VoterImportProofs ---------------------------
(***************************************************************************)
(* For any voters, counties, files and any number of imports at once: who  *)
(* is gone was removed by an import that completed without having seen     *)
(* them, and the server's open imports are alive.                          *)
(***************************************************************************)
EXTENDS VoterImport, TLAPS

USE ImportsAssumption, ImportBounds

(* Every variable stays in its type.                                       *)
THEOREM ImportTypes == Spec => []TypeOK
<1> USE DEF TypeOK, LivePcs, Status, Voter
<1>1. Init => TypeOK
  <2> SUFFICES ASSUME Init PROVE TypeOK
    OBVIOUS
  <2>1. voters \in [Voters -> Voter]
    BY DEF Init
  <2>2. spent \in [fault : Nat, crash : Nat, loss : Nat, overlap : BOOLEAN]
    BY DEF Init
  <2> QED
    BY <2>1, <2>2 DEF Init
<1>2. TypeOK /\ [Next]_vars => TypeOK'
  <2> SUFFICES ASSUME TypeOK, [Next]_vars PROVE TypeOK'
    OBVIOUS
  <2> USE DEF Goto, Set, Spend, locals
  <2>1. ASSUME NEW j \in Imports, Create(j) PROVE TypeOK'
    <3>1. PICK b \in BOOLEAN : spent' = [spent EXCEPT !.overlap = b]
      BY <2>1, Zenon DEF Create
    <3>2. spent' \in [fault : Nat, crash : Nat, loss : Nat, overlap : BOOLEAN]
      BY <3>1
    <3> QED
      BY <2>1, <3>2 DEF Create
  <2>2. ASSUME NEW j \in Imports, Begin(j) PROVE TypeOK'
    BY <2>2 DEF Begin
  <2>3. ASSUME NEW j \in Imports, Chunk(j) PROVE TypeOK'
    BY <2>3 DEF Chunk, Upserted
  <2>4. ASSUME NEW j \in Imports, Loaded(j) \/ LimitReached(j) PROVE TypeOK'
    BY <2>4 DEF Loaded, LimitReached
  <2>5. ASSUME NEW j \in Imports, SelectAbsent(j) PROVE TypeOK'
    BY <2>5 DEF SelectAbsent
  <2>6. ASSUME NEW j \in Imports, Complete(j) PROVE TypeOK'
    <3>1. ASSUME NEW v \in Voters PROVE Removed(j)[v] \in Voter
      <4>1. voters[v] \in Voter
        OBVIOUS
      <4>2. [voters[v] EXCEPT !.present = FALSE, !.by = j] \in Voter
        BY <4>1
      <4> QED
        BY <4>1, <4>2 DEF Removed
    <3>2. voters' \in [Voters -> Voter]
      BY <2>6, <3>1 DEF Complete, Removed
    <3> QED
      BY <2>6, <3>2 DEF Complete
  <2>7. ASSUME NEW j \in Imports, Raise(j) PROVE TypeOK'
    BY <2>7 DEF Raise
  <2>8. ASSUME NEW j \in Imports, Failed(j) PROVE TypeOK'
    BY <2>8 DEF Failed
  <2>9. ASSUME NEW j \in Imports, Lose(j) PROVE TypeOK'
    BY <2>9 DEF Lose
  <2>10. ASSUME NEW j \in Imports, Cancelled(j) PROVE TypeOK'
    BY <2>10 DEF Cancelled
  <2>11. CASE Stop
    BY <2>11 DEF Stop
  <2>12. CASE Crash
    BY <2>12 DEF Crash, Die
  <2>13. CASE Exit
    BY <2>13 DEF Exit, Die
  <2>14. CASE Boot
    BY <2>14 DEF Boot, Recovered
  <2>15. CASE BootUnrecovered \/ CleanupAbandonedJobs
    BY <2>15 DEF BootUnrecovered, CleanupAbandonedJobs
  <2>16. CASE UNCHANGED vars
    BY <2>16 DEF vars
  <2> QED
    BY <2>1, <2>2, <2>3, <2>4, <2>5, <2>6, <2>7, <2>8, <2>9, <2>10, <2>11, <2>12,
       <2>13, <2>14, <2>15, <2>16 DEF Next, Step
<1> QED
  BY <1>1, <1>2, PTL DEF Spec

-----------------------------------------------------------------------------
(* The soft delete.  RemovedByCompleted needs that a completed import is   *)
(* over, so that what it kept stays as it is, and that a list of absent    *)
(* voters about to be removed holds none that the import has kept.         *)
CompletedIsDone   == \A j \in Imports : status[j] = "completed" => pc[j] = "done"
AbsentAreNotKept  == \A j \in Imports : pc[j] = "completing" => absent[j] \cap kept[j] = {}

(* A capped import goes to its completion without ever having filled its   *)
(* list.                                                                   *)
EmptyBeforeSelect == \A j \in Imports :
                       pc[j] \in {"idle", "created", "chunks"} => absent[j] = {}

RemovalInv == CompletedIsDone /\ AbsentAreNotKept /\ EmptyBeforeSelect /\ RemovedByCompleted

(* It holds at the start and over every step.                              *)
LEMMA RemovalInduction == Spec => []RemovalInv
<1> USE DEF RemovalInv, CompletedIsDone, AbsentAreNotKept, EmptyBeforeSelect, RemovedByCompleted
<1>1. Init => RemovalInv
  <2> SUFFICES ASSUME Init PROVE RemovalInv
    OBVIOUS
  <2>1. \A v \in Voters : voters[v].by = "none"
    BY DEF Init
  <2> QED
    BY <2>1 DEF Init
<1>2. TypeOK /\ RemovalInv /\ [Next]_vars => RemovalInv'
  <2> SUFFICES ASSUME TypeOK, RemovalInv, [Next]_vars PROVE RemovalInv'
    OBVIOUS
  <2> USE DEF TypeOK, LivePcs, Status, Goto, Set, locals
  <2>0. \A v \in Voters : voters[v].by \in Imports \cup {"none"}
    BY DEF Voter
  <2>1. ASSUME NEW j \in Imports, Create(j) PROVE RemovalInv'
    BY <2>0, <2>1 DEF Create
  <2>2. ASSUME NEW j \in Imports, Begin(j) PROVE RemovalInv'
    BY <2>2 DEF Begin
  <2>3. ASSUME NEW j \in Imports, Chunk(j) PROVE RemovalInv'
    <3>1. PICK valid \in SUBSET todo[j] :
            /\ voters' = Upserted(j, valid)
            /\ kept' = [kept EXCEPT ![j] = @ \cup valid]
      BY <2>3 DEF Chunk
    <3>2. pc[j] = "chunks" /\ UNCHANGED <<status, pc, absent>>
      BY <2>3 DEF Chunk
    <3>3. \A v \in Voters : voters'[v].by \in {"none", voters[v].by}
                            /\ (voters'[v].by # "none" => voters'[v] = voters[v])
      BY <3>1 DEF Upserted, Voter
    <3>4. RemovedByCompleted'
      BY <3>1, <3>2, <3>3 DEF Voter
    <3> QED
      BY <3>1, <3>2, <3>4
  <2>4. ASSUME NEW j \in Imports, Loaded(j) \/ LimitReached(j) PROVE RemovalInv'
    BY <2>4 DEF Loaded, LimitReached
  <2>5. ASSUME NEW j \in Imports, SelectAbsent(j) PROVE RemovalInv'
    BY <2>5 DEF SelectAbsent
  <2>6. ASSUME NEW j \in Imports, Complete(j) PROVE RemovalInv'
    <3>1. /\ pc[j] = "completing" /\ voters' = Removed(j)
          /\ status' = [status EXCEPT ![j] = "completed"]
          /\ pc' = [pc EXCEPT ![j] = "done"]
          /\ UNCHANGED <<kept, absent>>
      BY <2>6 DEF Complete
    <3>2. ASSUME NEW v \in Voters, voters'[v].by # "none"
          PROVE  LET k == voters'[v].by IN
                   status'[k] = "completed" /\ v \notin kept'[k] /\ ~voters'[v].present
      <4>1. CASE v \in absent[j]
        <5>1. voters'[v] = [voters[v] EXCEPT !.present = FALSE, !.by = j]
          BY <3>1, <4>1 DEF Removed
        <5>2. voters'[v].by = j /\ ~voters'[v].present
          BY <5>1 DEF Voter
        <5> QED
          BY <3>1, <4>1, <5>2
      <4>2. CASE v \notin absent[j]
        <5>1. voters'[v] = voters[v]
          BY <3>1, <4>2 DEF Removed
        <5>2. voters[v].by \in Imports
          BY <3>2, <5>1 DEF Voter
        <5> QED
          BY <3>1, <3>2, <5>1, <5>2
      <4> QED
        BY <4>1, <4>2
    <3> QED
      BY <3>1, <3>2
  <2>7. ASSUME NEW j \in Imports, Raise(j) PROVE RemovalInv'
    BY <2>7 DEF Raise, BodyPcs
  <2>8. ASSUME NEW j \in Imports, Failed(j) PROVE RemovalInv'
    BY <2>8 DEF Failed
  <2>9. ASSUME NEW j \in Imports, Lose(j) PROVE RemovalInv'
    BY <2>9 DEF Lose
  <2>10. ASSUME NEW j \in Imports, Cancelled(j) PROVE RemovalInv'
    BY <2>10 DEF Cancelled
  <2>11. CASE Stop \/ BootUnrecovered \/ UNCHANGED vars
    BY <2>11 DEF Stop, BootUnrecovered, vars
  <2>12. CASE Crash \/ Exit
    BY <2>12 DEF Crash, Exit, Die
  <2>13. CASE Boot \/ CleanupAbandonedJobs
    BY <2>0, <2>13 DEF Boot, CleanupAbandonedJobs, Recovered
  <2> QED
    BY <2>1, <2>2, <2>3, <2>4, <2>5, <2>6, <2>7, <2>8, <2>9, <2>10, <2>11, <2>12,
       <2>13 DEF Next, Step
<1> QED
  BY <1>1, <1>2, ImportTypes, PTL DEF Spec

(* Only an import that completes removes voters, and none that it kept.    *)
THEOREM RemovalsAreAccounted == Spec => []RemovedByCompleted
<1>1. RemovalInv => RemovedByCompleted
  BY DEF RemovalInv
<1> QED
  BY <1>1, RemovalInduction, PTL

-----------------------------------------------------------------------------
(* With the server up and nothing lost, its open imports are alive: what a *)
(* crash or a stop orphans is failed by the boot that follows.             *)
THEOREM NoPhantoms == Spec => []NoPhantomImports
<1> USE DEF NoPhantomImports, Open, Live, LivePcs
<1>1. Init => NoPhantomImports
  BY DEF Init
<1>2. TypeOK /\ NoPhantomImports /\ [Next]_vars => NoPhantomImports'
  <2> SUFFICES ASSUME TypeOK, NoPhantomImports, [Next]_vars,
                      srv' = "up" /\ spent'.loss = 0,
                      NEW k \in Imports \ Cli, Open(k)'
               PROVE  Live(k)'
    BY DEF NoPhantomImports
  <2> USE DEF TypeOK, Goto, Set, Spend, locals
  <2>1. ASSUME NEW j \in Imports, Create(j) \/ Begin(j) \/ Chunk(j) \/ Loaded(j)
                                  \/ LimitReached(j)
        PROVE  Live(k)'
    BY <2>1 DEF Create, Begin, Chunk, Loaded, LimitReached
  <2>2. ASSUME NEW j \in Imports, SelectAbsent(j) \/ Complete(j) \/ Failed(j)
        PROVE  Live(k)'
    BY <2>2 DEF SelectAbsent, Complete, Failed
  <2>3. ASSUME NEW j \in Imports, Raise(j)
        PROVE  Live(k)'
    BY <2>3 DEF Raise
  <2>4. ASSUME NEW j \in Imports, Lose(j) \/ Cancelled(j)
        PROVE  FALSE
    BY <2>4 DEF Lose, Cancelled
  <2>5. CASE Stop \/ Crash \/ Exit \/ BootUnrecovered
    BY <2>5 DEF Stop, Crash, Exit, Die, BootUnrecovered
  <2>6. CASE Boot \/ CleanupAbandonedJobs
    BY <2>6 DEF Boot, Recovered, CleanupAbandonedJobs
  <2>7. CASE UNCHANGED vars
    BY <2>7 DEF vars
  <2> QED
    BY <2>1, <2>2, <2>3, <2>4, <2>5, <2>6, <2>7 DEF Next, Step
<1> QED
  BY <1>1, <1>2, ImportTypes, PTL DEF Spec

-----------------------------------------------------------------------------
(* Who is present in a county once its import completes.                   *)
OwnCounty(j) == county[j] \in {"none", CountyOf[j]}

(* An import that will remove the absent has in its hands every voter      *)
(* present in its county: the file's, and those it found absent.           *)
Accounted(j) == pc[j] = "completing" /\ j \notin Capped /\ county[j] # "none" =>
                  Present(voters, CountyOf[j]) \subseteq absent[j] \cup kept[j]

(* No import adds a voter to the county of another.                        *)
OneEach == \A i, j \in Imports : CountyOf[i] = CountyOf[j] => i = j

(* Unless imports overlapped, one is under way at most, and what it has    *)
(* loaded is there.                                                        *)
Alone         == ~spent.overlap => \A i, j \in Imports : Live(i) /\ Live(j) => i = j
KeptPresent(j) == /\ pc[j] \in {"idle", "created"} => kept[j] = {}
                  /\ ~spent.overlap /\ pc[j] \in BodyPcs =>
                       kept[j] \subseteq Present(voters, CountyOf[j])

AccountedInv == /\ Alone
                /\ \A j \in Imports : /\ OwnCounty(j) /\ KeptPresent(j)
                                      /\ OneEach \/ ~spent.overlap => Accounted(j)

(* What the soft delete does to a voter.                                   *)
LEMMA RemovedIs ==
  ASSUME TypeOK, NEW j \in Imports, NEW v \in Voters
  PROVE  /\ Removed(j)[v].county = voters[v].county
         /\ Removed(j)[v].present <=> voters[v].present /\ v \notin absent[j]
<1>1. voters[v] \in Voter
  BY DEF TypeOK
<1>2. CASE v \in absent[j]
  <2>1. Removed(j)[v] = [voters[v] EXCEPT !.present = FALSE, !.by = j]
    BY <1>2 DEF Removed
  <2> QED
    BY <1>1, <1>2, <2>1 DEF Voter
<1>3. CASE v \notin absent[j]
  BY <1>1, <1>3 DEF Removed, Voter
<1> QED
  BY <1>2, <1>3

(* Only Create can make imports overlap.                                   *)
LEMMA AloneNext ==
  ASSUME TypeOK, Alone, [Next]_vars
  PROVE  Alone' /\ (spent.overlap => spent'.overlap)
<1> USE DEF TypeOK, Goto, locals, Live, LivePcs, Spend
<1>1. ASSUME NEW j \in Imports, Create(j)
      PROVE  /\ spent'.overlap <=> spent.overlap \/ \E k \in Imports : Live(k)
             /\ \A k \in Imports \ {j} : Live(k)' => Live(k)
  BY <1>1 DEF Create
<1>2. ASSUME spent'.overlap <=> spent.overlap, \A k \in Imports : Live(k)' => Live(k)
      PROVE  Alone' /\ (spent.overlap => spent'.overlap)
  BY <1>2 DEF Alone
<1>3. ASSUME NEW j \in Imports, Step(j)
      PROVE  Alone' /\ (spent.overlap => spent'.overlap)
  BY <1>2, <1>3 DEF Step, Begin, Chunk, Loaded, LimitReached, SelectAbsent, Complete, Failed
<1>4. ASSUME NEW j \in Imports, Raise(j) \/ Lose(j) \/ Cancelled(j)
      PROVE  Alone' /\ (spent.overlap => spent'.overlap)
  BY <1>2, <1>4 DEF Raise, Lose, Cancelled, BodyPcs
<1>5. CASE Stop \/ Crash \/ Exit
  BY <1>2, <1>5 DEF Stop, Crash, Exit, Die
<1>6. CASE Boot \/ BootUnrecovered \/ CleanupAbandonedJobs \/ UNCHANGED vars
  BY <1>2, <1>6 DEF Boot, BootUnrecovered, CleanupAbandonedJobs, vars
<1>7. ASSUME NEW j \in Imports, Create(j)
      PROVE  Alone' /\ (spent.overlap => spent'.overlap)
  BY <1>1, <1>7 DEF Alone
<1> QED
  BY <1>3, <1>4, <1>5, <1>6, <1>7 DEF Next

(* The accounting holds at the start and over every step.                  *)
LEMMA AccountedInduction == Spec => []AccountedInv
<1> USE DEF OwnCounty, Accounted, KeptPresent
<1>1. Init => AccountedInv
  BY DEF Init, AccountedInv, Alone, Live, LivePcs, BodyPcs
<1>2. TypeOK /\ AccountedInv /\ [Next]_vars => AccountedInv'
  <2> SUFFICES ASSUME TypeOK, AccountedInv, [Next]_vars, NEW k \in Imports
               PROVE  OwnCounty(k)' /\ KeptPresent(k)'
                      /\ (OneEach \/ ~spent'.overlap => Accounted(k)')
    BY AloneNext DEF AccountedInv
  <2> DEFINE Goal == OwnCounty(k)' /\ KeptPresent(k)'
                     /\ (OneEach \/ ~spent'.overlap => Accounted(k)')
  <2>0. spent.overlap => spent'.overlap
    BY AloneNext DEF AccountedInv
  <2>a. OwnCounty(k) /\ KeptPresent(k) /\ (OneEach \/ ~spent'.overlap => Accounted(k))
    BY <2>0 DEF AccountedInv
  <2>o. ASSUME NEW j \in Imports, j # k, Live(j), ~spent'.overlap
        PROVE  ~Live(k)
    BY <2>0, <2>o DEF AccountedInv, Alone
  <2> USE DEF TypeOK, Goto, locals, BodyPcs
  <2>1. ASSUME UNCHANGED <<voters, county, kept, absent>>,
               pc'[k] = "completing" => pc[k] = "completing" \/ k \in Capped,
               pc'[k] \in BodyPcs => pc[k] \in BodyPcs \cup {"created"},
               pc'[k] \in {"idle", "created"} => pc[k] \in {"idle", "created"}
        PROVE  Goal
    BY <2>0, <2>a, <2>1 DEF Present
  <2>2. ASSUME NEW j \in Imports, Create(j) \/ Begin(j) \/ Loaded(j) \/ LimitReached(j)
        PROVE  Goal
    BY <2>1, <2>2 DEF Create, Begin, Loaded, LimitReached
  <2>3. ASSUME NEW j \in Imports, Raise(j) \/ Failed(j) \/ Lose(j) \/ Cancelled(j)
        PROVE  Goal
    BY <2>1, <2>3 DEF Raise, Failed, Lose, Cancelled
  <2>4. ASSUME NEW j \in Imports, Chunk(j)
        PROVE  Goal
    <3>1. PICK valid \in SUBSET todo[j] :
            /\ voters' = Upserted(j, valid)
            /\ county' = [county EXCEPT ![j] = CountyOf[j]]
            /\ kept' = [kept EXCEPT ![j] = @ \cup valid]
      BY <2>4 DEF Chunk
    <3>2. pc[j] = "chunks" /\ Live(j) /\ UNCHANGED <<status, pc, absent, spent>>
      BY <2>4 DEF Chunk, Live, LivePcs
    <3>3. CASE k = j
      BY <2>a, <3>1, <3>2, <3>3 DEF Upserted, Present
    <3>4. CASE k # j /\ ~spent.overlap
      BY <2>a, <2>o, <3>1, <3>2, <3>4 DEF Live, LivePcs
    <3>5. CASE k # j /\ spent.overlap
      <4>1. OneEach => Present(voters', CountyOf[k]) \subseteq Present(voters, CountyOf[k])
        BY <3>1, <3>5 DEF Upserted, Present, OneEach
      <4> QED
        BY <2>a, <3>1, <3>2, <3>5, <4>1
    <3> QED
      BY <3>3, <3>4, <3>5
  <2>5. ASSUME NEW j \in Imports, SelectAbsent(j)
        PROVE  Goal
    <3>1. /\ absent' = [absent EXCEPT ![j] =
                          {v \in Voters : voters[v].county = county[j] /\ voters[v].present}
                          \ kept[j]]
          /\ pc[j] = "absentees" /\ pc' = [pc EXCEPT ![j] = "completing"]
          /\ UNCHANGED <<voters, county, kept, spent>>
      BY <2>5 DEF SelectAbsent
    <3> QED
      BY <2>a, <3>1 DEF Present
  <2>6. ASSUME NEW j \in Imports, Complete(j)
        PROVE  Goal
    <3>1. /\ voters' = Removed(j) /\ pc[j] = "completing" /\ pc' = [pc EXCEPT ![j] = "done"]
          /\ UNCHANGED <<county, kept, absent, spent>>
      BY <2>6 DEF Complete
    <3>2. \A v \in Voters : voters'[v].county = voters[v].county
                            /\ (voters'[v].present => voters[v].present)
      BY <3>1, RemovedIs
    <3>3. Present(voters', CountyOf[k]) \subseteq Present(voters, CountyOf[k])
      BY <3>2 DEF Present
    <3>4. k # j /\ ~spent'.overlap => ~Live(k)
      BY <2>o, <3>1 DEF Live, LivePcs
    <3> QED
      BY <2>a, <3>1, <3>3, <3>4 DEF Live, LivePcs
  <2>7. CASE Stop \/ Crash \/ Exit \/ Boot \/ BootUnrecovered \/ CleanupAbandonedJobs
             \/ UNCHANGED vars
    BY <2>1, <2>7 DEF Stop, Crash, Exit, Die, Boot, BootUnrecovered, CleanupAbandonedJobs,
                      vars, Local, Live, LivePcs
  <2> QED
    BY <2>2, <2>3, <2>4, <2>5, <2>6, <2>7 DEF Next, Step
<1> QED
  BY <1>1, <1>2, ImportTypes, PTL DEF Spec

(* An import finishes in its own completion only.                          *)
LEMMA FinishIsComplete ==
  ASSUME TypeOK, CompletedIsDone, [Next]_vars, NEW j \in Imports, Finishes(j)
  PROVE  Complete(j)
<1> USE DEF TypeOK, Goto, Set, locals, Finishes
<1>1. ASSUME NEW k \in Imports, Create(k) \/ Begin(k) \/ Chunk(k) \/ Loaded(k)
                                \/ LimitReached(k) \/ SelectAbsent(k)
      PROVE  FALSE
  BY <1>1 DEF Create, Begin, Chunk, Loaded, LimitReached, SelectAbsent
<1>2. ASSUME NEW k \in Imports, Raise(k) \/ Failed(k)
      PROVE  FALSE
  BY <1>2 DEF Raise, Failed
<1>3. ASSUME NEW k \in Imports, Complete(k)
      PROVE  k = j
  BY <1>3 DEF Complete
<1>4. status[j] # "completed"
  BY DEF CompletedIsDone
<1>5. ASSUME NEW k \in Imports, Lose(k) \/ Cancelled(k)
      PROVE  FALSE
  BY <1>4, <1>5 DEF Lose, Cancelled
<1>6. ~(Stop \/ Crash \/ Exit \/ Boot \/ BootUnrecovered \/ CleanupAbandonedJobs \/ UNCHANGED vars)
  BY <1>4 DEF Stop, Crash, Exit, Die, Boot, BootUnrecovered, Recovered, CleanupAbandonedJobs, vars
<1> QED
  BY <1>1, <1>2, <1>3, <1>5, <1>6 DEF Next, Step

(* After its completion an import leaves nobody of its county present whom *)
(* its file does not have, though others of other counties run beside it.  *)
THEOREM StrangersAreRemoved == ASSUME OneEach PROVE Spec => NoStrangersLeft
<1>1. TypeOK /\ CompletedIsDone /\ AccountedInv /\ [Next]_vars =>
        [\A j \in Imports \ Capped :
           Finishes(j) /\ county[j] # "none" =>
             Present(voters', CountyOf[j]) \subseteq kept[j]]_vars
  <2> SUFFICES ASSUME TypeOK, CompletedIsDone, AccountedInv, [Next]_vars,
                      NEW j \in Imports \ Capped,
                      Finishes(j), county[j] # "none"
               PROVE  Present(voters', CountyOf[j]) \subseteq kept[j]
    OBVIOUS
  <2>1. Complete(j)
    BY FinishIsComplete
  <2>2. Present(voters, CountyOf[j]) \subseteq absent[j] \cup kept[j]
    BY DEF Finishes, AccountedInv, Accounted
  <2>3. ASSUME NEW v \in Voters, voters'[v].present, voters'[v].county = CountyOf[j]
        PROVE  v \notin absent[j] /\ v \in Present(voters, CountyOf[j])
    BY <2>1, <2>3, RemovedIs DEF Complete, Present
  <2> QED
    BY <2>2, <2>3 DEF Present
<1>2. RemovalInv => CompletedIsDone
  BY DEF RemovalInv
<1> QED
  BY <1>1, <1>2, AccountedInduction, RemovalInduction, ImportTypes, PTL DEF Spec, NoStrangersLeft

(* As long as imports followed one another, the voters present in a county *)
(* after its import are exactly the valid ones of its file.                *)
THEOREM CountyBecomesFile == Spec => CountyIsFile
<1>1. TypeOK /\ RemovalInv /\ AccountedInv /\ [Next]_vars =>
        [\A j \in Imports \ Capped :
           ~spent.overlap /\ Finishes(j) /\ county[j] # "none" =>
             Present(voters', CountyOf[j]) = kept[j]]_vars
  <2> SUFFICES ASSUME TypeOK, RemovalInv, AccountedInv, [Next]_vars, NEW j \in Imports \ Capped,
                      ~spent.overlap, Finishes(j), county[j] # "none"
               PROVE  Present(voters', CountyOf[j]) = kept[j]
    OBVIOUS
  <2>1. Complete(j)
    BY FinishIsComplete DEF RemovalInv
  <2>2. /\ Present(voters, CountyOf[j]) \subseteq absent[j] \cup kept[j]
        /\ kept[j] \subseteq Present(voters, CountyOf[j])
    BY DEF Finishes, AccountedInv, Accounted, KeptPresent, BodyPcs
  <2>3. absent[j] \cap kept[j] = {}
    BY DEF Finishes, RemovalInv, AbsentAreNotKept
  <2>4. Present(voters', CountyOf[j]) = Present(voters, CountyOf[j]) \ absent[j]
    BY <2>1, RemovedIs DEF Complete, Present
  <2> QED
    BY <2>2, <2>3, <2>4
<1> QED
  BY <1>1, AccountedInduction, RemovalInduction, ImportTypes, PTL DEF Spec, CountyIsFile
=============================================================================
