-------------------------- MODULE ImportBracketProofs --------------------------
(***************************************************************************)
(* For any set of brackets, server and command line ones in any mixture,   *)
(* the indexes and autovacuum of a table that the boot verifies have a     *)
(* bracket that will bring them back, or the server is not up, or a        *)
(* teardown was lost.                                                      *)
(***************************************************************************)
EXTENDS ImportBracket, TLAPS

(* Every variable stays in its type.                                       *)
THEOREM BracketTypes == Spec => []TypeOK
<1> USE CliAssumption, BracketBounds DEF TypeOK
<1>1. Init => TypeOK
  BY DEF Init, Phases
<1>2. TypeOK /\ [Next]_vars => TypeOK'
  <2> SUFFICES ASSUME TypeOK, [Next]_vars PROVE TypeOK'
    OBVIOUS
  <2> USE DEF Phases, Move, Die
  <2>1. ASSUME NEW o \in Owners, Enter(o) \/ Close(o) \/ Rebuild(o) \/ Lose(o)
                                          \/ CancelTeardown(o)
        PROVE  TypeOK'
    BY <2>1 DEF Enter, Close, Rebuild, Lose, CancelTeardown
  <2>2. ASSUME NEW o \in Owners, DisableAutovacuum(o) \/ DropIndexes(o) \/ Built(o)
                                                      \/ EnableAutovacuum(o)
        PROVE  TypeOK'
    BY <2>2 DEF DisableAutovacuum, DropIndexes, Built, EnableAutovacuum
  <2>3. CASE Stop \/ Crash \/ Exit \/ Boot \/ BootUnverified
    <3>1. CASE Stop
      BY <3>1 DEF Stop
    <3>2. CASE Crash
      BY <3>2 DEF Crash
    <3>3. CASE Exit
      BY <3>3 DEF Exit
    <3>4. CASE Boot
      BY <3>4 DEF Boot
    <3>5. CASE BootUnverified
      BY <3>5 DEF BootUnverified
    <3> QED
      BY <2>3, <3>1, <3>2, <3>3, <3>4, <3>5
  <2>4. CASE UNCHANGED vars
    BY <2>4 DEF vars
  <2> QED
    BY <2>1, <2>2, <2>3, <2>4 DEF Next, Bracket
<1> QED
  BY <1>1, <1>2, PTL DEF Spec

-----------------------------------------------------------------------------
(* A stopping server has not yet lost its brackets' work for good, but may *)
(* cancel a teardown; only the next boot makes up for that, so the         *)
(* induction is over states with the server up.                            *)
Sound == srv = "up" /\ losses = 0

Rebuilder(o) == phase[o] \in {"in", "closing", "building"}

(* Indexes: whoever makes them go missing rebuilds them, and a rebuild is  *)
(* left only when they exist.                                              *)
THEOREM IndexesComeBack ==
  ASSUME Verified = TRUE
  PROVE  Spec => []IndexesHaveRebuilder
<1> USE CliAssumption, BracketBounds
<1>1. Init => IndexesHaveRebuilder
  BY DEF Init, IndexesHaveRebuilder
<1>2. TypeOK /\ IndexesHaveRebuilder /\ [Next]_vars => IndexesHaveRebuilder'
  <2> SUFFICES ASSUME TypeOK, IndexesHaveRebuilder, [Next]_vars,
                      Sound', ~indexes'
               PROVE  \E o \in Owners : Rebuilder(o)'
    BY DEF IndexesHaveRebuilder, Sound, Rebuilder
  <2> USE DEF Move, Rebuilder, Sound, TypeOK
  <2>1. CASE Boot \/ BootUnverified \/ Stop \/ Crash \/ Exit
    <3>1. ~Boot
      BY DEF Boot
    <3> QED
      BY <2>1, <3>1 DEF BootUnverified, Stop, Crash, Exit, Die
  <2>2. ASSUME NEW o \in Owners, DropIndexes(o)
        PROVE  \E p \in Owners : Rebuilder(p)'
    <3>1. Rebuilder(o)'
      BY <2>2 DEF DropIndexes
    <3> QED
      BY <3>1
  <2>3. ASSUME NEW o \in Owners, Enter(o) \/ DisableAutovacuum(o) \/ Close(o)
                                  \/ Rebuild(o) \/ EnableAutovacuum(o)
        PROVE  \E p \in Owners : Rebuilder(p)'
    <3>1. srv = "up" /\ losses = 0 /\ ~indexes
      BY <2>3 DEF Enter, DisableAutovacuum, Close, Rebuild, EnableAutovacuum
    <3>2. PICK p \in Owners : Rebuilder(p)
      BY <3>1 DEF IndexesHaveRebuilder
    <3>3. Rebuilder(p)'
      BY <2>3, <3>1, <3>2
         DEF Enter, DisableAutovacuum, Close, Rebuild, EnableAutovacuum, Entered
    <3> QED
      BY <3>3
  <2>4. ASSUME NEW o \in Owners, Built(o) \/ Lose(o) \/ CancelTeardown(o)
        PROVE  FALSE
    BY <2>4 DEF Built, Lose, CancelTeardown
  <2>5. CASE UNCHANGED vars
    BY <2>5 DEF vars, IndexesHaveRebuilder
  <2> QED
    BY <2>1, <2>2, <2>3, <2>4, <2>5 DEF Next, Bracket
<1> QED
  BY <1>1, <1>2, BracketTypes, PTL DEF Spec

-----------------------------------------------------------------------------
(* Autovacuum: the enablers of AutovacuumHasEnabler.  A rebuild that will  *)
(* lose the race for the names is not one: when it ends, the invariant     *)
(* names another bracket, the winner on its way to the ALTER TABLE or one  *)
(* that switched autovacuum off since.                                     *)
Enabler(o) == \/ phase[o] \in {"dropping", "in", "closing", "enabling"}
              \/ phase[o] = "building" /\ ~indexes

(* No interleaving leaves autovacuum off with nobody to enable it.         *)
THEOREM AutovacuumComesBack ==
  ASSUME Verified = TRUE
  PROVE  Spec => []AutovacuumHasEnabler
<1> USE CliAssumption, BracketBounds
<1>1. Init => AutovacuumHasEnabler
  BY DEF Init, AutovacuumHasEnabler
<1>2. TypeOK /\ AutovacuumHasEnabler /\ [Next]_vars => AutovacuumHasEnabler'
  <2> SUFFICES ASSUME TypeOK, AutovacuumHasEnabler, [Next]_vars,
                      Sound', ~autovacuum'
               PROVE  \E o \in Owners : Enabler(o)'
    BY DEF AutovacuumHasEnabler, Sound, Enabler
  <2> USE DEF Move, Enabler, Sound, TypeOK
  <2>1. CASE Boot \/ BootUnverified \/ Stop \/ Crash \/ Exit
    <3>1. ~Boot
      BY DEF Boot
    <3> QED
      BY <2>1, <3>1 DEF BootUnverified, Stop, Crash, Exit, Die
  <2>2. ASSUME NEW o \in Owners, DisableAutovacuum(o)
        PROVE  \E p \in Owners : Enabler(p)'
    <3>1. Enabler(o)'
      BY <2>2 DEF DisableAutovacuum
    <3> QED
      BY <3>1
  <2>3. ASSUME NEW o \in Owners, Enter(o) \/ Close(o) \/ Rebuild(o) \/ DropIndexes(o)
        PROVE  \E p \in Owners : Enabler(p)'
    <3>1. srv = "up" /\ losses = 0 /\ ~autovacuum
      BY <2>3 DEF Enter, Close, Rebuild, DropIndexes
    <3>2. PICK p \in Owners : Enabler(p)
      BY <3>1 DEF AutovacuumHasEnabler
    <3>3. Enabler(p)'
      BY <2>3, <3>1, <3>2 DEF Enter, Close, Rebuild, DropIndexes, Entered
    <3> QED
      BY <3>3
  <2>4. ASSUME NEW o \in Owners, Built(o)
        PROVE  \E p \in Owners : Enabler(p)'
    <3>1. srv = "up" /\ losses = 0 /\ ~autovacuum
      BY <2>4 DEF Built
    <3>2. CASE ~indexes
      <4>1. Enabler(o)'
        BY <2>4, <3>2 DEF Built
      <4> QED
        BY <4>1
    <3>3. CASE indexes
      <4>1. PICK p \in Owners : Enabler(p)
        BY <3>1 DEF AutovacuumHasEnabler
      <4>2. p # o
        BY <2>4, <3>3, <4>1 DEF Built
      <4>3. Enabler(p)'
        BY <2>4, <3>3, <4>1, <4>2 DEF Built
      <4> QED
        BY <4>3
    <3> QED
      BY <3>2, <3>3
  <2>5. ASSUME NEW o \in Owners, EnableAutovacuum(o) \/ Lose(o) \/ CancelTeardown(o)
        PROVE  FALSE
    BY <2>5 DEF EnableAutovacuum, Lose, CancelTeardown
  <2>6. CASE UNCHANGED vars
    BY <2>6 DEF vars, AutovacuumHasEnabler
  <2> QED
    BY <2>1, <2>2, <2>3, <2>4, <2>5, <2>6 DEF Next, Bracket
<1> QED
  BY <1>1, <1>2, BracketTypes, PTL DEF Spec
=============================================================================
