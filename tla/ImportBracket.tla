----------------------------- MODULE ImportBracket -----------------------------
(***************************************************************************)
(* Bulk imports switch autovacuum off and drop indexes of the table they   *)
(* load, voters or voter_history, and put everything back in a `finally`   *)
(* block.  An owner of such a bracket is one import with optimizations, or *)
(* one bulk context around many imports.  Brackets overlap: the runner     *)
(* lets two imports through, and the command line opens brackets in        *)
(* processes of its own.  A server that died inside one repairs the table  *)
(* when it boots, if the table is one that the boot verifies.              *)
(*                                                                         *)
(* Every action is one committed transaction, but for the rebuild, which   *)
(* takes minutes: it holds a SHARE lock on the table from its first CREATE *)
(* INDEX to its commit.  SHARE excludes the other statements of a bracket, *)
(* not a second rebuild.                                                   *)
(***************************************************************************)
EXTENDS Naturals, FiniteSets

CONSTANTS Owners,     \* brackets
          Cli,        \* those of the command line; the others are the server's
          Verified,   \* does the boot verify the table: voters, not voter_history
          MaxCrashes, \* bound on the server's stops and crashes
          MaxLosses   \* bound on failures that leave a bracket open

ASSUME CliAssumption == Cli \subseteq Owners /\ Verified \in BOOLEAN
ASSUME BracketBounds == MaxCrashes \in Nat /\ MaxLosses \in Nat

VARIABLES
  srv,        \* the API server process: "down", "up", or "stopping"
  phase,      \* where each bracket stands
  autovacuum, \* is autovacuum enabled on the table
  indexes,    \* do the droppable indexes exist
  crashes, losses

vars == <<srv, phase, autovacuum, indexes, crashes, losses>>

Phases   == {"out", "entering", "dropping", "in", "closing", "building", "enabling", "done"}
Entered  == {"entering", "dropping", "in"}
Teardown == {"closing", "building", "enabling"}

Runs(o) == o \in Cli \/ srv # "down"     \* the owner's process is there
Move(o, p) == phase' = [phase EXCEPT ![o] = p]

(* No other bracket holds the SHARE lock of a rebuild.                     *)
Unlocked(o) == \A p \in Owners \ {o} : phase[p] # "building"

Init == /\ srv = "up"
        /\ phase = [o \in Owners |-> "out"]
        /\ autovacuum = TRUE /\ indexes = TRUE
        /\ crashes = 0 /\ losses = 0

-----------------------------------------------------------------------------
(* The bracket.                                                            *)

Enter(o) == /\ phase[o] = "out"
            /\ o \in Cli \/ srv = "up"
            /\ Move(o, "entering")
            /\ UNCHANGED <<srv, autovacuum, indexes, crashes, losses>>

DisableAutovacuum(o) == /\ phase[o] = "entering" /\ Runs(o) /\ Unlocked(o)
                        /\ autovacuum' = FALSE
                        /\ Move(o, "dropping")
                        /\ UNCHANGED <<srv, indexes, crashes, losses>>

DropIndexes(o) == /\ phase[o] = "dropping" /\ Runs(o) /\ Unlocked(o)
                  /\ indexes' = FALSE
                  /\ Move(o, "in")
                  /\ UNCHANGED <<srv, autovacuum, crashes, losses>>

(* Wrong variant: a bracket that is left before its body skips the finally. *)
CloseBody(o) == /\ phase[o] \in Entered /\ Runs(o)
                /\ Move(o, IF phase[o] = "in" THEN "closing" ELSE "done")
                /\ UNCHANGED <<srv, autovacuum, indexes, crashes, losses>>

(* The body returned, or something in the bracket raised or was cancelled: *)
(* `finally` rolls back and starts to restore.                             *)
Close(o) == /\ phase[o] \in Entered /\ Runs(o)
            /\ Move(o, "closing")
            /\ UNCHANGED <<srv, autovacuum, indexes, crashes, losses>>

(* CREATE INDEX IF NOT EXISTS: indexes that exist are not built again.     *)
Rebuild(o) == /\ phase[o] = "closing" /\ Runs(o)
              /\ Move(o, IF indexes THEN "enabling" ELSE "building")
              /\ UNCHANGED <<srv, autovacuum, indexes, crashes, losses>>

(* Wrong variant: the rebuild is left uncommitted.                         *)
BuiltUncommitted(o) == /\ phase[o] = "building" /\ Runs(o)
                       /\ Move(o, IF indexes THEN "done" ELSE "enabling")
                       /\ UNCHANGED <<srv, autovacuum, indexes, crashes, losses>>

(* Of two rebuilds at the same time the first to commit wins; the other    *)
(* one's CREATE INDEX fails on the name, and its teardown ends there.      *)
Built(o) == /\ phase[o] = "building" /\ Runs(o)
            /\ indexes' = TRUE
            /\ Move(o, IF indexes THEN "done" ELSE "enabling")
            /\ UNCHANGED <<srv, autovacuum, crashes, losses>>

(* VACUUM ANALYZE changes nothing here, and raises at most after this.     *)
EnableAutovacuum(o) == /\ phase[o] = "enabling" /\ Runs(o) /\ Unlocked(o)
                       /\ autovacuum' = TRUE
                       /\ Move(o, "done")
                       /\ UNCHANGED <<srv, indexes, crashes, losses>>

(* The teardown raises, or Ctrl+C or a kill ends the command line inside a *)
(* bracket; the error is logged and nothing tries again.                   *)
Lose(o) == /\ losses < MaxLosses /\ losses' = losses + 1
           /\ \/ phase[o] \in Teardown /\ Runs(o)
              \/ phase[o] \in Entered /\ o \in Cli
           /\ Move(o, "done")
           /\ UNCHANGED <<srv, autovacuum, indexes, crashes>>

-----------------------------------------------------------------------------
(* The server process.                                                     *)

Stop == /\ srv = "up" /\ srv' = "stopping"
        /\ crashes < MaxCrashes /\ crashes' = crashes + 1
        /\ UNCHANGED <<phase, autovacuum, indexes, losses>>

(* A stopping loop cancels its tasks once: a bracket that is being torn    *)
(* down is left there, `except Exception` does not see a CancelledError.   *)
CancelTeardown(o) == /\ srv = "stopping" /\ o \notin Cli
                     /\ phase[o] \in Teardown
                     /\ Move(o, "done")
                     /\ UNCHANGED <<srv, autovacuum, indexes, crashes, losses>>

(* The process ends, and the server's transactions with it.                *)
Die == /\ srv' = "down"
       /\ phase' = [o \in Owners |->
                      IF o \in Cli \/ phase[o] = "out" THEN phase[o] ELSE "done"]
       /\ UNCHANGED <<autovacuum, indexes, losses>>

Crash == /\ srv = "up" /\ Die
         /\ crashes < MaxCrashes /\ crashes' = crashes + 1

Exit == srv = "stopping" /\ Die /\ UNCHANGED crashes

(* Wrong variant: the boot looks for missing indexes only.                 *)
BootIndexesOnly == /\ srv = "down" /\ srv' = "up"
                   /\ \A o \in Owners : phase[o] # "building"
                   /\ indexes' = TRUE
                   /\ UNCHANGED <<phase, autovacuum, crashes, losses>>

(* _verify_import_db_state.                                                *)
Boot == /\ srv = "down" /\ srv' = "up"
        /\ Verified => \A o \in Owners : phase[o] # "building"
        /\ autovacuum' = (autovacuum \/ Verified) /\ indexes' = (indexes \/ Verified)
        /\ UNCHANGED <<phase, crashes, losses>>

(* It raised; the exception is swallowed.                                  *)
BootUnverified == /\ srv = "down" /\ srv' = "up"
                  /\ losses < MaxLosses /\ losses' = losses + 1
                  /\ UNCHANGED <<phase, autovacuum, indexes, crashes>>

-----------------------------------------------------------------------------
Bracket(o) == \/ DisableAutovacuum(o) \/ DropIndexes(o) \/ Close(o)
              \/ Rebuild(o) \/ Built(o) \/ EnableAutovacuum(o)

Next == \/ \E o \in Owners : Enter(o) \/ Bracket(o) \/ Lose(o) \/ CancelTeardown(o)
        \/ Stop \/ Crash \/ Exit \/ Boot \/ BootUnverified

Spec == Init /\ [][Next]_vars

(* The statements of a bracket end, its body ends, a stopping server exits *)
(* and is started again.                                                   *)
FairSpec == /\ Spec
            /\ \A o \in Owners : WF_vars(Bracket(o))
            /\ WF_vars(Exit)
            /\ WF_vars(Boot \/ BootUnverified)

-----------------------------------------------------------------------------
(* Type invariant. *)
TypeOK == /\ srv \in {"down", "up", "stopping"}
          /\ phase \in [Owners -> Phases]
          /\ autovacuum \in BOOLEAN /\ indexes \in BOOLEAN
          /\ crashes \in Nat /\ losses \in Nat

(* While the server is up and no teardown was lost, indexes are missing    *)
(* only inside a bracket that will rebuild them, however brackets overlap, *)
(* collide in their rebuilds, crash and restart.                           *)
IndexesHaveRebuilder ==
  srv = "up" /\ losses = 0 /\ ~indexes =>
    \E o \in Owners : phase[o] \in {"in", "closing", "building"}

(* ... and autovacuum is off only inside a bracket that will enable it: a  *)
(* rebuild that loses the race for the index names skips the enabling, so  *)
(* the winner has to be still on its way to it.                            *)
AutovacuumHasEnabler ==
  srv = "up" /\ losses = 0 /\ ~autovacuum =>
    \E o \in Owners : \/ phase[o] \in {"dropping", "in", "closing", "enabling"}
                      \/ phase[o] = "building" /\ ~indexes

(* The table recovers through collisions, crashes and restarts, once the   *)
(* last bracket is left and unless a teardown was lost.                    *)
TableRecovers == (~indexes \/ ~autovacuum) ~> ((indexes /\ autovacuum) \/ losses > 0)
=============================================================================
