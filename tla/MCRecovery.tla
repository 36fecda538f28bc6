------------------------------ MODULE MCRecovery ------------------------------
(***************************************************************************)
(* Model-checking instance of what must come back by itself: the           *)
(* bulk-import bracket (extended), the task runner's queue, the address    *)
(* backfill and the election refresh loop (instanced).  They share no      *)
(* state: part says which of them a behaviour is of, and the slots hold    *)
(* its state.  The fairness is that of each module, of its part's steps.   *)
(***************************************************************************)
EXTENDS ImportBracket, TLC

CONSTANTS ta, tb, tc, td, el1, el2, rq1, ur1

VARIABLES part, s1, s2, s3, s4, s5, s6

slots == <<s1, s2, s3, s4, s5, s6>>
all   == <<part, vars, slots>>

Runner == INSTANCE TaskRunner WITH
  Tasks <- {ta, tb, tc, td}, Slots <- 2, jobs <- s1, queue <- s2, permits <- s3

Backfill == INSTANCE AddressBackfill WITH
  Voters <- {1, 2, 3, 4}, Addresses <- {ta, tb}, BatchSize <- 2, MaxCrashes <- 1,
  home <- s1, bad <- s2, store <- s3, link <- s4, run <- s5, crashes <- s6

Tracking == INSTANCE ElectionRefresh WITH
  Elections <- {el1, el2}, Sourced <- {el1}, Urls <- {ur1}, Counties <- {tc, td}, Covers <- (ur1 :> {tc, td}),
  Requests <- {rq1}, MaxVersion <- 2, MaxEdits <- 1, MaxAsks <- 1,
  election <- s1, statewide <- s2, county <- s3, version <- s4, task <- s5, spent <- s6

-----------------------------------------------------------------------------
RecoveryInit ==
  /\ Init
  /\ \/ part = "bracket" /\ s1 = ta /\ s2 = ta /\ s3 = ta /\ s4 = ta /\ s5 = ta /\ s6 = ta
     \/ part = "runner" /\ Runner!Init /\ s4 = ta /\ s5 = ta /\ s6 = ta
     \/ part = "backfill" /\ Backfill!Init
     \/ part = "elections" /\ Tracking!Init

RecoveryNext ==
  \/ part = "bracket"   /\ Next          /\ UNCHANGED <<part, slots>>
  \/ part = "runner"    /\ Runner!Next   /\ UNCHANGED <<part, vars, s4, s5, s6>>
  \/ part = "backfill"  /\ Backfill!Next /\ UNCHANGED <<part, vars>>
  \/ part = "elections" /\ Tracking!Next /\ UNCHANGED <<part, vars>>

RecoverySpec ==
  /\ RecoveryInit /\ [][RecoveryNext]_all
  /\ \A o \in Owners : WF_all(part = "bracket" /\ Bracket(o) /\ UNCHANGED <<part, slots>>)
  /\ WF_all(part = "bracket" /\ Exit /\ UNCHANGED <<part, slots>>)
  /\ WF_all(part = "bracket" /\ (Boot \/ BootUnverified) /\ UNCHANGED <<part, slots>>)
  /\ \A t \in {ta, tb, tc, td} :
       /\ WF_all(part = "runner" /\ Runner!Acquire(t) /\ UNCHANGED <<part, vars, s4, s5, s6>>)
       /\ WF_all(/\ part = "runner" /\ \E o \in {"completed", "failed"} : Runner!Finish(t, o)
                 /\ UNCHANGED <<part, vars, s4, s5, s6>>)
  /\ WF_all(part = "backfill" /\ Backfill!BackfillVoterAddresses /\ UNCHANGED <<part, vars>>)
  /\ WF_all(part = "elections" /\ Tracking!LoopStep /\ UNCHANGED <<part, vars>>)
  /\ \A x \in {el1, el2} : SF_all(/\ part = "elections" /\ s5[Tracking!Loop].e = x
                              /\ Tracking!Fetch(Tracking!Loop) /\ UNCHANGED <<part, vars>>)

-----------------------------------------------------------------------------
(* What each part must come to, as its module states it.                   *)
NoStarvation == \A t \in {ta, tb, tc, td} : (part = "runner" /\ s1[t] = "pending")
                                          ~> (part = "runner" /\ s1[t] # "pending")
Converges    == <>[](part = "backfill" => Backfill!Reached)
CatchesUp    == \A x \in {el1, el2} :
                  <>[](part = "elections" /\ Tracking!Settled(x, ur1))
                    => <>[](part = "elections" /\ Tracking!Current(x, ur1))
================================================================================
