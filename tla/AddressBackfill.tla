---------------------------- MODULE AddressBackfill ----------------------------
(***************************************************************************)
(* Linking voters to canonical addresses.  A run pages by OFFSET through   *)
(* the voters without a link, while its own commits shrink that set; it is *)
(* documented as safe to run again, and is meant to be.                    *)
(***************************************************************************)
EXTENDS Naturals, FiniteSets, Sequences, SequencesExt, FiniteSetsExt

CONSTANTS Voters,    \* integers, in the order of voters.id
          Addresses, \* normalized addresses
          BatchSize,
          MaxCrashes \* bound on runs that are killed

NoAddress == "none"

VARIABLES
  home,    \* the normalized address of a voter, NoAddress if it has none
  bad,     \* addresses whose parts the database refuses
  store,   \* rows of the addresses table
  link,    \* voters.residence_address_id, as committed
  run,     \* the run under way: [pc, total, offset, page, new, linked, skipped]
  crashes

vars == <<home, bad, store, link, run, crashes>>

Unlinked(l)  == {v \in Voters : l[v] = NoAddress}
Linkable(v)  == home[v] \notin {NoAddress} \cup bad
Fresh        == [pc |-> "idle", total |-> 0, offset |-> 0, size |-> 0, page |-> <<>>,
                 new |-> {}, linked |-> 0, skipped |-> 0]

Init == /\ home \in [Voters -> Addresses \cup {NoAddress}]
        /\ bad \in SUBSET Addresses
        /\ store = {}
        /\ link = [v \in Voters |-> NoAddress]
        /\ run = Fresh
        /\ crashes = 0

(* A geocoded address enters the store too; a row that is there stays.     *)
UpsertFromGeocode(a) == /\ a \notin bad
                        /\ store' = store \cup {a}
                        /\ UNCHANGED <<home, bad, link, run, crashes>>

(* Wrong variant: the offset of the last run is kept.                      *)
StartResuming == /\ run.pc = "idle"
                 /\ run' = [run EXCEPT !.pc = "paging", !.total = Cardinality(Unlinked(link)),
                                       !.linked = 0, !.skipped = 0]
                 /\ UNCHANGED <<home, bad, store, link, crashes>>

Start == /\ run.pc = "idle"
         /\ run' = [Fresh EXCEPT !.pc = "paging", !.total = Cardinality(Unlinked(link))]
         /\ UNCHANGED <<home, bad, store, link, crashes>>

(* The next page of the voters that have no link now, up to the number     *)
(* there were at the start.                                                *)
Page == /\ run.pc = "paging"
        /\ LET rest == SetToSortSeq(Unlinked(link), <)
               last == Min({run.offset + BatchSize, Len(rest)})
               page == SubSeq(rest, run.offset + 1, last)
           IN run' = IF run.offset < run.total /\ page # <<>>
                       THEN [run EXCEPT !.pc = "voters", !.page = page, !.size = Len(page)]
                       ELSE [run EXCEPT !.pc = "idle"]
        /\ UNCHANGED <<home, bad, store, link, crashes>>

(* The voters of a page, one by one: without an address, with one that is  *)
(* upserted and linked, or with one that is refused.                       *)
Taking(v) == run.pc = "voters" /\ run.page # <<>> /\ Head(run.page) = v

Skip(v) == /\ Taking(v) /\ home[v] = NoAddress
           /\ run' = [run EXCEPT !.page = Tail(@), !.skipped = @ + 1]
           /\ UNCHANGED <<home, bad, store, link, crashes>>

Link(v) == /\ Taking(v) /\ Linkable(v)
           /\ run' = [run EXCEPT !.page = Tail(@), !.linked = @ + 1, !.new = @ \cup {v}]
           /\ UNCHANGED <<home, bad, store, link, crashes>>

(* The rollback takes the links of the page back, but not their count, and *)
(* expires the page's voters: reading the next one raises.                 *)
Refuse(v) == /\ Taking(v) /\ home[v] \in bad
             /\ run' = [run EXCEPT !.page = Tail(@), !.skipped = @ + 1, !.new = {},
                                   !.pc = IF Len(run.page) > 1 THEN "idle" ELSE @]
             /\ UNCHANGED <<home, bad, store, link, crashes>>

CommitPage == /\ run.pc = "voters" /\ run.page = <<>>
              /\ link' = [v \in Voters |-> IF v \in run.new THEN home[v] ELSE link[v]]
              /\ store' = store \cup {home[v] : v \in run.new}
              /\ run' = [run EXCEPT !.pc = "paging", !.offset = @ + run.size, !.new = {}]
              /\ UNCHANGED <<home, bad, crashes>>

Kill == /\ run.pc # "idle" /\ crashes < MaxCrashes
        /\ run' = [run EXCEPT !.pc = "idle", !.new = {}]
        /\ crashes' = crashes + 1
        /\ UNCHANGED <<home, bad, store, link>>

BackfillVoterAddresses ==
  Start \/ Page \/ CommitPage \/ \E v \in Voters : Skip(v) \/ Link(v) \/ Refuse(v)

Next == BackfillVoterAddresses \/ Kill \/ \E a \in Addresses : UpsertFromGeocode(a)

Spec == Init /\ [][Next]_vars

(* It is run again and again.                                              *)
FairSpec == Spec /\ WF_vars(BackfillVoterAddresses)

-----------------------------------------------------------------------------
(* "Idempotent and safe to re-run": where the database refuses no address, *)
(* running it often enough links every voter that has an address, although *)
(* each run may miss some and may be killed anywhere.                      *)
Reached   == bad = {} => \A v \in Voters : Linkable(v) => link[v] # NoAddress
Converges == <>[]Reached

-----------------------------------------------------------------------------
(* What the docstring says and the code does not do.                       *)

(* address_service.py:127: "For each unlinked voter, reconstructs the      *)
(* address from inline components, ... and sets the voter's                *)
(* residence_address_id FK".                                               *)
EachVoterLinked ==
  [][run.pc = "paging" /\ run'.pc = "idle" /\ bad = {} /\ crashes = crashes'
       => \A v \in Voters : Linkable(v) => link[v] # NoAddress]_vars
=============================================================================
