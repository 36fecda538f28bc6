---------------------------- MODULE VoterLocations ----------------------------
(***************************************************************************)
(* The geocoded locations of one voter, which of them is primary, and the  *)
(* voter's official location, under concurrent READ COMMITTED transactions *)
(* of PostgreSQL: batch jobs and requests that store geocoding results,    *)
(* manual locations, the choice of a primary and administrator overrides.  *)
(*                                                                         *)
(* A statement sees what was committed when it started and what its own    *)
(* transaction wrote; a row that another transaction wrote is locked until *)
(* that one ends.  The ORM writes a column only if its value differs from  *)
(* the one the session loaded.  One action stands for one statement.       *)
(***************************************************************************)
EXTENDS Naturals, Sequences, FiniteSets

CONSTANTS Providers,   \* geocoding providers
          Manual,      \* sources entered by hand: "manual", "field-survey"
          Confidence,  \* confidence score of each source's result, 0 for NULL
          Overrides,   \* coordinates an administrator may choose
          Initials,    \* sets of sources the voter may have locations from at first
          Requests,    \* requests that may arrive
          Txs,         \* transactions
          MaxActive    \* bound on transactions open at the same time

Sources   == Providers \cup Manual
Resources == Sources \cup {"voter"}

ASSUME SourcesAssumption ==
  /\ Providers \cap Manual = {}
  /\ (Sources \cup Overrides) \cap {"none", "admin", "voter"} = {}
  /\ Sources \cap Overrides = {}
  /\ Initials \subseteq SUBSET Sources
  /\ Confidence \in [Sources -> Nat]
  /\ \A s, u \in Sources : Confidence[s] = Confidence[u] => s = u
  /\ "free" \notin Txs

(* What is true of every finite set of sources.                            *)
ASSUME BestAssumption ==
  \A S \in SUBSET Sources :
     S # {} => \E s \in S : \A u \in S : Confidence[u] <= Confidence[s]

(* The endpoints: what each may ask for.                                   *)
ASSUME RequestsAssumption ==
  \A r \in Requests :
     /\ r \in [op   : {"store", "manual", "primary", "override", "clear"},
              srcs : Seq(Sources \cup Overrides), prim : BOOLEAN]
     /\ r.op = "store" => r.srcs \in Seq(Providers) /\ r.srcs # <<>>
     /\ r.op \in {"manual", "primary"} => r.srcs # <<>> /\ Head(r.srcs) \in Sources
     /\ r.op = "override" => r.srcs # <<>> /\ Head(r.srcs) \in Overrides

VARIABLES
  locs,  \* committed geocoded_locations of the voter, by source
  voter, \* committed official_* columns: [point, source, override]
  lock,  \* who wrote a row and has not ended
  tx,    \* the transactions; todo: the sources to store, one after another,
         \* or the location or the coordinates of the request
  overlap, \* history: have transactions been open at the same time,
  raced    \* and was a location inserted since

history == <<overlap, raced>>
vars    == <<locs, voter, lock, tx, history>>

(* The official coordinates are a source's, an administrator's, or NULL.   *)
Official == [point    : Sources \cup Overrides \cup {"none"},
             source   : Sources \cup {"none", "admin"},
             override : BOOLEAN]
Columns  == {"point", "source", "override"}

Present(f) == {s \in Sources : f[s] # "absent"}
Primary(f) == {s \in Sources : f[s] = "primary"}

(* ORDER BY confidence_score DESC NULLS LAST LIMIT 1                       *)
Best(f) == IF Present(f) = {} THEN "none"
           ELSE CHOOSE s \in Present(f) :
                  \A u \in Present(f) : Confidence[u] <= Confidence[s]

Idle == [pc |-> "idle", op |-> "none", todo |-> <<>>, prim |-> FALSE, first |-> FALSE,
         many |-> FALSE,                        \* stores several locations
         wrote |-> [s \in Sources |-> "same"],  \* locations written
         snap |-> {},                           \* rows a blocked UPDATE will touch
         mem |-> [point |-> "none", source |-> "none", override |-> FALSE],
         base |-> [point |-> "none", source |-> "none", override |-> FALSE],
         cols |-> {}]                           \* voter columns written

Init == /\ \E S \in Initials : \E p \in S \cup {"none"} :
             /\ p = "none" <=> S = {}
             /\ locs = [s \in Sources |-> CASE s = p -> "primary"
                                            [] s \in S \ {p} -> "plain"
                                            [] OTHER -> "absent"]
        /\ voter = [point |-> Best(locs), source |-> Best(locs), override |-> FALSE]
        /\ lock = [r \in Resources |-> "free"]
        /\ tx = [t \in Txs |-> Idle]
        /\ overlap = FALSE /\ raced = FALSE

-----------------------------------------------------------------------------
Active(t)   == tx[t].pc \notin {"idle", "done"}
Seen(t)     == [s \in Sources |-> IF tx[t].wrote[s] = "same" THEN locs[s] ELSE tx[t].wrote[s]]
Free(t, R)  == \A r \in R : lock[r] \in {"free", t}
Take(t, R)  == lock' = [r \in Resources |-> IF r \in R THEN t ELSE lock[r]]
Target(t)   == Head(tx[t].todo)
At(t, l)    == tx[t].pc = l
Becomes(t, rec) == tx' = [tx EXCEPT ![t] = rec]

Write(t, s, flag) == [tx[t].wrote EXCEPT ![s] = flag]

Discard(t) == /\ lock' = [r \in Resources |-> IF lock[r] = t THEN "free" ELSE lock[r]]
              /\ Becomes(t, [Idle EXCEPT !.pc = "done"])
              /\ UNCHANGED <<locs, voter, history>>

FirstPc(op) == CASE op = "manual"  -> "count"
                 [] op = "primary" -> "demote"
                 [] OTHER          -> "load"

(* A request arrives, or a batch reaches the voter; setting the primary    *)
(* finds its location first and gives up if there is none.                 *)
Begin(t, r) == /\ At(t, "idle")
               /\ Cardinality({u \in Txs : Active(u)}) < MaxActive
               /\ r.op = "primary" => locs[Head(r.srcs)] # "absent"
               /\ Becomes(t, [tx[t] EXCEPT !.pc = FirstPc(r.op), !.op = r.op,
                                           !.todo = r.srcs, !.prim = r.prim,
                                           !.many = Len(r.srcs) > 1])
               /\ overlap' = (overlap \/ \E u \in Txs : Active(u))
               /\ UNCHANGED <<locs, voter, lock, raced>>

(* The voter is loaded; an override or its removal assigns the columns of  *)
(* the loaded object.                                                      *)
Load(t) ==
  /\ At(t, "load")
  /\ LET op == tx[t].op
         mem == CASE op = "override" -> [point |-> Target(t), source |-> "admin", override |-> TRUE]
                  [] op = "clear"    -> [voter EXCEPT !.override = FALSE]
                  [] OTHER           -> voter
         next == CASE op = "override" -> "flush"
                   [] op = "clear"    -> "autoflush"
                   [] op = "store"    -> "upsert"
                   [] OTHER           -> "best"
     IN Becomes(t, [tx[t] EXCEPT !.pc = next, !.base = voter, !.mem = mem])
  /\ UNCHANGED <<locs, voter, lock, history>>

-----------------------------------------------------------------------------
(* _store_geocoded_location.                                               *)

(* INSERT ... ON CONFLICT (voter, source) DO UPDATE: a new location is not *)
(* primary, an old one keeps its flag.                                     *)
Upsert(t) ==
  /\ At(t, "upsert")
  /\ Free(t, {Target(t)})
  /\ Take(t, {Target(t)})
  /\ Becomes(t, [tx[t] EXCEPT !.pc = "promote",
                   !.wrote = IF Seen(t)[Target(t)] = "absent"
                               THEN Write(t, Target(t), "plain") ELSE @])
  /\ UNCHANGED <<locs, voter, history>>

(* Wrong variant: a stored location is made primary like a chosen one.     *)
PromoteByDemoting(t) ==
  /\ At(t, "promote")
  /\ Becomes(t, [tx[t] EXCEPT !.pc = "demoting", !.snap = Present(Seen(t))])
  /\ UNCHANGED <<locs, voter, lock, history>>

(* UPDATE ... SET is_primary WHERE NOT EXISTS another primary.             *)
Promote(t) ==
  /\ At(t, "promote")
  /\ Becomes(t, [tx[t] EXCEPT !.pc = "best",
                   !.wrote = IF Primary(Seen(t)) \ {Target(t)} = {}
                               THEN Write(t, Target(t), "primary") ELSE @])
  /\ UNCHANGED <<locs, voter, lock, history>>

-----------------------------------------------------------------------------
(* add_manual_location.                                                    *)

Count(t) == /\ At(t, "count")
            /\ Becomes(t, [tx[t] EXCEPT !.pc = "insert", !.first = Present(locs) = {}])
            /\ UNCHANGED <<locs, voter, lock, history>>

(* Wrong variant: another primary is not demoted.                          *)
InsertOnly(t) ==
  /\ At(t, "insert")
  /\ Free(t, {Target(t)})
  /\ Seen(t)[Target(t)] = "absent"
  /\ Take(t, {Target(t)})
  /\ Becomes(t, [tx[t] EXCEPT
        !.pc = "load",
        !.wrote = Write(t, Target(t), IF tx[t].prim \/ tx[t].first THEN "primary"
                                                                  ELSE "plain")])
  /\ UNCHANGED <<locs, voter, history>>

(* The INSERT waits for another transaction's row of the same source.      *)
Insert(t) ==
  /\ At(t, "insert")
  /\ Free(t, {Target(t)})
  /\ Seen(t)[Target(t)] = "absent"
  /\ Take(t, {Target(t)})
  /\ Becomes(t, [tx[t] EXCEPT
        !.pc = IF tx[t].prim /\ ~tx[t].first THEN "demote" ELSE "load",
        !.wrote = Write(t, Target(t), IF tx[t].prim \/ tx[t].first THEN "primary"
                                                                  ELSE "plain")])
  /\ UNCHANGED <<locs, voter, history>>

(* IntegrityError: the voter has a location from this source.              *)
InsertFails(t) == /\ At(t, "insert")
                  /\ Free(t, {Target(t)})
                  /\ Seen(t)[Target(t)] # "absent"
                  /\ Discard(t)

-----------------------------------------------------------------------------
(* _set_primary: demote every location the statement sees, then promote    *)
(* the target.                                                             *)

Demote(t) == /\ At(t, "demote")
             /\ Becomes(t, [tx[t] EXCEPT !.pc = "demoting", !.snap = Present(Seen(t))])
             /\ UNCHANGED <<locs, voter, lock, history>>

(* Wrong variant: the loaded object is not told of the bulk update, so a   *)
(* target that was primary already is not written again.                   *)
SetPrimaryUnsynchronised(t) ==
  /\ At(t, "demoting")
  /\ Free(t, tx[t].snap)
  /\ Take(t, tx[t].snap)
  /\ Becomes(t, [tx[t] EXCEPT !.pc = "load", !.snap = {},
        !.wrote = [s \in Sources |->
                     IF s \notin tx[t].snap THEN @[s]
                     ELSE IF s = Target(t) /\ Seen(t)[s] = "plain" THEN "primary"
                                                                   ELSE "plain"]])
  /\ UNCHANGED <<locs, voter, history>>

(* The rows are locked as they become free.                                *)
SetPrimary(t) ==
  /\ At(t, "demoting")
  /\ Free(t, tx[t].snap)
  /\ Take(t, tx[t].snap)
  /\ Becomes(t, [tx[t] EXCEPT !.pc = "load", !.snap = {},
        !.wrote = [s \in Sources |-> CASE s = Target(t)     -> "primary"
                                       [] s \in tx[t].snap \ {Target(t)} -> "plain"
                                       [] OTHER             -> @[s]]])
  /\ UNCHANGED <<locs, voter, history>>

-----------------------------------------------------------------------------
(* sync_official_location.                                                 *)

(* Wrong variants: overrides are not looked at; the source is left alone.  *)
SyncAlways(t) ==
  /\ At(t, "best")
  /\ LET best == Best(Seen(t))
     IN Becomes(t, [tx[t] EXCEPT !.pc = "flush",
                      !.mem = [@ EXCEPT !.point = best, !.source = best]])
  /\ UNCHANGED <<locs, voter, lock, history>>

SyncPointOnly(t) ==
  /\ At(t, "best")
  /\ Becomes(t, [tx[t] EXCEPT !.pc = "flush",
                   !.mem = IF @.override THEN @ ELSE [@ EXCEPT !.point = Best(Seen(t))]])
  /\ UNCHANGED <<locs, voter, lock, history>>

(* The best location the statement sees is assigned to the loaded voter,   *)
(* unless that voter was loaded with an override.                          *)
SyncBest(t) ==
  /\ At(t, "best")
  /\ LET best == Best(Seen(t))
     IN Becomes(t, [tx[t] EXCEPT !.pc = "flush",
                      !.mem = IF @.override THEN @
                              ELSE [@ EXCEPT !.point = best, !.source = best]])
  /\ UNCHANGED <<locs, voter, lock, history>>

Changed(t) == {c \in Columns : tx[t].mem[c] # tx[t].base[c]}

(* Wrong variant: removing an override does not go back to the best one.   *)
FlushWithoutSync(t) ==
  /\ tx[t].pc \in {"flush", "autoflush"}
  /\ Changed(t) # {} => Free(t, {"voter"})
  /\ Take(t, IF Changed(t) = {} THEN {} ELSE {"voter"})
  /\ Becomes(t, [tx[t] EXCEPT !.pc = "commit", !.base = tx[t].mem,
                              !.cols = @ \cup Changed(t)])
  /\ UNCHANGED <<locs, voter, history>>

(* Write the columns that differ from what was loaded.                     *)
Flush(t) ==
  /\ tx[t].pc \in {"flush", "autoflush"}
  /\ Changed(t) # {} => Free(t, {"voter"})
  /\ Take(t, IF Changed(t) = {} THEN {} ELSE {"voter"})
  /\ LET left == IF tx[t].op = "store" THEN Tail(tx[t].todo) ELSE <<>>
         next == IF At(t, "autoflush") THEN "best"
                 ELSE IF left = <<>> THEN "commit" ELSE "upsert"
     IN Becomes(t, [tx[t] EXCEPT !.pc = next, !.todo = IF tx[t].op = "store" THEN left ELSE @,
                      !.base = tx[t].mem, !.cols = @ \cup Changed(t)])
  /\ UNCHANGED <<locs, voter, history>>

Commit(t) ==
  /\ At(t, "commit")
  /\ locs' = Seen(t)
  /\ voter' = [c \in Columns |-> IF c \in tx[t].cols THEN tx[t].base[c] ELSE voter[c]]
  /\ lock' = [r \in Resources |-> IF lock[r] = t THEN "free" ELSE lock[r]]
  /\ Becomes(t, [Idle EXCEPT !.pc = "done"])
  /\ raced' = (raced \/ (overlap /\ Present(locs') # Present(locs)))
  /\ UNCHANGED overlap

(* The transaction is rolled back: an exception, a lost connection, or the *)
(* database breaking a deadlock.                                           *)
Abort(t) == Active(t) /\ Discard(t)

-----------------------------------------------------------------------------
Next == \E t \in Txs :
          \/ \E r \in Requests : Begin(t, r)
          \/ Load(t) \/ Upsert(t) \/ Promote(t)
          \/ Count(t) \/ Insert(t) \/ InsertFails(t)
          \/ Demote(t) \/ SetPrimary(t)
          \/ SyncBest(t) \/ Flush(t) \/ Commit(t) \/ Abort(t)

Spec == Init /\ [][Next]_vars

-----------------------------------------------------------------------------
(* Type invariant. *)
Flags == {"absent", "plain", "primary"}

TypeOK == /\ locs \in [Sources -> Flags]
          /\ voter \in Official
          /\ lock \in [Resources -> Txs \cup {"free"}]
          /\ \A t \in Txs : /\ tx[t].wrote \in [Sources -> Flags \cup {"same"}]
                            /\ tx[t].snap \subseteq Sources
                            /\ tx[t].mem \in Official /\ tx[t].base \in Official
                            /\ tx[t].cols \subseteq Columns

(* A voter with locations has a primary one, whatever overlaps or aborts:  *)
(* nobody leaves the promotion to another transaction that then forgets it.*)
HasPrimary == Present(locs) # {} => Primary(locs) # {}

(* ... and no second one, as long as no location is inserted after         *)
(* transactions overlapped: whoever demotes locks every location, so the   *)
(* choices of a primary follow one another.                                *)
AtMostOnePrimary == ~raced => Cardinality(Primary(locs)) <= 1

(* Both, of rows of the right type.                                        *)
OnePrimary == TypeOK /\ HasPrimary /\ AtMostOnePrimary

(* While transactions follow one another, the official location is the     *)
(* best one unless an administrator overrides it,                          *)
OfficialIsBest == ~overlap /\ ~voter.override => voter.point = Best(locs)

(* an override keeps the administrator's coordinates until it is cleared,  *)
OverrideSticks == ~overlap /\ voter.override => voter.point \in Overrides

(* and official_source names where the official coordinates come from.     *)
SourceNamesPoint ==
  ~overlap => voter.source = IF voter.point \in Overrides THEN "admin" ELSE voter.point

(* What t waits for, and who holds it.                                     *)
Wants(t) == CASE tx[t].pc \in {"upsert", "insert"} -> {Target(t)}
              [] At(t, "demoting") -> tx[t].snap
              [] tx[t].pc \in {"flush", "autoflush"} /\ Changed(t) # {} -> {"voter"}
              [] OTHER -> {}

WaitsFor(t, u) == t # u /\ \E r \in Wants(t) : lock[r] = u

(* No two transactions wait for each other: every one of them writes       *)
(* locations before the voter, but for those that store several locations. *)
NoLockCycle ==
  \A t, u \in Txs : WaitsFor(t, u) /\ WaitsFor(u, t) => tx[t].many \/ tx[u].many

-----------------------------------------------------------------------------
(* What a document claims and the code does not keep.                      *)

(* data-model.md:158: "exactly one `is_primary = TRUE` per voter".         *)
NoSecondPrimary == Cardinality(Primary(locs)) <= 1
=============================================================================
