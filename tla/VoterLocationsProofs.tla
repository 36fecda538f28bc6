------------------------- MODULE VoterLocationsProofs -------------------------
(***************************************************************************)
(* For any set of sources, requests and transactions: a voter with         *)
(* locations has a primary one, and one only while no location is inserted *)
(* after transactions overlapped; the official location is the best one or *)
(* an administrator's while transactions follow one another; and only      *)
(* transactions that store several locations can wait for each other.      *)
(***************************************************************************)
EXTENDS VoterLocations, FiniteSetTheorems, TLAPS

Ops == {"store", "manual", "primary", "override", "clear"}
Pcs == {"idle", "done", "load", "flush", "autoflush", "best", "upsert", "promote",
        "count", "insert", "demote", "demoting", "commit"}
Tx  == [pc    : Pcs, op : Ops \cup {"none"}, todo : Seq(Sources \cup Overrides),
        prim  : BOOLEAN, first : BOOLEAN, many : BOOLEAN,
        wrote : [Sources -> Flags \cup {"same"}], snap : SUBSET Sources,
        mem   : Official, base : Official, cols : SUBSET Columns]

Types == TypeOK /\ tx \in [Txs -> Tx]

(* Where a transaction stands, given what it was asked for.                *)
Asked(x) ==
  /\ x.pc \in {"upsert", "promote"} => x.op = "store"
  /\ x.pc \in {"count", "insert"} => x.op = "manual"
  /\ x.pc \in {"demote", "demoting"} => x.op \in {"manual", "primary"}
  /\ x.pc = "autoflush" => x.op = "clear"
  /\ x.op = "store" /\ x.pc # "commit" => x.todo \in Seq(Providers) /\ x.todo # <<>>
  /\ x.op \in {"manual", "primary"} => x.todo # <<>> /\ Head(x.todo) \in Sources
  /\ x.op = "override" => x.todo # <<>> /\ Head(x.todo) \in Overrides
  /\ x.pc \in {"idle", "done"} => x.op = "none"
  /\ x.pc \notin {"idle", "done"} => x.op # "none"
AskedInv == \A t \in Txs : Asked(tx[t])

(* Nothing of a first location is written yet.                             *)
Early(x) == \/ x.pc \in {"idle", "done", "upsert", "count", "insert"}
            \/ x.pc = "load" /\ x.op = "store"

(* A row that was written is locked by its writer, who deletes none.       *)
Locks(t) ==
  /\ \A s \in Sources : tx[t].wrote[s] # "same" => lock[s] = t /\ tx[t].wrote[s] # "absent"
  /\ At(t, "promote") => lock[Target(t)] = t
  /\ At(t, "demote") => locs[Target(t)] # "absent" \/ tx[t].wrote[Target(t)] # "same"
  /\ At(t, "demoting") => Target(t) \in tx[t].snap
  /\ Early(tx[t]) /\ ~At(t, "upsert") => \A s \in Sources : tx[t].wrote[s] = "same"
LocksInv == \A t \in Txs : Locks(t)

(* A transaction has written a primary location, or demoted none and added *)
(* to others only.                                                         *)
Keeps(t) ==
  \/ \E s \in Sources : tx[t].wrote[s] = "primary"
  \/ \A s \in Sources : tx[t].wrote[s] = "plain" =>
       /\ locs[s] = "absent"
       /\ Present(locs) # {} \/ (At(t, "promote") /\ s = Target(t))
Primed(t) == Keeps(t) /\ (At(t, "insert") /\ ~tx[t].first => Present(locs) # {})
PrimaryInv == HasPrimary /\ \A t \in Txs : Primed(t)

(* While no location is inserted after transactions overlapped: one that   *)
(* inserts none has written the primary again, or all locations.           *)
One(f) == \A s, u \in Sources : f[s] = "primary" /\ f[u] = "primary" => s = u
Inserts(t) == \E s \in Sources : tx[t].wrote[s] # "same" /\ locs[s] = "absent"
Thin(t) == \A s \in Sources : \/ tx[t].wrote[s] = "same"
                              \/ tx[t].wrote[s] = "primary" /\ locs[s] = "primary"
Full(t) == \E p \in Sources : \A s \in Present(locs) :
             tx[t].wrote[s] = IF s = p THEN "primary" ELSE "plain"
Alone == ~overlap => \A t, u \in Txs : Active(t) /\ Active(u) => t = u
OneOf(t) ==
  /\ Inserts(t) \/ Thin(t) \/ (Full(t) /\ tx[t].op # "store")
  /\ At(t, "promote") => Seen(t)[Target(t)] # "absent"
  /\ At(t, "demoting") => Present(Seen(t)) \subseteq tx[t].snap
  /\ ~overlap /\ At(t, "insert") /\ tx[t].first => Present(locs) = {}
  /\ ~overlap /\ ~At(t, "demote") /\ ~At(t, "demoting") => One(Seen(t))
OneInv == ~raced => One(locs) /\ \A t \in Txs : OneOf(t)

(* While transactions follow one another, what is flushed agrees with the  *)
(* locations that the transaction sees.                                    *)
Marked(v)  == v.override => v.point \in Overrides /\ v.source = "admin"
Good(v, f) == Marked(v) /\ (~v.override => v.point = Best(f) /\ v.source = Best(f))
OfficialOf(t) ==
  /\ tx[t].pc \in {"upsert", "promote", "best", "flush", "autoflush", "commit"} =>
       \A c \in Columns \ tx[t].cols : tx[t].base[c] = voter[c]
  /\ tx[t].pc \in {"upsert", "promote", "best", "autoflush"} => Marked(tx[t].mem)
  /\ At(t, "flush") => Good(tx[t].mem, Seen(t))
  /\ At(t, "commit") => Good(tx[t].base, Seen(t))
OfficialInv == ~overlap => Good(voter, locs) /\ \A t \in Txs : OfficialOf(t)

(* What a transaction that stores at most one location holds, and may wait *)
(* for: rows of locations first, the voter last.                           *)
Ordered(t) ==
  /\ Early(tx[t]) => \A r \in Resources : lock[r] # t
  /\ lock["voter"] = t => tx[t].pc \in {"best", "flush", "autoflush", "commit"}
  /\ tx[t].pc \in {"demote", "demoting"} =>
       \A r \in Resources : lock[r] = t => r = Target(t) /\ locs[r] = "absent"
  /\ At(t, "demote") => \A s \in Sources : tx[t].wrote[s] # "same" => s = Target(t)
  /\ At(t, "demoting") => \A s \in tx[t].snap : locs[s] # "absent" \/ s = Target(t)
  /\ tx[t].op = "store" /\ ~At(t, "commit") => Tail(tx[t].todo) = <<>>
OrderInv == \A t \in Txs : /\ ~Active(t) => tx[t].many = FALSE
                           /\ ~tx[t].many => Ordered(t)

-----------------------------------------------------------------------------
LEMMA BestIsSource ==
  ASSUME NEW f
  PROVE  Best(f) \in Sources \cup {"none"}
<1>1. CASE Present(f) = {}
  BY <1>1 DEF Best
<1>2. CASE Present(f) # {}
  <2>1. Present(f) \in SUBSET Sources
    BY DEF Present
  <2>2. \E s \in Present(f) : \A u \in Present(f) : Confidence[u] <= Confidence[s]
    BY <1>2, <2>1, BestAssumption
  <2>3. Best(f) \in Present(f)
    BY <1>2, <2>2 DEF Best
  <2> QED
    BY <2>1, <2>3
<1> QED
  BY <1>1, <1>2

(* Every variable stays in its type, and every transaction where its       *)
(* request may bring it.                                                   *)
THEOREM LocationTypes == Spec => [](Types /\ AskedInv)
<1> USE SourcesAssumption
<1>1. Init => Types /\ AskedInv
  <2> SUFFICES ASSUME Init PROVE Types /\ AskedInv
    OBVIOUS
  <2>1. locs \in [Sources -> Flags] /\ lock \in [Resources -> Txs \cup {"free"}]
    BY DEF Init, Flags
  <2>2. voter \in Official
    BY BestIsSource DEF Init, Official
  <2>3. tx = [t \in Txs |-> Idle]
    BY DEF Init
  <2>4. Idle \in Tx /\ Asked(Idle)
    BY DEF Idle, Tx, Asked, Pcs, Ops, Official, Flags, Columns
  <2> QED
    BY <2>1, <2>2, <2>3, <2>4 DEF Types, TypeOK, AskedInv, Tx
<1>2. (Types /\ AskedInv) /\ [Next]_vars => (Types /\ AskedInv)'
  <2> SUFFICES ASSUME Types, AskedInv, [Next]_vars PROVE (Types /\ AskedInv)'
    OBVIOUS
  <2>a. /\ locs \in [Sources -> Flags] /\ voter \in Official
        /\ lock \in [Resources -> Txs \cup {"free"}] /\ tx \in [Txs -> Tx]
    BY DEF Types, TypeOK
  <2>b. ASSUME NEW t \in Txs, NEW x \in Tx, Asked(x), Becomes(t, x),
               locs' \in [Sources -> Flags], voter' \in Official,
               lock' \in [Resources -> Txs \cup {"free"}]
        PROVE  (Types /\ AskedInv)'
    BY <2>a, <2>b DEF Becomes, Types, TypeOK, AskedInv, Tx
  <2>c. ASSUME NEW t \in Txs, NEW R, Take(t, R)
        PROVE  lock' \in [Resources -> Txs \cup {"free"}]
    BY <2>a, <2>c DEF Take
  <2>d. ASSUME NEW t \in Txs
        PROVE  tx[t] \in Tx /\ Asked(tx[t])
    BY <2>a DEF AskedInv
  <2>e. [Idle EXCEPT !.pc = "done"] \in Tx /\ Asked([Idle EXCEPT !.pc = "done"])
    <3>1. Idle \in Tx
      BY DEF Idle, Tx, Pcs, Ops, Official, Flags
    <3>2. Idle.op = "none" /\ Idle.pc = "idle"
      BY DEF Idle
    <3>3. [Idle EXCEPT !.pc = "done"] \in Tx
      BY <3>1 DEF Tx, Pcs
    <3> QED
      BY <3>1, <3>2, <3>3 DEF Asked, Tx
  <2>1. ASSUME NEW t \in Txs, NEW r \in Requests, Begin(t, r)
        PROVE  (Types /\ AskedInv)'
    <3> DEFINE x == [tx[t] EXCEPT !.pc = FirstPc(r.op), !.op = r.op, !.todo = r.srcs,
                                  !.prim = r.prim, !.many = Len(r.srcs) > 1]
    <3>0. tx[t] \in Tx
      BY <2>d
    <3>2. /\ r.op \in Ops /\ r.srcs \in Seq(Sources \cup Overrides) /\ r.prim \in BOOLEAN
          /\ FirstPc(r.op) \in Pcs /\ (Len(r.srcs) > 1) \in BOOLEAN
      BY RequestsAssumption DEF Pcs, Ops, FirstPc
    <3>1a. x \in Tx
      BY <3>0, <3>2 DEF Tx
    <3>1b. Asked(x)
      BY <2>d, RequestsAssumption DEF Tx, Pcs, Ops, FirstPc, Asked
    <3>1. x \in Tx /\ Asked(x)
      BY <3>1a, <3>1b
    <3> QED
      BY <2>1, <2>a, <2>b, <3>1 DEF Begin
  <2>2. ASSUME NEW t \in Txs, Load(t)
        PROVE  (Types /\ AskedInv)'
    <3> DEFINE op == tx[t].op
               mem == CASE op = "override" -> [point |-> Target(t), source |-> "admin",
                                               override |-> TRUE]
                        [] op = "clear"    -> [voter EXCEPT !.override = FALSE]
                        [] OTHER           -> voter
               next == CASE op = "override" -> "flush"
                         [] op = "clear"    -> "autoflush"
                         [] op = "store"    -> "upsert"
                         [] OTHER           -> "best"
               x == [tx[t] EXCEPT !.pc = next, !.base = voter, !.mem = mem]
    <3>1. mem \in Official
      BY <2>2, <2>a, <2>d DEF Official, Asked, Load, At, Target
    <3>2. next \in Pcs
      BY DEF Pcs
    <3>0. tx[t] \in Tx /\ Asked(tx[t]) /\ tx[t].pc = "load"
      BY <2>2, <2>d DEF Load, At
    <3>a. /\ next \notin {"promote", "count", "insert", "demote", "demoting", "idle", "done"}
          /\ next = "upsert" => tx[t].op = "store"
          /\ next = "autoflush" => tx[t].op = "clear"
      OBVIOUS
    <3> HIDE DEF mem, next
    <3>3a. x \in Tx
      BY <3>0, <3>1, <3>2, <2>a DEF Tx
    <3>b. x.pc = next /\ x.op = tx[t].op /\ x.todo = tx[t].todo
      BY <3>0 DEF Tx
    <3>3b. Asked(x)
      BY <3>0, <3>a, <3>b DEF Asked
    <3>3. x \in Tx /\ Asked(x)
      BY <3>3a, <3>3b
    <3>4. Becomes(t, x)
      BY <2>2 DEF Load, mem, next
    <3> QED
      BY <2>2, <2>a, <2>b, <3>3, <3>4 DEF Load
  <2>3. ASSUME NEW t \in Txs, Upsert(t) \/ Promote(t)
        PROVE  (Types /\ AskedInv)'
    <3>1. CASE Upsert(t)
      <4> DEFINE x == [tx[t] EXCEPT !.pc = "promote",
                         !.wrote = IF Seen(t)[Target(t)] = "absent"
                                     THEN Write(t, Target(t), "plain") ELSE @]
      <4>0. tx[t] \in Tx
        BY <2>d
      <4>1a. x \in Tx
        BY <4>0 DEF Tx, Write, Pcs, Flags
      <4>1b. Asked(x)
        BY <3>1, <2>d DEF Tx, Asked, Upsert, At, Write, Pcs, Flags
      <4>1. x \in Tx /\ Asked(x)
        BY <4>1a, <4>1b
      <4> QED
        BY <3>1, <2>a, <2>b, <2>c, <4>1 DEF Upsert
    <3>2. CASE Promote(t)
      <4> DEFINE x == [tx[t] EXCEPT !.pc = "best",
                         !.wrote = IF Primary(Seen(t)) \ {Target(t)} = {}
                                     THEN Write(t, Target(t), "primary") ELSE @]
      <4>0. tx[t] \in Tx
        BY <2>d
      <4>1a. x \in Tx
        BY <4>0 DEF Tx, Write, Pcs, Flags
      <4>1b. Asked(x)
        BY <3>2, <2>d DEF Tx, Asked, Promote, At, Write, Pcs, Flags
      <4>1. x \in Tx /\ Asked(x)
        BY <4>1a, <4>1b
      <4> QED
        BY <3>2, <2>a, <2>b, <4>1 DEF Promote
    <3> QED
      BY <2>3, <3>1, <3>2
  <2>4. ASSUME NEW t \in Txs, Count(t) \/ Insert(t)
        PROVE  (Types /\ AskedInv)'
    <3>1. CASE Count(t)
      <4> DEFINE x == [tx[t] EXCEPT !.pc = "insert", !.first = Present(locs) = {}]
      <4>0. tx[t] \in Tx
        BY <2>d
      <4>1a. x \in Tx
        BY <4>0 DEF Tx, Pcs
      <4>1b. Asked(x)
        BY <3>1, <2>d DEF Tx, Asked, Count, At, Pcs
      <4>1. x \in Tx /\ Asked(x)
        BY <4>1a, <4>1b
      <4> QED
        BY <3>1, <2>a, <2>b, <4>1 DEF Count
    <3>2. CASE Insert(t)
      <4> DEFINE x == [tx[t] EXCEPT
            !.pc = IF tx[t].prim /\ ~tx[t].first THEN "demote" ELSE "load",
            !.wrote = Write(t, Target(t), IF tx[t].prim \/ tx[t].first THEN "primary"
                                                                      ELSE "plain")]
      <4>0. tx[t] \in Tx
        BY <2>d
      <4>1a. x \in Tx
        BY <4>0 DEF Tx, Write, Pcs, Flags
      <4>1b. Asked(x)
        BY <3>2, <2>d DEF Tx, Asked, Insert, At, Write, Pcs, Flags
      <4>1. x \in Tx /\ Asked(x)
        BY <4>1a, <4>1b
      <4> QED
        BY <3>2, <2>a, <2>b, <2>c, <4>1 DEF Insert
    <3> QED
      BY <2>4, <3>1, <3>2
  <2>5. ASSUME NEW t \in Txs, InsertFails(t) \/ Abort(t)
        PROVE  (Types /\ AskedInv)'
    <3>1. Discard(t)
      BY <2>5 DEF InsertFails, Abort
    <3> QED
      BY <3>1, <2>a, <2>b, <2>e DEF Discard
  <2>6. ASSUME NEW t \in Txs, Demote(t) \/ SetPrimary(t)
        PROVE  (Types /\ AskedInv)'
    <3>1. CASE Demote(t)
      <4> DEFINE x == [tx[t] EXCEPT !.pc = "demoting", !.snap = Present(Seen(t))]
      <4>0. tx[t] \in Tx
        BY <2>d
      <4>1a. x \in Tx
        BY <4>0 DEF Tx, Pcs, Present
      <4>1b. Asked(x)
        BY <3>1, <2>d DEF Tx, Asked, Demote, At, Pcs, Present
      <4>1. x \in Tx /\ Asked(x)
        BY <4>1a, <4>1b
      <4> QED
        BY <3>1, <2>a, <2>b, <4>1 DEF Demote
    <3>2. CASE SetPrimary(t)
      <4> DEFINE w == [s \in Sources |-> CASE s = Target(t)     -> "primary"
                                           [] s \in tx[t].snap \ {Target(t)} -> "plain"
                                           [] OTHER             -> tx[t].wrote[s]]
                 x == [tx[t] EXCEPT !.pc = "load", !.snap = {}, !.wrote = w]
      <4>1. w \in [Sources -> Flags \cup {"same"}]
        BY <2>d DEF Tx, Flags
      <4> HIDE DEF w
      <4>0. tx[t] \in Tx
        BY <2>d
      <4>2a. x \in Tx
        BY <4>0, <4>1 DEF Tx, Pcs
      <4>2b. Asked(x)
        BY <3>2, <2>d, <4>1 DEF Tx, Asked, SetPrimary, At, Pcs
      <4>2. x \in Tx /\ Asked(x)
        BY <4>2a, <4>2b
      <4>3. Becomes(t, x)
        BY <3>2 DEF SetPrimary, w
      <4> QED
        BY <3>2, <2>a, <2>b, <2>c, <4>2, <4>3 DEF SetPrimary
    <3> QED
      BY <2>6, <3>1, <3>2
  <2>7. ASSUME NEW t \in Txs, SyncBest(t)
        PROVE  (Types /\ AskedInv)'
    <3> DEFINE best == Best(Seen(t))
               m == IF tx[t].mem.override THEN tx[t].mem
                    ELSE [tx[t].mem EXCEPT !.point = best, !.source = best]
               x == [tx[t] EXCEPT !.pc = "flush", !.mem = m]
    <3>1. m \in Official
      <4>1. tx[t].mem \in Official /\ best \in Sources \cup {"none"}
        BY <2>d, BestIsSource DEF Tx
      <4>2. [tx[t].mem EXCEPT !.point = best, !.source = best] \in Official
        BY <4>1 DEF Official
      <4> QED
        BY <4>1, <4>2
    <3> HIDE DEF m
    <3>0. tx[t] \in Tx
      BY <2>d
    <3>2a. x \in Tx
      BY <3>0, <3>1 DEF Tx, Pcs
    <3>2b. Asked(x)
      BY <2>7, <2>d, <3>1 DEF Tx, Asked, SyncBest, At, Pcs
    <3>2. x \in Tx /\ Asked(x)
      BY <3>2a, <3>2b
    <3>3. Becomes(t, x)
      BY <2>7 DEF SyncBest, m
    <3> QED
      BY <2>7, <2>a, <2>b, <3>2, <3>3 DEF SyncBest
  <2>8. ASSUME NEW t \in Txs, Flush(t)
        PROVE  (Types /\ AskedInv)'
    <3> DEFINE left == IF tx[t].op = "store" THEN Tail(tx[t].todo) ELSE <<>>
               next == IF At(t, "autoflush") THEN "best"
                       ELSE IF left = <<>> THEN "commit" ELSE "upsert"
               todo == IF tx[t].op = "store" THEN left ELSE tx[t].todo
               x == [tx[t] EXCEPT !.pc = next, !.todo = todo,
                      !.base = tx[t].mem, !.cols = @ \cup Changed(t)]
    <3>1. tx[t].op = "store" => tx[t].todo \in Seq(Providers) /\ tx[t].todo # <<>>
      BY <2>8, <2>d DEF Flush, Asked
    <3>2. tx[t].op = "store" => left \in Seq(Providers) /\ left \in Seq(Sources \cup Overrides)
      BY <3>1, <2>d DEF Tx
    <3>3. todo \in Seq(Sources \cup Overrides)
      BY <3>2, <2>d DEF Tx
    <3>0. tx[t] \in Tx
      BY <2>d
    <3>4. x \in Tx
      BY <3>0, <3>3 DEF Tx, Pcs, Changed
    <3>5. Asked(x)
      BY <2>8, <2>d, <3>2 DEF Tx, Asked, Flush, At
    <3>6. Becomes(t, x)
      BY <2>8 DEF Flush
    <3> QED
      BY <2>8, <2>a, <2>b, <2>c, <3>4, <3>5, <3>6 DEF Flush
  <2>9. ASSUME NEW t \in Txs, Commit(t)
        PROVE  (Types /\ AskedInv)'
    <3>1. locs' \in [Sources -> Flags]
      BY <2>9, <2>a, <2>d DEF Commit, Seen, Tx
    <3>2. voter' \in Official
      BY <2>9, <2>a, <2>d DEF Commit, Tx, Official, Columns
    <3>3. lock' \in [Resources -> Txs \cup {"free"}]
      BY <2>9, <2>a DEF Commit
    <3> QED
      BY <2>9, <2>b, <2>e, <3>1, <3>2, <3>3 DEF Commit
  <2>10. CASE UNCHANGED vars
    BY <2>10 DEF vars, Types, TypeOK, AskedInv, Asked
  <2> QED
    BY <2>1, <2>2, <2>3, <2>4, <2>5, <2>6, <2>7, <2>8, <2>9, <2>10 DEF Next
<1> QED
  BY <1>1, <1>2, PTL DEF Spec

-----------------------------------------------------------------------------
(* What each action does to its transaction, field by field; the fields of *)
(* the other transactions stay.                                            *)
LEMMA OthersStay ==
  ASSUME Types, NEW t \in Txs, NEW x, Becomes(t, x)
  PROVE  tx'[t] = x /\ tx[t] \in Tx /\ \A u \in Txs \ {t} : tx'[u] = tx[u]
BY DEF Types, Becomes

LEMMA BeginEffect ==
  ASSUME Types, NEW t \in Txs, NEW r \in Requests, Begin(t, r)
  PROVE  /\ tx[t].pc = "idle" /\ tx'[t].pc = FirstPc(r.op)
         /\ tx'[t].op = r.op /\ tx'[t].todo = r.srcs /\ tx'[t].many = (Len(r.srcs) > 1)
         /\ tx'[t].wrote = tx[t].wrote /\ tx'[t].snap = tx[t].snap
         /\ \A u \in Txs \ {t} : tx'[u] = tx[u]
<1>1. /\ tx'[t] = [tx[t] EXCEPT !.pc = FirstPc(r.op), !.op = r.op, !.todo = r.srcs,
                                !.prim = r.prim, !.many = Len(r.srcs) > 1]
      /\ tx[t] \in Tx /\ \A u \in Txs \ {t} : tx'[u] = tx[u] /\ tx[t].pc = "idle"
  BY OthersStay DEF Begin, At
<1> QED
  BY <1>1 DEF Tx, Begin, At

LEMMA LoadEffect ==
  ASSUME Types, NEW t \in Txs, Load(t)
  PROVE  /\ tx[t].pc = "load" /\ tx'[t].base = voter
         /\ tx'[t].pc \in {"flush", "autoflush", "upsert", "best"}
         /\ tx'[t].pc = "flush" => tx[t].op = "override"
         /\ tx'[t].pc = "autoflush" => tx[t].op = "clear"
         /\ tx'[t].pc = "upsert" <=> tx[t].op = "store"
         /\ tx[t].op = "override" => /\ tx'[t].mem.point = Target(t)
                                     /\ tx'[t].mem.source = "admin"
                                     /\ tx'[t].mem.override = TRUE
         /\ tx[t].op = "clear" => tx'[t].mem = [voter EXCEPT !.override = FALSE]
         /\ tx[t].op \notin {"override", "clear"} => tx'[t].mem = voter
         /\ tx'[t].op = tx[t].op /\ tx'[t].todo = tx[t].todo /\ tx'[t].many = tx[t].many
         /\ tx'[t].wrote = tx[t].wrote /\ tx'[t].snap = tx[t].snap
         /\ tx'[t].cols = tx[t].cols
         /\ \A u \in Txs \ {t} : tx'[u] = tx[u]
<1> DEFINE op == tx[t].op
           mem == CASE op = "override" -> [point |-> Target(t), source |-> "admin",
                                           override |-> TRUE]
                    [] op = "clear"    -> [voter EXCEPT !.override = FALSE]
                    [] OTHER           -> voter
           next == CASE op = "override" -> "flush"
                     [] op = "clear"    -> "autoflush"
                     [] op = "store"    -> "upsert"
                     [] OTHER           -> "best"
<1>0. Becomes(t, [tx[t] EXCEPT !.pc = next, !.base = voter, !.mem = mem]) /\ tx[t].pc = "load"
  BY DEF Load, At
<1>1. /\ tx'[t] = [tx[t] EXCEPT !.pc = next, !.base = voter, !.mem = mem]
      /\ tx[t] \in Tx /\ \A u \in Txs \ {t} : tx'[u] = tx[u]
  BY <1>0, OthersStay
<1>2. /\ next \in {"flush", "autoflush", "upsert", "best"}
      /\ next = "flush" => op = "override"
      /\ next = "autoflush" => op = "clear"
      /\ next = "upsert" <=> op = "store"
  OBVIOUS
<1>3. /\ op = "override" => mem.point = Target(t) /\ mem.source = "admin" /\ mem.override = TRUE
      /\ op = "clear" => mem = [voter EXCEPT !.override = FALSE]
      /\ op \notin {"override", "clear"} => mem = voter
  OBVIOUS
<1> HIDE DEF next, mem
<1>4. /\ tx'[t].pc = next /\ tx'[t].base = voter /\ tx'[t].mem = mem
      /\ tx'[t].op = tx[t].op /\ tx'[t].todo = tx[t].todo /\ tx'[t].many = tx[t].many
      /\ tx'[t].wrote = tx[t].wrote /\ tx'[t].snap = tx[t].snap /\ tx'[t].cols = tx[t].cols
  BY <1>1 DEF Tx
<1> QED
  BY <1>0, <1>1, <1>2, <1>3, <1>4

LEMMA UpsertEffect ==
  ASSUME Types, NEW t \in Txs, Upsert(t)
  PROVE  /\ tx[t].pc = "upsert" /\ tx'[t].pc = "promote"
         /\ tx'[t].wrote = IF Seen(t)[Target(t)] = "absent"
                             THEN Write(t, Target(t), "plain") ELSE tx[t].wrote
         /\ tx'[t].op = tx[t].op /\ tx'[t].todo = tx[t].todo /\ tx'[t].many = tx[t].many
         /\ tx'[t].mem = tx[t].mem /\ tx'[t].base = tx[t].base /\ tx'[t].cols = tx[t].cols
         /\ \A u \in Txs \ {t} : tx'[u] = tx[u]
<1>1. /\ tx'[t] = [tx[t] EXCEPT !.pc = "promote",
                     !.wrote = IF Seen(t)[Target(t)] = "absent"
                                 THEN Write(t, Target(t), "plain") ELSE @]
      /\ tx[t] \in Tx /\ \A u \in Txs \ {t} : tx'[u] = tx[u]
  BY OthersStay DEF Upsert
<1> QED
  BY <1>1 DEF Tx, Upsert, At

LEMMA PromoteEffect ==
  ASSUME Types, NEW t \in Txs, Promote(t)
  PROVE  /\ tx[t].pc = "promote" /\ tx'[t].pc = "best"
         /\ tx'[t].wrote = IF Primary(Seen(t)) \ {Target(t)} = {}
                             THEN Write(t, Target(t), "primary") ELSE tx[t].wrote
         /\ tx'[t].op = tx[t].op /\ tx'[t].todo = tx[t].todo /\ tx'[t].many = tx[t].many
         /\ tx'[t].mem = tx[t].mem /\ tx'[t].base = tx[t].base /\ tx'[t].cols = tx[t].cols
         /\ \A u \in Txs \ {t} : tx'[u] = tx[u]
<1>1. /\ tx'[t] = [tx[t] EXCEPT !.pc = "best",
                     !.wrote = IF Primary(Seen(t)) \ {Target(t)} = {}
                                 THEN Write(t, Target(t), "primary") ELSE @]
      /\ tx[t] \in Tx /\ \A u \in Txs \ {t} : tx'[u] = tx[u]
  BY OthersStay DEF Promote
<1> QED
  BY <1>1 DEF Tx, Promote, At

LEMMA CountEffect ==
  ASSUME Types, NEW t \in Txs, Count(t)
  PROVE  /\ tx[t].pc = "count" /\ tx'[t].pc = "insert"
         /\ tx'[t].first = (Present(locs) = {})
         /\ tx'[t].op = tx[t].op /\ tx'[t].todo = tx[t].todo /\ tx'[t].many = tx[t].many
         /\ tx'[t].wrote = tx[t].wrote
         /\ \A u \in Txs \ {t} : tx'[u] = tx[u]
<1>1. /\ tx'[t] = [tx[t] EXCEPT !.pc = "insert", !.first = Present(locs) = {}]
      /\ tx[t] \in Tx /\ \A u \in Txs \ {t} : tx'[u] = tx[u]
  BY OthersStay DEF Count
<1> QED
  BY <1>1 DEF Tx, Count, At

LEMMA InsertEffect ==
  ASSUME Types, NEW t \in Txs, Insert(t)
  PROVE  /\ tx[t].pc = "insert"
         /\ tx'[t].pc = IF tx[t].prim /\ ~tx[t].first THEN "demote" ELSE "load"
         /\ tx'[t].wrote = Write(t, Target(t), IF tx[t].prim \/ tx[t].first THEN "primary"
                                                                           ELSE "plain")
         /\ tx'[t].op = tx[t].op /\ tx'[t].todo = tx[t].todo /\ tx'[t].many = tx[t].many
         /\ \A u \in Txs \ {t} : tx'[u] = tx[u]
<1>1. /\ tx'[t] = [tx[t] EXCEPT
                     !.pc = IF tx[t].prim /\ ~tx[t].first THEN "demote" ELSE "load",
                     !.wrote = Write(t, Target(t), IF tx[t].prim \/ tx[t].first THEN "primary"
                                                                               ELSE "plain")]
      /\ tx[t] \in Tx /\ \A u \in Txs \ {t} : tx'[u] = tx[u]
  BY OthersStay DEF Insert
<1> QED
  BY <1>1 DEF Tx, Insert, At

LEMMA DemoteEffect ==
  ASSUME Types, NEW t \in Txs, Demote(t)
  PROVE  /\ tx[t].pc = "demote" /\ tx'[t].pc = "demoting"
         /\ tx'[t].snap = Present(Seen(t))
         /\ tx'[t].op = tx[t].op /\ tx'[t].todo = tx[t].todo /\ tx'[t].many = tx[t].many
         /\ tx'[t].wrote = tx[t].wrote
         /\ \A u \in Txs \ {t} : tx'[u] = tx[u]
<1>1. /\ tx'[t] = [tx[t] EXCEPT !.pc = "demoting", !.snap = Present(Seen(t))]
      /\ tx[t] \in Tx /\ \A u \in Txs \ {t} : tx'[u] = tx[u]
  BY OthersStay DEF Demote
<1> QED
  BY <1>1 DEF Tx, Demote, At

LEMMA SetPrimaryEffect ==
  ASSUME Types, NEW t \in Txs, SetPrimary(t)
  PROVE  /\ tx[t].pc = "demoting" /\ tx'[t].pc = "load"
         /\ \A s \in Sources :
              tx'[t].wrote[s] = IF s = Target(t) THEN "primary"
                                ELSE IF s \in tx[t].snap THEN "plain" ELSE tx[t].wrote[s]
         /\ tx'[t].op = tx[t].op /\ tx'[t].todo = tx[t].todo /\ tx'[t].many = tx[t].many
         /\ \A u \in Txs \ {t} : tx'[u] = tx[u]
<1> DEFINE w == [s \in Sources |-> CASE s = Target(t)     -> "primary"
                                     [] s \in tx[t].snap \ {Target(t)} -> "plain"
                                     [] OTHER             -> tx[t].wrote[s]]
<1>1. Becomes(t, [tx[t] EXCEPT !.pc = "load", !.snap = {}, !.wrote = w])
  BY DEF SetPrimary
<1>2. \A s \in Sources :
        w[s] = IF s = Target(t) THEN "primary"
               ELSE IF s \in tx[t].snap THEN "plain" ELSE tx[t].wrote[s]
  OBVIOUS
<1> HIDE DEF w
<1>3. /\ tx'[t] = [tx[t] EXCEPT !.pc = "load", !.snap = {}, !.wrote = w]
      /\ tx[t] \in Tx /\ \A u \in Txs \ {t} : tx'[u] = tx[u]
  BY <1>1, OthersStay
<1>4. /\ tx'[t].pc = "load" /\ tx'[t].wrote = w
      /\ tx'[t].op = tx[t].op /\ tx'[t].todo = tx[t].todo /\ tx'[t].many = tx[t].many
  BY <1>3 DEF Tx
<1> QED
  BY <1>2, <1>3, <1>4 DEF SetPrimary, At

LEMMA SyncEffect ==
  ASSUME Types, NEW t \in Txs, SyncBest(t)
  PROVE  /\ tx[t].pc = "best" /\ tx'[t].pc = "flush"
         /\ tx[t].mem.override => tx'[t].mem = tx[t].mem
         /\ ~tx[t].mem.override => /\ tx'[t].mem.point = Best(Seen(t))
                                   /\ tx'[t].mem.source = Best(Seen(t))
                                   /\ tx'[t].mem.override = tx[t].mem.override
         /\ tx'[t].op = tx[t].op /\ tx'[t].todo = tx[t].todo /\ tx'[t].many = tx[t].many
         /\ tx'[t].wrote = tx[t].wrote /\ tx'[t].base = tx[t].base /\ tx'[t].cols = tx[t].cols
         /\ \A u \in Txs \ {t} : tx'[u] = tx[u]
<1> DEFINE best == Best(Seen(t))
           m == IF tx[t].mem.override THEN tx[t].mem
                ELSE [tx[t].mem EXCEPT !.point = best, !.source = best]
<1>1. Becomes(t, [tx[t] EXCEPT !.pc = "flush", !.mem = m])
  BY DEF SyncBest
<1>2. /\ tx[t].mem.override => m = tx[t].mem
      /\ ~tx[t].mem.override => m = [tx[t].mem EXCEPT !.point = best, !.source = best]
  OBVIOUS
<1> HIDE DEF m
<1>3. /\ tx'[t] = [tx[t] EXCEPT !.pc = "flush", !.mem = m]
      /\ tx[t] \in Tx /\ \A u \in Txs \ {t} : tx'[u] = tx[u]
  BY <1>1, OthersStay
<1>4. /\ tx'[t].pc = "flush" /\ tx'[t].mem = m
      /\ tx'[t].op = tx[t].op /\ tx'[t].todo = tx[t].todo /\ tx'[t].many = tx[t].many
      /\ tx'[t].wrote = tx[t].wrote /\ tx'[t].base = tx[t].base /\ tx'[t].cols = tx[t].cols
  BY <1>3 DEF Tx
<1>5. tx[t].mem \in Official
  BY <1>3 DEF Tx
<1>6. ~tx[t].mem.override => m.point = best /\ m.source = best /\ m.override = tx[t].mem.override
  BY <1>2, <1>5 DEF Official
<1> QED
  BY <1>2, <1>3, <1>4, <1>6 DEF SyncBest, At

LEMMA FlushEffect ==
  ASSUME Types, NEW t \in Txs, Flush(t)
  PROVE  /\ tx[t].pc \in {"flush", "autoflush"}
         /\ tx[t].pc = "autoflush" <=> tx'[t].pc = "best"
         /\ tx[t].pc = "flush" =>
              \/ tx'[t].pc = "commit"
              \/ tx'[t].pc = "upsert" /\ tx[t].op = "store" /\ Tail(tx[t].todo) # <<>>
         /\ tx'[t].todo = IF tx[t].op = "store" THEN Tail(tx[t].todo) ELSE tx[t].todo
         /\ tx'[t].op = tx[t].op /\ tx'[t].many = tx[t].many
         /\ tx'[t].wrote = tx[t].wrote /\ tx'[t].mem = tx[t].mem /\ tx'[t].base = tx[t].mem
         /\ tx'[t].cols = tx[t].cols \cup Changed(t)
         /\ \A u \in Txs \ {t} : tx'[u] = tx[u]
<1> DEFINE left == IF tx[t].op = "store" THEN Tail(tx[t].todo) ELSE <<>>
           next == IF At(t, "autoflush") THEN "best"
                   ELSE IF left = <<>> THEN "commit" ELSE "upsert"
           todo == IF tx[t].op = "store" THEN left ELSE tx[t].todo
<1>0. Becomes(t, [tx[t] EXCEPT !.pc = next, !.todo = todo,
                     !.base = tx[t].mem, !.cols = @ \cup Changed(t)])
  BY DEF Flush
<1>1. /\ tx[t].pc = "autoflush" <=> next = "best"
      /\ tx[t].pc # "autoflush" =>
           \/ next = "commit"
           \/ next = "upsert" /\ tx[t].op = "store" /\ Tail(tx[t].todo) # <<>>
      /\ todo = IF tx[t].op = "store" THEN Tail(tx[t].todo) ELSE tx[t].todo
  BY DEF At
<1> HIDE DEF next, todo
<1>2. /\ tx'[t] = [tx[t] EXCEPT !.pc = next, !.todo = todo,
                     !.base = tx[t].mem, !.cols = @ \cup Changed(t)]
      /\ tx[t] \in Tx /\ \A u \in Txs \ {t} : tx'[u] = tx[u]
  BY <1>0, OthersStay
<1>3. /\ tx'[t].pc = next /\ tx'[t].todo = todo
      /\ tx'[t].op = tx[t].op /\ tx'[t].many = tx[t].many
      /\ tx'[t].wrote = tx[t].wrote /\ tx'[t].mem = tx[t].mem /\ tx'[t].base = tx[t].mem
      /\ tx'[t].cols = tx[t].cols \cup Changed(t)
  BY <1>2 DEF Tx
<1> QED
  BY <1>1, <1>2, <1>3 DEF Flush

(* A transaction that ends, either way, leaves nothing behind in its       *)
(* record.                                                                 *)
LEMMA EndEffect ==
  ASSUME Types, NEW t \in Txs, Becomes(t, [Idle EXCEPT !.pc = "done"])
  PROVE  /\ tx'[t].pc = "done" /\ tx'[t].op = "none" /\ tx'[t].many = FALSE
         /\ \A s \in Sources : tx'[t].wrote[s] = "same"
         /\ \A u \in Txs \ {t} : tx'[u] = tx[u]
BY OthersStay DEF Idle

LEMMA Targets ==
  ASSUME AskedInv, NEW t \in Txs,
         tx[t].pc \in {"upsert", "promote", "insert", "demote", "demoting"}
  PROVE  Target(t) \in Sources
<1>1. Asked(tx[t])
  BY DEF AskedInv
<1>2. CASE tx[t].op = "store"
  <2>1. tx[t].todo \in Seq(Providers) /\ tx[t].todo # <<>>
    BY <1>1, <1>2 DEF Asked
  <2> QED
    BY <2>1 DEF Target, Sources
<1>3. CASE tx[t].op \in {"manual", "primary"}
  BY <1>1, <1>3 DEF Asked, Target
<1> QED
  BY <1>1, <1>2, <1>3 DEF Asked

LEMMA LockTaken ==
  ASSUME Types, NEW t \in Txs, NEW R, Take(t, R)
  PROVE  \A r \in Resources : lock'[r] = IF r \in R THEN t ELSE lock[r]
BY DEF Take

LEMMA Released ==
  ASSUME Types, NEW t \in Txs,
         lock' = [r \in Resources |-> IF lock[r] = t THEN "free" ELSE lock[r]]
  PROVE  \A r \in Resources : \A u \in Txs :
           /\ u # t /\ lock[r] = u => lock'[r] = u
           /\ lock'[r] = u => lock[r] = u /\ u # t
BY SourcesAssumption

LEMMA WriteIs ==
  ASSUME Types, NEW t \in Txs, NEW s \in Sources, NEW flag
  PROVE  \A u \in Sources : Write(t, s, flag)[u] = IF u = s THEN flag ELSE tx[t].wrote[u]
<1>1. tx[t].wrote \in [Sources -> Flags \cup {"same"}]
  BY DEF Types, Tx
<1> QED
  BY <1>1 DEF Write

Act(t) == \/ \E r \in Requests : Begin(t, r)
          \/ Load(t) \/ Upsert(t) \/ Promote(t) \/ Count(t) \/ Insert(t) \/ InsertFails(t)
          \/ Demote(t) \/ SetPrimary(t) \/ SyncBest(t) \/ Flush(t) \/ Commit(t) \/ Abort(t)

(* A step moves one transaction, which takes free rows only and gives only *)
(* its own ones back.                                                      *)
LEMMA OneMoves ==
  ASSUME Types, AskedInv, NEW t \in Txs, Act(t), NEW u \in Txs, u # t
  PROVE  tx'[u] = tx[u] /\ \A r \in Resources : lock'[r] = u <=> lock[r] = u
<1> USE SourcesAssumption
<1>1. ASSUME NEW R, Take(t, R), Free(t, R)
      PROVE  \A r \in Resources : lock'[r] = u <=> lock[r] = u
  BY <1>1, LockTaken DEF Free
<1>2. CASE \E r \in Requests : Begin(t, r)
  BY <1>2, BeginEffect, ZenonT(40) DEF Begin
<1>3. CASE Load(t)
  <2>1. tx'[u] = tx[u]
    <3>1. PICK x : Becomes(t, x)
      BY <1>3 DEF Load
    <3> QED
      BY <3>1, OthersStay
  <2>2. lock' = lock
    BY <1>3 DEF Load
  <2> QED
    BY <2>1, <2>2
<1>4. CASE Upsert(t)
  <2>1. tx'[u] = tx[u]
    BY <1>4, UpsertEffect
  <2>2. Take(t, {Target(t)}) /\ Free(t, {Target(t)})
    BY <1>4 DEF Upsert
  <2> QED
    BY <2>1, <2>2, <1>1
<1>5. CASE Promote(t)
  <2>1. tx'[u] = tx[u]
    BY <1>5, PromoteEffect
  <2>2. lock' = lock
    BY <1>5 DEF Promote
  <2> QED
    BY <2>1, <2>2
<1>6. CASE Count(t)
  <2>1. tx'[u] = tx[u]
    BY <1>6, CountEffect
  <2>2. lock' = lock
    BY <1>6 DEF Count
  <2> QED
    BY <2>1, <2>2
<1>7. CASE Insert(t)
  <2>1. tx'[u] = tx[u]
    BY <1>7, InsertEffect
  <2>2. Take(t, {Target(t)}) /\ Free(t, {Target(t)})
    BY <1>7 DEF Insert
  <2> QED
    BY <2>1, <2>2, <1>1
<1>8. CASE InsertFails(t) \/ Abort(t) \/ Commit(t)
  <2>1. /\ Becomes(t, [Idle EXCEPT !.pc = "done"])
        /\ lock' = [r \in Resources |-> IF lock[r] = t THEN "free" ELSE lock[r]]
    BY <1>8 DEF InsertFails, Abort, Commit, Discard
  <2>2. tx'[u] = tx[u]
    BY <2>1, OthersStay
  <2> QED
    BY <2>1, <2>2, Released
<1>9. CASE Demote(t)
  <2>1. tx'[u] = tx[u]
    BY <1>9, DemoteEffect
  <2>2. lock' = lock
    BY <1>9 DEF Demote
  <2> QED
    BY <2>1, <2>2
<1>10. CASE SetPrimary(t)
  <2>1. tx'[u] = tx[u]
    BY <1>10, SetPrimaryEffect
  <2>2. Take(t, tx[t].snap) /\ Free(t, tx[t].snap)
    BY <1>10 DEF SetPrimary
  <2> QED
    BY <2>1, <2>2, <1>1
<1>11. CASE SyncBest(t)
  <2>1. tx'[u] = tx[u]
    BY <1>11, SyncEffect
  <2>2. lock' = lock
    BY <1>11 DEF SyncBest
  <2> QED
    BY <2>1, <2>2
<1>12. CASE Flush(t)
  <2>1. Take(t, IF Changed(t) = {} THEN {} ELSE {"voter"})
        /\ Free(t, IF Changed(t) = {} THEN {} ELSE {"voter"})
    BY <1>12 DEF Flush, Free
  <2> QED
    BY <1>12, <1>1, <2>1, FlushEffect
<1> QED
  BY <1>2, <1>3, <1>4, <1>5, <1>6, <1>7, <1>8, <1>9, <1>10, <1>11, <1>12 DEF Act

LEMMA OnlyCommits ==
  ASSUME NEW t \in Txs, Act(t), ~Commit(t)
  PROVE  locs' = locs /\ voter' = voter /\ raced' = raced
BY DEF Act, Begin, Load, Upsert, Promote, Count, Insert, InsertFails, Demote, SetPrimary,
       SyncBest, Flush, Abort, Discard, history

LEMMA OnlyBegins ==
  ASSUME NEW t \in Txs, Act(t), \A r \in Requests : ~Begin(t, r)
  PROVE  overlap' = overlap
BY DEF Act, Load, Upsert, Promote, Count, Insert, InsertFails, Demote, SetPrimary,
       SyncBest, Flush, Commit, Abort, Discard, history

LEMMA Committed ==
  ASSUME Types, NEW t \in Txs, Commit(t)
  PROVE  /\ tx[t].pc = "commit"
         /\ locs' = Seen(t)
         /\ \A s \in Sources :
              locs'[s] = IF tx[t].wrote[s] = "same" THEN locs[s] ELSE tx[t].wrote[s]
         /\ raced' = (raced \/ (overlap /\ Present(locs') # Present(locs)))
         /\ overlap' = overlap
BY DEF Commit, Seen, At

LEMMA SeenIs ==
  ASSUME NEW t \in Txs
  PROVE  \A s \in Sources :
           Seen(t)[s] = IF tx[t].wrote[s] = "same" THEN locs[s] ELSE tx[t].wrote[s]
BY DEF Seen

LEMMA NeverRemoved ==
  ASSUME Types, LocksInv, NEW t \in Txs, Act(t), NEW s \in Sources, locs[s] # "absent"
  PROVE  locs'[s] # "absent"
<1>1. CASE Commit(t)
  BY <1>1, Committed DEF LocksInv, Locks
<1>2. CASE ~Commit(t)
  BY <1>2, OnlyCommits
<1> QED
  BY <1>1, <1>2

(* A written row is locked by its writer.                                  *)
LEMMA LocksStep == Types /\ AskedInv /\ LocksInv /\ [Next]_vars => LocksInv'
<1> SUFFICES ASSUME Types, AskedInv, LocksInv, [Next]_vars PROVE LocksInv'
  OBVIOUS
<1> USE DEF Early, At
<1>a. Sources \subseteq Resources
  BY DEF Resources
<1>b. \A t \in Txs : Asked(tx[t]) /\ Locks(t)
  BY DEF AskedInv, LocksInv
<1>0. CASE UNCHANGED vars
  BY <1>0 DEF vars, LocksInv, Locks, Target
<1>c. ASSUME NEW t \in Txs, Act(t), Locks(t)' PROVE LocksInv'
  <2> SUFFICES ASSUME NEW u \in Txs, u # t PROVE Locks(u)'
    BY <1>c DEF LocksInv
  <2>1. tx'[u] = tx[u] /\ \A r \in Resources : lock'[r] = u <=> lock[r] = u
    BY <1>c, OneMoves
  <2>2. tx[u].pc \in {"promote", "demote"} => Target(u) \in Sources
    BY Targets
  <2>3. \A s \in Sources : locs[s] # "absent" => locs'[s] # "absent"
    BY <1>c, NeverRemoved
  <2> QED
    BY <1>a, <1>b, <2>1, <2>2, <2>3 DEF Locks, Target
<1> SUFFICES ASSUME NEW t \in Txs, Act(t) PROVE Locks(t)'
  BY <1>0, <1>c DEF Next, Act
<1>1. CASE \E r \in Requests : Begin(t, r)
  <2>1. PICK r \in Requests : Begin(t, r)
    BY <1>1
  <2>2. /\ tx'[t].pc \in {"load", "count", "demote"}
        /\ tx'[t].pc = "demote" => r.op = "primary"
    BY <2>1, BeginEffect DEF FirstPc
  <2>3. r.op = "primary" => locs[Head(r.srcs)] # "absent"
    BY <2>1 DEF Begin
  <2>4. tx[t].pc = "idle" /\ tx'[t].wrote = tx[t].wrote /\ tx'[t].todo = r.srcs
    BY <2>1, BeginEffect
  <2>5. locs' = locs
    BY <2>1 DEF Begin
  <2> QED
    BY <1>b, <2>2, <2>3, <2>4, <2>5 DEF Locks, Target
<1>2. CASE Load(t)
  <2>1. lock' = lock
    BY <1>2 DEF Load
  <2>2. /\ tx'[t].pc \in {"flush", "autoflush", "upsert", "best"}
        /\ tx'[t].wrote = tx[t].wrote
    BY <1>2, LoadEffect
  <2> QED
    BY <1>b, <2>1, <2>2 DEF Locks
<1>3. CASE Upsert(t)
  <2>1. Target(t) \in Sources /\ Take(t, {Target(t)}) /\ Target(t)' = Target(t)
    BY <1>3, Targets, UpsertEffect DEF Upsert, Target
  <2>2. \A r \in Resources : lock'[r] = IF r = Target(t) THEN t ELSE lock[r]
    BY <2>1, LockTaken
  <2>3. \A s \in Sources : \/ tx'[t].wrote[s] = tx[t].wrote[s]
                           \/ s = Target(t) /\ tx'[t].wrote[s] = "plain"
    BY <1>3, <2>1, UpsertEffect, WriteIs
  <2> QED
    BY <1>3, <1>a, <1>b, <2>1, <2>2, <2>3, UpsertEffect DEF Locks
<1>4. CASE Promote(t)
  <2>1. Target(t) \in Sources /\ lock' = lock
    BY <1>4, Targets, PromoteEffect DEF Promote
  <2>2. \A s \in Sources : \/ tx'[t].wrote[s] = tx[t].wrote[s]
                           \/ s = Target(t) /\ tx'[t].wrote[s] = "primary"
    BY <1>4, <2>1, PromoteEffect, WriteIs
  <2> QED
    BY <1>4, <1>b, <2>1, <2>2, PromoteEffect DEF Locks
<1>5. CASE Count(t)
  <2>1. lock' = lock
    BY <1>5 DEF Count
  <2> QED
    BY <1>5, <1>b, <2>1, CountEffect DEF Locks
<1>6. CASE Insert(t)
  <2>1. Target(t) \in Sources /\ Take(t, {Target(t)}) /\ Target(t)' = Target(t)
    BY <1>6, Targets, InsertEffect DEF Insert, Target
  <2>2. \A r \in Resources : lock'[r] = IF r = Target(t) THEN t ELSE lock[r]
    BY <2>1, LockTaken
  <2>3. \A s \in Sources : IF s = Target(t) THEN tx'[t].wrote[s] \in {"plain", "primary"}
                                            ELSE tx'[t].wrote[s] = tx[t].wrote[s]
    BY <1>6, <2>1, InsertEffect, WriteIs
  <2>4. tx'[t].pc \in {"demote", "load"} /\ tx'[t].op = "manual"
    BY <1>6, <1>b, InsertEffect DEF Asked
  <2> QED
    BY <1>a, <1>b, <2>1, <2>2, <2>3, <2>4 DEF Locks, Target
<1>7. CASE InsertFails(t) \/ Abort(t) \/ Commit(t)
  BY <1>7, EndEffect DEF Locks, InsertFails, Abort, Commit, Discard
<1>8. CASE Demote(t)
  <2>1. lock' = lock
    BY <1>8 DEF Demote
  <2>2. Target(t) \in Sources /\ Target(t)' = Target(t)
    BY <1>8, Targets, DemoteEffect DEF Demote, Target
  <2>3. Target(t) \in Present(Seen(t))
    BY <1>8, <1>b, <2>2, SeenIs DEF Locks, Present, Demote
  <2> QED
    BY <1>8, <1>b, <2>1, <2>2, <2>3, DemoteEffect DEF Locks
<1>9. CASE SetPrimary(t)
  <2>1. Target(t) \in Sources /\ Take(t, tx[t].snap)
    BY <1>9, Targets, SetPrimaryEffect DEF SetPrimary
  <2>2. \A r \in Resources : lock'[r] = IF r \in tx[t].snap THEN t ELSE lock[r]
    BY <2>1, LockTaken
  <2>3. tx[t].pc = "demoting" /\ tx'[t].pc = "load" /\ tx'[t].op # "store"
    BY <1>9, <1>b, SetPrimaryEffect DEF Asked
  <2>4. \A s \in Sources :
          tx'[t].wrote[s] = IF s = Target(t) THEN "primary"
                            ELSE IF s \in tx[t].snap THEN "plain" ELSE tx[t].wrote[s]
    BY <1>9, SetPrimaryEffect
  <2> QED
    BY <1>a, <1>b, <2>1, <2>2, <2>3, <2>4 DEF Locks
<1>10. CASE SyncBest(t)
  <2>1. lock' = lock
    BY <1>10 DEF SyncBest
  <2> QED
    BY <1>10, <1>b, <2>1, SyncEffect DEF Locks
<1>11. CASE Flush(t)
  <2>1. \A s \in Sources : lock'[s] = lock[s]
    BY <1>11, <1>a, LockTaken, SourcesAssumption DEF Flush
  <2> QED
    BY <1>11, <1>b, <2>1, FlushEffect DEF Locks
<1> QED
  BY <1>1, <1>2, <1>3, <1>4, <1>5, <1>6, <1>7, <1>8, <1>9, <1>10, <1>11 DEF Act

-----------------------------------------------------------------------------
(* Nobody leaves a voter's locations without a primary one.                *)
LEMMA PrimaryStep ==
  Types /\ AskedInv /\ LocksInv /\ PrimaryInv /\ [Next]_vars => PrimaryInv'
<1> SUFFICES ASSUME Types, AskedInv, LocksInv, PrimaryInv, [Next]_vars PROVE PrimaryInv'
  OBVIOUS
<1> USE DEF At
<1>a. Sources \subseteq Resources
  BY DEF Resources
<1>b. \A t \in Txs : Asked(tx[t]) /\ Locks(t) /\ Keeps(t) /\ Primed(t)
  BY DEF AskedInv, LocksInv, PrimaryInv, Primed
<1>0. CASE UNCHANGED vars
  BY <1>0 DEF vars, PrimaryInv, HasPrimary, Primed, Keeps, Target, Present, Primary
<1>c. ASSUME NEW t \in Txs, Act(t) PROVE Present(locs) \subseteq Present(locs')
  BY <1>c, NeverRemoved DEF Present
<1>d. ASSUME NEW t \in Txs, Act(t), NEW u \in Txs, u # t PROVE Primed(u)'
  <2>1. tx'[u] = tx[u]
    BY <1>d, OneMoves
  <2>2. Present(locs) \subseteq Present(locs')
    BY <1>c, <1>d
  <2>3. ASSUME NEW s \in Sources, tx[u].wrote[s] = "plain" PROVE locs'[s] = locs[s]
    <3>1. lock[s] = u
      BY <2>3, <1>b DEF Locks
    <3>2. tx[t].wrote[s] = "same"
      BY <3>1, <1>b, <1>d DEF Locks
    <3> QED
      BY <3>2, <1>d, Committed, OnlyCommits
  <2>4. Keeps(u)'
    <3>1. CASE \E s \in Sources : tx[u].wrote[s] = "primary"
      BY <3>1, <2>1 DEF Keeps
    <3>2. CASE \A s \in Sources : tx[u].wrote[s] = "plain" =>
                 /\ locs[s] = "absent"
                 /\ Present(locs) # {} \/ (At(u, "promote") /\ s = Target(u))
      BY <3>2, <2>1, <2>2, <2>3 DEF Keeps, Target
    <3> QED
      BY <1>b, <3>1, <3>2 DEF Keeps
  <2> QED
    BY <1>b, <2>1, <2>2, <2>4 DEF Primed
<1>e. ASSUME NEW t \in Txs, Act(t), ~Commit(t), Primed(t)' PROVE PrimaryInv'
  BY <1>d, <1>e, OnlyCommits DEF PrimaryInv, HasPrimary
<1>1. ASSUME NEW t \in Txs, NEW r \in Requests, Begin(t, r) PROVE PrimaryInv'
  <2>1. /\ tx'[t].wrote = tx[t].wrote /\ tx'[t].pc # "insert"
        /\ \A s \in Sources : tx[t].wrote[s] = "same"
    BY <1>1, <1>b, BeginEffect DEF FirstPc, Locks, Early
  <2>2. Primed(t)'
    BY <2>1 DEF Primed, Keeps
  <2> QED
    BY <1>1, <1>e, <2>2 DEF Act, Commit, Begin
<1>2. ASSUME NEW t \in Txs, Load(t) \/ SyncBest(t) \/ Flush(t) PROVE PrimaryInv'
  <2>1. tx'[t].wrote = tx[t].wrote /\ tx[t].pc # "promote" /\ tx'[t].pc # "insert"
    <3>1. CASE Load(t)
      BY <3>1, LoadEffect
    <3>2. CASE SyncBest(t)
      BY <3>2, SyncEffect
    <3>3. CASE Flush(t)
      BY <3>3, FlushEffect
    <3> QED
      BY <1>2, <3>1, <3>2, <3>3
  <2>2. locs' = locs /\ ~Commit(t) /\ Act(t)
    BY <1>2 DEF Load, SyncBest, Flush, Commit, Act
  <2>3. Primed(t)'
    BY <1>b, <2>1, <2>2 DEF Primed, Keeps
  <2> QED
    BY <1>e, <2>2, <2>3
<1>3. ASSUME NEW t \in Txs, Upsert(t) PROVE PrimaryInv'
  <2>1. /\ Target(t) \in Sources /\ Target(t)' = Target(t) /\ locs' = locs
        /\ ~Commit(t) /\ Act(t) /\ tx[t].pc = "upsert" /\ tx'[t].pc = "promote"
    BY <1>3, Targets, UpsertEffect DEF Upsert, Target, Commit, Act
  <2>2. \A s \in Sources :
          \/ tx'[t].wrote[s] = tx[t].wrote[s]
          \/ /\ s = Target(t) /\ tx'[t].wrote[s] = "plain"
             /\ locs[s] = "absent" /\ tx[t].wrote[s] # "primary"
    <3>1. CASE Seen(t)[Target(t)] = "absent"
      <4>1. locs[Target(t)] = "absent" /\ tx[t].wrote[Target(t)] = "same"
        BY <3>1, <2>1, <1>b, SeenIs DEF Locks
      <4> QED
        BY <1>3, <3>1, <4>1, <2>1, UpsertEffect, WriteIs
    <3>2. CASE Seen(t)[Target(t)] # "absent"
      BY <1>3, <3>2, UpsertEffect
    <3> QED
      BY <3>1, <3>2
  <2>3. Primed(t)'
    BY <1>b, <2>1, <2>2 DEF Primed, Keeps
  <2> QED
    BY <1>e, <2>1, <2>3
<1>4. ASSUME NEW t \in Txs, Promote(t) PROVE PrimaryInv'
  <2>1. /\ Target(t) \in Sources /\ locs' = locs /\ ~Commit(t) /\ Act(t)
        /\ tx'[t].pc = "best"
    BY <1>4, Targets, PromoteEffect DEF Promote, Commit, Act
  <2>2. CASE Primary(Seen(t)) \ {Target(t)} = {}
    <3>1. tx'[t].wrote[Target(t)] = "primary"
      BY <1>4, <2>1, <2>2, PromoteEffect, WriteIs
    <3>2. Primed(t)'
      BY <2>1, <3>1 DEF Primed, Keeps
    <3> QED
      BY <1>e, <2>1, <3>2
  <2>3. CASE Primary(Seen(t)) \ {Target(t)} # {}
    <3>1. tx'[t].wrote = tx[t].wrote
      BY <1>4, <2>3, PromoteEffect
    <3>2. (\E s \in Sources : tx[t].wrote[s] = "primary") \/ Present(locs) # {}
      BY <2>3, SeenIs DEF Primary, Present
    <3>3. Primed(t)'
      BY <1>b, <2>1, <3>1, <3>2 DEF Primed, Keeps
    <3> QED
      BY <1>e, <2>1, <3>3
  <2> QED
    BY <2>2, <2>3
<1>5. ASSUME NEW t \in Txs, Count(t) PROVE PrimaryInv'
  <2>1. /\ tx'[t].wrote = tx[t].wrote /\ tx'[t].first = (Present(locs) = {})
        /\ tx[t].pc = "count" /\ locs' = locs /\ ~Commit(t) /\ Act(t)
    BY <1>5, CountEffect DEF Count, Commit, Act
  <2>2. Primed(t)'
    BY <1>b, <2>1 DEF Primed, Locks, Early, Keeps
  <2> QED
    BY <1>e, <2>1, <2>2
<1>6. ASSUME NEW t \in Txs, Insert(t) PROVE PrimaryInv'
  <2>1. /\ Target(t) \in Sources /\ locs' = locs /\ ~Commit(t) /\ Act(t)
        /\ tx[t].pc = "insert" /\ tx'[t].pc # "insert"
    BY <1>6, Targets, InsertEffect DEF Insert, Commit, Act
  <2>2. Seen(t)[Target(t)] = "absent" /\ \A s \in Sources : tx[t].wrote[s] = "same"
    BY <1>6, <1>b, <2>1 DEF Insert, Locks, Early
  <2>3. locs[Target(t)] = "absent"
    BY <2>1, <2>2, SeenIs
  <2>4. \A s \in Sources :
          tx'[t].wrote[s] = IF s # Target(t) THEN "same"
                            ELSE IF tx[t].prim \/ tx[t].first THEN "primary" ELSE "plain"
    BY <1>6, <2>1, <2>2, InsertEffect, WriteIs
  <2>5. Primed(t)'
    BY <1>b, <2>1, <2>3, <2>4 DEF Primed, Keeps
  <2> QED
    BY <1>e, <2>1, <2>5
<1>7. ASSUME NEW t \in Txs, InsertFails(t) \/ Abort(t) PROVE PrimaryInv'
  <2>1. Becomes(t, [Idle EXCEPT !.pc = "done"]) /\ locs' = locs
    BY <1>7 DEF InsertFails, Abort, Discard
  <2>2. Primed(t)'
    BY <2>1, EndEffect DEF Primed, Keeps
  <2>3. Act(t) /\ HasPrimary'
    BY <1>7, <2>1 DEF Act, PrimaryInv, HasPrimary
  <2> QED
    BY <1>d, <2>2, <2>3 DEF PrimaryInv
<1>8. ASSUME NEW t \in Txs, Demote(t) PROVE PrimaryInv'
  <2>1. /\ tx'[t].wrote = tx[t].wrote /\ tx'[t].pc = "demoting" /\ tx[t].pc = "demote"
        /\ locs' = locs /\ ~Commit(t) /\ Act(t)
    BY <1>8, DemoteEffect DEF Demote, Commit, Act
  <2>2. Primed(t)'
    BY <1>b, <2>1 DEF Primed, Keeps
  <2> QED
    BY <1>e, <2>1, <2>2
<1>9. ASSUME NEW t \in Txs, SetPrimary(t) PROVE PrimaryInv'
  <2>1. /\ Target(t) \in Sources /\ locs' = locs /\ ~Commit(t) /\ Act(t)
        /\ tx'[t].pc = "load"
    BY <1>9, Targets, SetPrimaryEffect DEF SetPrimary, Commit, Act
  <2>2. tx'[t].wrote[Target(t)] = "primary"
    BY <1>9, <2>1, SetPrimaryEffect
  <2>3. Primed(t)'
    BY <2>1, <2>2 DEF Primed, Keeps
  <2> QED
    BY <1>e, <2>1, <2>3
<1>10. ASSUME NEW t \in Txs, Commit(t) PROVE PrimaryInv'
  <2>1. Becomes(t, [Idle EXCEPT !.pc = "done"]) /\ Act(t)
    BY <1>10 DEF Commit, Act
  <2>2. Primed(t)'
    BY <2>1, EndEffect DEF Primed, Keeps
  <2>3. HasPrimary'
    <3>0. \A s \in Sources :
            locs'[s] = IF tx[t].wrote[s] = "same" THEN locs[s] ELSE tx[t].wrote[s]
      BY <1>10, Committed
    <3>1. CASE \E s \in Sources : tx[t].wrote[s] = "primary"
      BY <3>0, <3>1 DEF HasPrimary, Primary
    <3>2. CASE /\ \A s \in Sources : tx[t].wrote[s] # "primary"
               /\ \A s \in Sources : tx[t].wrote[s] = "plain" =>
                    /\ locs[s] = "absent"
                    /\ Present(locs) # {} \/ (At(t, "promote") /\ s = Target(t))
      <4>1. tx[t].pc = "commit" /\ \A s \in Sources : tx[t].wrote[s] \in {"same", "plain"}
        BY <1>10, <1>b, <3>2 DEF Commit, Types, Tx, Flags, Locks
      <4>2. Primary(locs) \subseteq Primary(locs')
        BY <3>0, <3>2, <4>1 DEF Primary
      <4>3. Present(locs') # {} => Present(locs) # {}
        BY <3>0, <3>2, <4>1 DEF Present
      <4> QED
        BY <4>2, <4>3 DEF PrimaryInv, HasPrimary
    <3> QED
      BY <1>b, <3>1, <3>2 DEF Keeps
  <2> QED
    BY <1>d, <2>1, <2>2, <2>3 DEF PrimaryInv
<1> QED
  BY <1>0, <1>1, <1>2, <1>3, <1>4, <1>5, <1>6, <1>7, <1>8, <1>9, <1>10 DEF Next

-----------------------------------------------------------------------------
(* Nobody makes a second primary one, unless a location is inserted after  *)
(* transactions overlapped.                                                *)
LEMMA AloneStep == Types /\ AskedInv /\ Alone /\ [Next]_vars => Alone'
<1> SUFFICES ASSUME Types, AskedInv, Alone, [Next]_vars PROVE Alone'
  OBVIOUS
<1>0. CASE UNCHANGED vars
  BY <1>0 DEF vars, history, Alone, Active
<1>1. ASSUME NEW t \in Txs, NEW r \in Requests, Begin(t, r) PROVE Alone'
  <2>1. overlap' = (overlap \/ \E u \in Txs : Active(u))
    BY <1>1 DEF Begin
  <2>2. \A u \in Txs \ {t} : tx'[u] = tx[u]
    BY <1>1, BeginEffect
  <2> QED
    BY <2>1, <2>2 DEF Alone, Active
<1>2. ASSUME NEW t \in Txs, Act(t), \A r \in Requests : ~Begin(t, r) PROVE Alone'
  <2>1. overlap' = overlap
    BY <1>2, OnlyBegins
  <2>2. \A u \in Txs \ {t} : tx'[u] = tx[u]
    BY <1>2, OneMoves
  <2>3. Active(t)
    BY <1>2 DEF Act, Active, Load, Upsert, Promote, Count, Insert, InsertFails, Demote,
                SetPrimary, SyncBest, Flush, Commit, Abort, At
  <2> QED
    BY <2>1, <2>2, <2>3 DEF Alone, Active
<1> QED
  BY <1>0, <1>1, <1>2 DEF Next, Act

LEMMA OneStep ==
  Types /\ AskedInv /\ LocksInv /\ PrimaryInv /\ Alone /\ OneInv /\ [Next]_vars => OneInv'
<1> SUFFICES ASSUME Types, AskedInv, LocksInv, PrimaryInv, Alone, OneInv, [Next]_vars,
                    ~raced'
             PROVE  One(locs') /\ \A t \in Txs : OneOf(t)'
  BY DEF OneInv
<1> USE DEF At
<1>a. ~raced
  <2>1. ASSUME NEW t \in Txs, Act(t) PROVE raced => raced'
    BY <2>1, Committed, OnlyCommits
  <2>2. UNCHANGED vars => raced' = raced
    BY DEF vars, history
  <2> QED
    BY <2>1, <2>2 DEF Next, Act
<1>b. /\ One(locs)
      /\ \A t \in Txs : Asked(tx[t]) /\ Locks(t) /\ Keeps(t) /\ OneOf(t)
  BY <1>a DEF AskedInv, LocksInv, PrimaryInv, Primed, OneInv
<1>0. CASE UNCHANGED vars
  BY <1>0, <1>b DEF vars, history, OneOf, Inserts, Thin, Full, One, Present, Seen, Target
<1>c. ASSUME NEW t \in Txs, \A s \in Sources : tx[t].wrote[s] = "same"
      PROVE  Thin(t) /\ One(Seen(t))
  BY <1>b, <1>c, SeenIs DEF Thin, One
(* The others, while one writes.                                           *)
<1>d. ASSUME NEW t \in Txs, Act(t), ~Commit(t), OneOf(t)'
      PROVE  One(locs') /\ \A u \in Txs : OneOf(u)'
  <2>1. locs' = locs /\ (overlap => overlap')
    <3>1. \A r \in Requests : Begin(t, r) => (overlap => overlap')
      BY DEF Begin
    <3> QED
      BY <1>d, <3>1, OnlyCommits, OnlyBegins
  <2>2. ASSUME NEW u \in Txs, u # t PROVE OneOf(u)'
    <3>1. tx'[u] = tx[u]
      BY <1>d, <2>2, OneMoves
    <3> QED
      BY <1>b, <2>1, <3>1 DEF OneOf, Inserts, Thin, Full, Seen, Target
  <2> QED
    BY <1>b, <1>d, <2>1, <2>2
<1>1. ASSUME NEW t \in Txs, NEW r \in Requests, Begin(t, r)
      PROVE  One(locs') /\ \A u \in Txs : OneOf(u)'
  <2>1. /\ tx'[t].wrote = tx[t].wrote /\ tx'[t].pc \in {"load", "count", "demote"}
        /\ \A s \in Sources : tx[t].wrote[s] = "same"
    BY <1>1, <1>b, BeginEffect DEF FirstPc, Locks, Early
  <2>2. locs' = locs
    BY <1>1 DEF Begin
  <2>3. OneOf(t)'
    BY <1>c, <2>1, <2>2 DEF OneOf, Thin, Seen
  <2> QED
    BY <1>1, <1>d, <2>3 DEF Act, Commit, Begin
<1>2. ASSUME NEW t \in Txs, Load(t) \/ SyncBest(t) \/ Flush(t)
      PROVE  One(locs') /\ \A u \in Txs : OneOf(u)'
  <2>1. /\ tx'[t].wrote = tx[t].wrote /\ tx'[t].op = tx[t].op
        /\ tx'[t].pc \notin {"promote", "demote", "demoting", "insert"}
        /\ tx[t].pc \notin {"demote", "demoting"}
    <3>1. CASE Load(t)
      BY <3>1, LoadEffect
    <3>2. CASE SyncBest(t)
      BY <3>2, SyncEffect
    <3>3. CASE Flush(t)
      BY <3>3, FlushEffect
    <3> QED
      BY <1>2, <3>1, <3>2, <3>3
  <2>2. locs' = locs /\ ~Commit(t) /\ Act(t) /\ overlap' = overlap
    BY <1>2 DEF Load, SyncBest, Flush, Commit, Act, history
  <2>3. OneOf(t)'
    BY <1>b, <2>1, <2>2 DEF OneOf, Inserts, Thin, Full, Seen
  <2> QED
    BY <1>d, <2>2, <2>3
<1>3. ASSUME NEW t \in Txs, Upsert(t)
      PROVE  One(locs') /\ \A u \in Txs : OneOf(u)'
  <2>1. /\ Target(t) \in Sources /\ Target(t)' = Target(t) /\ locs' = locs
        /\ ~Commit(t) /\ Act(t) /\ tx[t].pc = "upsert" /\ tx'[t].pc = "promote"
        /\ overlap' = overlap /\ tx'[t].op = tx[t].op
    BY <1>3, Targets, UpsertEffect DEF Upsert, Target, Commit, Act, history
  <2>2. CASE Seen(t)[Target(t)] = "absent"
    <3>1. locs[Target(t)] = "absent" /\ tx[t].wrote[Target(t)] = "same"
      BY <2>2, <2>1, <1>b, SeenIs DEF Locks
    <3>2. \A s \in Sources :
            tx'[t].wrote[s] = IF s = Target(t) THEN "plain" ELSE tx[t].wrote[s]
      BY <1>3, <2>2, <2>1, UpsertEffect, WriteIs
    <3>3. \A s \in Sources :
            Seen(t)'[s] = IF s = Target(t) THEN "plain" ELSE Seen(t)[s]
      BY <2>1, <3>2, SeenIs DEF Seen
    <3>4. OneOf(t)'
      BY <1>b, <2>1, <3>1, <3>2, <3>3 DEF OneOf, Inserts, One
    <3> QED
      BY <1>d, <2>1, <3>4
  <2>3. CASE Seen(t)[Target(t)] # "absent"
    <3>1. tx'[t].wrote = tx[t].wrote
      BY <1>3, <2>3, UpsertEffect
    <3>2. Seen(t)' = Seen(t)
      BY <2>1, <3>1 DEF Seen
    <3>3. OneOf(t)'
      BY <1>b, <2>1, <2>3, <3>1, <3>2 DEF OneOf, Inserts, Thin, Full
    <3> QED
      BY <1>d, <2>1, <3>3
  <2> QED
    BY <2>2, <2>3
<1>4. ASSUME NEW t \in Txs, Promote(t)
      PROVE  One(locs') /\ \A u \in Txs : OneOf(u)'
  <2>1. /\ Target(t) \in Sources /\ locs' = locs /\ ~Commit(t) /\ Act(t)
        /\ tx[t].pc = "promote" /\ tx'[t].pc = "best" /\ overlap' = overlap
        /\ tx'[t].op = tx[t].op /\ tx[t].op = "store"
    BY <1>4, <1>b, Targets, PromoteEffect DEF Promote, Commit, Act, history, Asked
  <2>2. CASE Primary(Seen(t)) \ {Target(t)} = {}
    <3>1. \A s \in Sources :
            tx'[t].wrote[s] = IF s = Target(t) THEN "primary" ELSE tx[t].wrote[s]
      BY <1>4, <2>1, <2>2, PromoteEffect, WriteIs
    <3>2. Inserts(t) => Inserts(t)'
      BY <2>1, <3>1 DEF Inserts
    <3>3. ASSUME ~Inserts(t) PROVE Thin(t)'
      <4>1. Thin(t)
        BY <1>b, <2>1, <3>3 DEF OneOf
      <4>2. \A s \in Sources : Seen(t)[s] = locs[s]
        BY <4>1, SeenIs DEF Thin
      <4>3. locs[Target(t)] # "absent"
        BY <1>b, <2>1, <4>2 DEF OneOf
      <4>4. Primary(locs) # {}
        BY <2>1, <4>3 DEF PrimaryInv, HasPrimary, Present
      <4>5. locs[Target(t)] = "primary"
        BY <2>2, <4>2, <4>4 DEF Primary
      <4> QED
        BY <2>1, <3>1, <4>1, <4>5 DEF Thin
    <3>4. One(Seen(t)')
      <4>1. \A s \in Sources : s # Target(t) => Seen(t)'[s] = Seen(t)[s]
        BY <2>1, <3>1 DEF Seen
      <4> QED
        BY <2>2, <4>1 DEF One, Primary
    <3>5. OneOf(t)'
      BY <1>b, <2>1, <3>2, <3>3, <3>4 DEF OneOf
    <3> QED
      BY <1>d, <2>1, <3>5
  <2>3. CASE Primary(Seen(t)) \ {Target(t)} # {}
    <3>1. tx'[t].wrote = tx[t].wrote
      BY <1>4, <2>3, PromoteEffect
    <3>2. Seen(t)' = Seen(t)
      BY <2>1, <3>1 DEF Seen
    <3>3. OneOf(t)'
      BY <1>b, <2>1, <3>1, <3>2 DEF OneOf, Inserts, Thin, Full
    <3> QED
      BY <1>d, <2>1, <3>3
  <2> QED
    BY <2>2, <2>3
<1>5. ASSUME NEW t \in Txs, Count(t)
      PROVE  One(locs') /\ \A u \in Txs : OneOf(u)'
  <2>1. /\ tx'[t].wrote = tx[t].wrote /\ tx'[t].first = (Present(locs) = {})
        /\ tx[t].pc = "count" /\ tx'[t].pc = "insert"
        /\ locs' = locs /\ ~Commit(t) /\ Act(t)
    BY <1>5, CountEffect DEF Count, Commit, Act
  <2>0. \A s \in Sources : tx'[t].wrote[s] = "same"
    BY <1>b, <2>1 DEF Locks, Early
  <2>2. OneOf(t)'
    BY <1>b, <2>0, <2>1 DEF OneOf, Thin, Seen, One
  <2> QED
    BY <1>d, <2>1, <2>2
<1>6. ASSUME NEW t \in Txs, Insert(t)
      PROVE  One(locs') /\ \A u \in Txs : OneOf(u)'
  <2>1. /\ Target(t) \in Sources /\ locs' = locs /\ ~Commit(t) /\ Act(t)
        /\ tx[t].pc = "insert" /\ overlap' = overlap
        /\ tx'[t].pc = IF tx[t].prim /\ ~tx[t].first THEN "demote" ELSE "load"
    BY <1>6, Targets, InsertEffect DEF Insert, Commit, Act, history
  <2>2. Seen(t)[Target(t)] = "absent" /\ \A s \in Sources : tx[t].wrote[s] = "same"
    BY <1>6, <1>b, <2>1 DEF Insert, Locks, Early
  <2>3. locs[Target(t)] = "absent"
    BY <2>1, <2>2, SeenIs
  <2>4. \A s \in Sources :
          tx'[t].wrote[s] = IF s # Target(t) THEN "same"
                            ELSE IF tx[t].prim \/ tx[t].first THEN "primary" ELSE "plain"
    BY <1>6, <2>1, <2>2, InsertEffect, WriteIs
  <2>5. \A s \in Sources :
          Seen(t)'[s] = IF s # Target(t) THEN locs[s]
                        ELSE IF tx[t].prim \/ tx[t].first THEN "primary" ELSE "plain"
    BY <2>1, <2>4 DEF Seen
  <2>6. Inserts(t)'
    BY <2>1, <2>3, <2>4 DEF Inserts
  <2>7. ASSUME ~overlap, tx'[t].pc # "demote" PROVE One(Seen(t)')
    <3>1. CASE tx[t].first
      <4>1. Present(locs) = {}
        BY <1>b, <2>1, <2>7, <3>1 DEF OneOf
      <4> QED
        BY <2>5, <4>1 DEF One, Present
    <3>2. CASE ~tx[t].first /\ ~tx[t].prim
      BY <1>b, <2>5, <3>2 DEF One
    <3> QED
      BY <2>1, <2>7, <3>1, <3>2
  <2>8. OneOf(t)'
    BY <2>1, <2>6, <2>7 DEF OneOf
  <2> QED
    BY <1>d, <2>1, <2>8
<1>7. ASSUME NEW t \in Txs, InsertFails(t) \/ Abort(t)
      PROVE  One(locs') /\ \A u \in Txs : OneOf(u)'
  <2>1. /\ Becomes(t, [Idle EXCEPT !.pc = "done"]) /\ locs' = locs /\ overlap' = overlap
        /\ Act(t)
    BY <1>7 DEF InsertFails, Abort, Discard, history, Act
  <2>2. tx'[t].pc = "done" /\ \A s \in Sources : tx'[t].wrote[s] = "same"
    BY <2>1, EndEffect
  <2>3. OneOf(t)'
    BY <1>b, <2>1, <2>2 DEF OneOf, Thin, Seen, One
  <2>4. ASSUME NEW u \in Txs, u # t PROVE OneOf(u)'
    <3>1. tx'[u] = tx[u]
      BY <2>1, <2>4, OneMoves
    <3> QED
      BY <1>b, <2>1, <3>1 DEF OneOf, Inserts, Thin, Full, Seen, Target
  <2> QED
    BY <1>b, <2>1, <2>3, <2>4
<1>8. ASSUME NEW t \in Txs, Demote(t)
      PROVE  One(locs') /\ \A u \in Txs : OneOf(u)'
  <2>1. /\ tx'[t].wrote = tx[t].wrote /\ tx'[t].pc = "demoting" /\ tx[t].pc = "demote"
        /\ tx'[t].op = tx[t].op /\ tx'[t].snap = Present(Seen(t))
        /\ locs' = locs /\ ~Commit(t) /\ Act(t)
    BY <1>8, DemoteEffect DEF Demote, Commit, Act
  <2>2. Seen(t)' = Seen(t)
    BY <2>1 DEF Seen
  <2>3. OneOf(t)'
    BY <1>b, <2>1, <2>2 DEF OneOf, Inserts, Thin, Full
  <2> QED
    BY <1>d, <2>1, <2>3
<1>9. ASSUME NEW t \in Txs, SetPrimary(t)
      PROVE  One(locs') /\ \A u \in Txs : OneOf(u)'
  <2>1. /\ Target(t) \in Sources /\ locs' = locs /\ ~Commit(t) /\ Act(t)
        /\ tx[t].pc = "demoting" /\ tx'[t].pc = "load" /\ tx'[t].op = tx[t].op
        /\ tx[t].op # "store"
    BY <1>9, <1>b, Targets, SetPrimaryEffect DEF SetPrimary, Commit, Act, Asked
  <2>2. \A s \in Sources :
          tx'[t].wrote[s] = IF s = Target(t) THEN "primary"
                            ELSE IF s \in tx[t].snap THEN "plain" ELSE tx[t].wrote[s]
    BY <1>9, SetPrimaryEffect
  <2>3. \A s \in Sources : s \notin tx[t].snap => locs[s] = "absent" /\ Seen(t)[s] = "absent"
    <3>1. Present(Seen(t)) \subseteq tx[t].snap
      BY <1>b, <2>1 DEF OneOf
    <3> QED
      BY <3>1, <1>b, SeenIs DEF Present, Locks
  <2>4. Full(t)'
    BY <2>1, <2>2, <2>3 DEF Full, Present
  <2>5. One(Seen(t)')
    <3>1. \A s \in Sources : s # Target(t) => Seen(t)'[s] # "primary"
      BY <2>1, <2>2, <2>3, SeenIs DEF Seen
    <3> QED
      BY <3>1 DEF One
  <2>6. OneOf(t)'
    BY <2>1, <2>4, <2>5 DEF OneOf
  <2> QED
    BY <1>d, <2>1, <2>6
<1>10. ASSUME NEW t \in Txs, Commit(t)
       PROVE  One(locs') /\ \A u \in Txs : OneOf(u)'
  <2>1. /\ Becomes(t, [Idle EXCEPT !.pc = "done"]) /\ Act(t) /\ tx[t].pc = "commit"
        /\ overlap' = overlap /\ locs' = Seen(t)
        /\ overlap => Present(locs') = Present(locs)
        /\ \A s \in Sources :
             locs'[s] = IF tx[t].wrote[s] = "same" THEN locs[s] ELSE tx[t].wrote[s]
    BY <1>10, Committed DEF Commit, Act
  <2>2. overlap => ~Inserts(t)
    BY <1>b, <2>1 DEF Inserts, Present, Locks
  <2>3. One(locs')
    <3>1. CASE ~overlap
      BY <1>b, <2>1, <3>1 DEF OneOf
    <3>2. CASE overlap /\ Thin(t)
      BY <1>b, <2>1, <3>2 DEF Thin, One
    <3>3. CASE overlap /\ Full(t)
      BY <2>1, <3>3 DEF Full, One, Present
    <3> QED
      BY <1>b, <2>2, <3>1, <3>2, <3>3 DEF OneOf
  <2>4. tx'[t].pc = "done" /\ \A s \in Sources : tx'[t].wrote[s] = "same"
    BY <2>1, EndEffect
  <2>5. OneOf(t)'
    BY <2>3, <2>4 DEF OneOf, Thin, Seen, One
  <2>6. ASSUME NEW u \in Txs, u # t PROVE OneOf(u)'
    <3>1. tx'[u] = tx[u]
      BY <2>1, <2>6, OneMoves
    <3>2. CASE ~overlap
      <4>1. tx[u].pc \in {"idle", "done"}
        BY <2>1, <2>6, <3>2 DEF Alone, Active
      <4>2. \A s \in Sources : tx[u].wrote[s] = "same"
        BY <1>b, <4>1 DEF Locks, Early
      <4> QED
        BY <2>3, <3>1, <4>1, <4>2 DEF OneOf, Thin, Seen, One
    <3>3. CASE overlap
      <4>1. \A s \in Sources : tx[u].wrote[s] # "same" => tx[t].wrote[s] = "same"
        BY <1>b, <2>6 DEF Locks
      <4>2. \A s \in Sources : tx[u].wrote[s] # "same" => locs'[s] = locs[s]
        BY <2>1, <4>1
      <4>3. Inserts(u)' \/ Thin(u)' \/ (Full(u)' /\ tx'[u].op # "store")
        <5>1. CASE Inserts(u)
          BY <3>1, <4>2, <5>1 DEF Inserts
        <5>2. CASE Thin(u)
          BY <3>1, <4>2, <5>2 DEF Thin
        <5>3. CASE Full(u) /\ tx[u].op # "store"
          BY <2>1, <3>1, <3>3, <5>3 DEF Full
        <5> QED
          BY <1>b, <5>1, <5>2, <5>3 DEF OneOf
      <4>4. \A s \in Sources : Seen(u)'[s] = "absent" <=> Seen(u)[s] = "absent"
        BY <2>1, <3>1, <3>3, SeenIs DEF Seen, Present
      <4>5. tx[u].pc = "promote" => Target(u) \in Sources
        BY Targets
      <4>6. Target(u)' = Target(u)
        BY <3>1 DEF Target
      <4> QED
        BY <1>b, <2>1, <3>1, <3>3, <4>3, <4>4, <4>5, <4>6 DEF OneOf, Present
    <3> QED
      BY <3>2, <3>3
  <2> QED
    BY <2>3, <2>5, <2>6
<1> QED
  BY <1>0, <1>1, <1>2, <1>3, <1>4, <1>5, <1>6, <1>7, <1>8, <1>9, <1>10 DEF Next

-----------------------------------------------------------------------------
(* While transactions follow one another, the official location is the     *)
(* best one or an administrator's.                                         *)
LEMMA OfficialStep ==
  /\ Types /\ AskedInv /\ LocksInv /\ Alone /\ OfficialInv /\ [Next]_vars
  => OfficialInv'
<1> SUFFICES ASSUME Types, AskedInv, LocksInv, Alone, OfficialInv, [Next]_vars, ~overlap'
             PROVE  Good(voter', locs') /\ \A t \in Txs : OfficialOf(t)'
  BY DEF OfficialInv
<1> USE DEF At
<1>a. ~overlap
  <2>1. ASSUME NEW t \in Txs, Act(t) PROVE overlap => overlap'
    BY <2>1, OnlyBegins DEF Begin
  <2>2. UNCHANGED vars => overlap' = overlap
    BY DEF vars, history
  <2> QED
    BY <2>1, <2>2 DEF Next, Act
<1>b. /\ Good(voter, locs)
      /\ \A t \in Txs : Asked(tx[t]) /\ Locks(t) /\ OfficialOf(t)
  BY <1>a DEF AskedInv, LocksInv, OfficialInv
<1>0. CASE UNCHANGED vars
  BY <1>0, <1>b DEF vars, history, OfficialOf, Seen
(* Nobody else is under way.                                               *)
<1>c. ASSUME NEW t \in Txs, Act(t), Good(voter', locs'), OfficialOf(t)'
      PROVE  Good(voter', locs') /\ \A u \in Txs : OfficialOf(u)'
  <2> SUFFICES ASSUME NEW u \in Txs, u # t PROVE OfficialOf(u)'
    BY <1>c
  <2>1. tx'[u] = tx[u]
    BY <1>c, OneMoves
  <2>2. CASE \E r \in Requests : Begin(t, r)
    <3>1. ~Active(u)
      BY <2>2 DEF Begin
    <3> QED
      BY <2>1, <3>1 DEF OfficialOf, Active
  <2>3. CASE \A r \in Requests : ~Begin(t, r)
    <3>1. Active(t)
      BY <1>c, <2>3 DEF Act, Active, Load, Upsert, Promote, Count, Insert, InsertFails,
                        Demote, SetPrimary, SyncBest, Flush, Commit, Abort
    <3>2. ~Active(u)
      BY <1>a, <3>1 DEF Alone
    <3> QED
      BY <2>1, <3>2 DEF OfficialOf, Active
  <2> QED
    BY <2>2, <2>3
<1>d. ASSUME NEW t \in Txs, Act(t), ~Commit(t), OfficialOf(t)'
      PROVE  Good(voter', locs') /\ \A u \in Txs : OfficialOf(u)'
  BY <1>b, <1>c, <1>d, OnlyCommits
<1>1. ASSUME NEW t \in Txs, NEW r \in Requests, Begin(t, r)
      PROVE  Good(voter', locs') /\ \A u \in Txs : OfficialOf(u)'
  <2>1. tx'[t].pc \in {"load", "count", "demote"}
    BY <1>1, BeginEffect DEF FirstPc
  <2>2. OfficialOf(t)'
    BY <2>1 DEF OfficialOf
  <2> QED
    BY <1>1, <1>d, <2>2 DEF Act, Commit, Begin
<1>2. ASSUME NEW t \in Txs, Load(t)
      PROVE  Good(voter', locs') /\ \A u \in Txs : OfficialOf(u)'
  <2>1. /\ Act(t) /\ ~Commit(t) /\ voter' = voter /\ locs' = locs
    BY <1>2 DEF Load, Commit, Act
  <2>2. voter \in Official
    BY DEF Types, TypeOK
  <2>3. /\ tx'[t].base = voter
        /\ tx'[t].pc \in {"flush", "autoflush", "upsert", "best"}
        /\ tx'[t].pc = "flush" => tx[t].op = "override"
        /\ tx'[t].pc = "autoflush" => tx[t].op = "clear"
    BY <1>2, LoadEffect
  <2>4. tx[t].op = "override" => /\ tx'[t].mem.point = Target(t)
                                 /\ tx'[t].mem.source = "admin"
                                 /\ tx'[t].mem.override = TRUE
    BY <1>2, LoadEffect
  <2>5. /\ tx[t].op = "clear" => tx'[t].mem = [voter EXCEPT !.override = FALSE]
        /\ tx[t].op \notin {"override", "clear"} => tx'[t].mem = voter
    BY <1>2, LoadEffect
  <2>6. Marked(tx'[t].mem)
    <3>1. CASE tx[t].op = "override"
      BY <1>b, <2>4, <3>1 DEF Asked, Marked, Target
    <3>2. CASE tx[t].op = "clear"
      BY <2>2, <2>5, <3>2 DEF Official, Marked
    <3>3. CASE tx[t].op \notin {"override", "clear"}
      BY <1>b, <2>5, <3>3 DEF Good
    <3> QED
      BY <3>1, <3>2, <3>3
  <2>7. tx'[t].pc = "flush" => Good(tx'[t].mem, Seen(t)')
    BY <2>3, <2>4, <2>6 DEF Good
  <2>8. OfficialOf(t)'
    BY <2>1, <2>3, <2>6, <2>7 DEF OfficialOf
  <2> QED
    BY <1>d, <2>1, <2>8
<1>3. ASSUME NEW t \in Txs, Upsert(t) \/ Promote(t)
      PROVE  Good(voter', locs') /\ \A u \in Txs : OfficialOf(u)'
  <2>1. Act(t) /\ ~Commit(t) /\ voter' = voter
    BY <1>3 DEF Upsert, Promote, Commit, Act
  <2>2. /\ tx[t].pc \in {"upsert", "promote"} /\ tx'[t].pc \in {"promote", "best"}
        /\ tx'[t].mem = tx[t].mem /\ tx'[t].base = tx[t].base /\ tx'[t].cols = tx[t].cols
    BY <1>3, UpsertEffect, PromoteEffect
  <2>3. OfficialOf(t)'
    BY <1>b, <2>1, <2>2 DEF OfficialOf
  <2> QED
    BY <1>d, <2>1, <2>3
<1>4. ASSUME NEW t \in Txs, Count(t) \/ Insert(t) \/ Demote(t) \/ SetPrimary(t)
      PROVE  Good(voter', locs') /\ \A u \in Txs : OfficialOf(u)'
  <2>1. Act(t) /\ ~Commit(t)
    BY <1>4 DEF Count, Insert, Demote, SetPrimary, Commit, Act
  <2>2. tx'[t].pc \in {"insert", "demote", "demoting", "load"}
    <3>1. CASE Count(t)
      BY <3>1, CountEffect
    <3>2. CASE Insert(t)
      BY <3>2, InsertEffect
    <3>3. CASE Demote(t)
      BY <3>3, DemoteEffect
    <3>4. CASE SetPrimary(t)
      BY <3>4, SetPrimaryEffect
    <3> QED
      BY <1>4, <3>1, <3>2, <3>3, <3>4
  <2>3. OfficialOf(t)'
    BY <2>2 DEF OfficialOf
  <2> QED
    BY <1>d, <2>1, <2>3
<1>5. ASSUME NEW t \in Txs, InsertFails(t) \/ Abort(t)
      PROVE  Good(voter', locs') /\ \A u \in Txs : OfficialOf(u)'
  <2>1. /\ Becomes(t, [Idle EXCEPT !.pc = "done"]) /\ locs' = locs /\ voter' = voter
        /\ Act(t)
    BY <1>5 DEF InsertFails, Abort, Discard, Act
  <2>2. OfficialOf(t)'
    BY <2>1, EndEffect DEF OfficialOf
  <2> QED
    BY <1>b, <1>c, <2>1, <2>2
<1>6. ASSUME NEW t \in Txs, SyncBest(t)
      PROVE  Good(voter', locs') /\ \A u \in Txs : OfficialOf(u)'
  <2>1. Act(t) /\ ~Commit(t) /\ voter' = voter /\ locs' = locs
    BY <1>6 DEF SyncBest, Commit, Act
  <2>2. /\ tx[t].pc = "best" /\ tx'[t].pc = "flush"
        /\ tx'[t].wrote = tx[t].wrote /\ tx'[t].base = tx[t].base /\ tx'[t].cols = tx[t].cols
    BY <1>6, SyncEffect
  <2>3. /\ tx[t].mem.override => tx'[t].mem = tx[t].mem
        /\ ~tx[t].mem.override => /\ tx'[t].mem.point = Best(Seen(t))
                                  /\ tx'[t].mem.source = Best(Seen(t))
                                  /\ tx'[t].mem.override = tx[t].mem.override
    BY <1>6, SyncEffect
  <2>4. Seen(t)' = Seen(t)
    BY <2>1, <2>2 DEF Seen
  <2>5. Marked(tx[t].mem)
    BY <1>b, <2>2 DEF OfficialOf
  <2>6. Good(tx'[t].mem, Seen(t))
    <3>1. CASE tx[t].mem.override
      BY <2>3, <2>5, <3>1 DEF Good, Marked
    <3>2. CASE ~tx[t].mem.override
      BY <2>3, <3>2 DEF Good, Marked
    <3> QED
      BY <3>1, <3>2
  <2>7. OfficialOf(t)'
    BY <1>b, <2>1, <2>2, <2>4, <2>6 DEF OfficialOf
  <2> QED
    BY <1>d, <2>1, <2>7
<1>7. ASSUME NEW t \in Txs, Flush(t)
      PROVE  Good(voter', locs') /\ \A u \in Txs : OfficialOf(u)'
  <2>1. Act(t) /\ ~Commit(t) /\ voter' = voter /\ locs' = locs
    BY <1>7 DEF Flush, Commit, Act
  <2>2. /\ tx[t].pc \in {"flush", "autoflush"}
        /\ tx[t].pc = "autoflush" <=> tx'[t].pc = "best"
        /\ tx'[t].pc \in {"best", "commit", "upsert"}
        /\ tx'[t].wrote = tx[t].wrote /\ tx'[t].mem = tx[t].mem /\ tx'[t].base = tx[t].mem
        /\ tx'[t].cols = tx[t].cols \cup Changed(t)
    BY <1>7, FlushEffect
  <2>3. Seen(t)' = Seen(t)
    BY <2>1, <2>2 DEF Seen
  <2>4. \A c \in Columns \ (tx[t].cols \cup Changed(t)) : tx[t].mem[c] = voter[c]
    BY <1>b, <2>2 DEF OfficialOf, Changed
  <2>5. Marked(tx[t].mem) /\ (tx[t].pc = "flush" => Good(tx[t].mem, Seen(t)))
    BY <1>b, <2>2 DEF OfficialOf, Good
  <2>6. OfficialOf(t)'
    BY <2>1, <2>2, <2>3, <2>4, <2>5 DEF OfficialOf
  <2> QED
    BY <1>d, <2>1, <2>6
<1>8. ASSUME NEW t \in Txs, Commit(t)
      PROVE  Good(voter', locs') /\ \A u \in Txs : OfficialOf(u)'
  <2>1. /\ Becomes(t, [Idle EXCEPT !.pc = "done"]) /\ Act(t) /\ tx[t].pc = "commit"
        /\ locs' = Seen(t)
        /\ voter' = [c \in Columns |-> IF c \in tx[t].cols THEN tx[t].base[c] ELSE voter[c]]
    BY <1>8 DEF Commit, Act
  <2>2. \A c \in Columns : voter'[c] = tx[t].base[c]
    BY <1>b, <2>1 DEF OfficialOf
  <2>3. /\ voter'.point = tx[t].base.point /\ voter'.source = tx[t].base.source
        /\ voter'.override = tx[t].base.override
    BY <2>2 DEF Columns
  <2>4. Good(tx[t].base, Seen(t))
    BY <1>b, <2>1 DEF OfficialOf
  <2>5. Good(voter', locs')
    BY <2>1, <2>3, <2>4 DEF Good, Marked
  <2>6. OfficialOf(t)'
    BY <2>1, EndEffect DEF OfficialOf
  <2> QED
    BY <1>c, <2>1, <2>5, <2>6
<1> QED
  BY <1>0, <1>1, <1>2, <1>3, <1>4, <1>5, <1>6, <1>7, <1>8 DEF Next

-----------------------------------------------------------------------------
(* Who stores one location at most takes the rows in order.                *)
LEMMA OneLeft ==
  ASSUME NEW S, NEW q \in Seq(S), q # <<>>, ~(Len(q) > 1)
  PROVE  Tail(q) = <<>>
OBVIOUS

LEMMA OrderStep ==
  Types /\ AskedInv /\ LocksInv /\ OrderInv /\ [Next]_vars => OrderInv'
<1> SUFFICES ASSUME Types, AskedInv, LocksInv, OrderInv, [Next]_vars PROVE OrderInv'
  OBVIOUS
<1> USE DEF At, Early
<1>a. Sources \subseteq Resources /\ "voter" \in Resources /\ "voter" \notin Sources
  BY SourcesAssumption DEF Resources
<1>b. \A t \in Txs : /\ Asked(tx[t]) /\ Locks(t) /\ (~tx[t].many => Ordered(t))
                     /\ tx[t].pc \in {"idle", "done"} => tx[t].many = FALSE
  BY DEF AskedInv, LocksInv, OrderInv, Active
<1>0. CASE UNCHANGED vars
  BY <1>0 DEF vars, OrderInv, Ordered, Target, Active
<1>c. ASSUME NEW t \in Txs, Act(t), ~tx'[t].many => Ordered(t)',
             tx'[t].pc \in {"idle", "done"} => tx'[t].many = FALSE
      PROVE  OrderInv'
  <2> SUFFICES ASSUME NEW u \in Txs, u # t, ~tx[u].many, tx'[u] = tx[u] PROVE Ordered(u)'
    BY <1>b, <1>c, OneMoves DEF OrderInv, Active
  <2>1. \A r \in Resources : lock'[r] = u <=> lock[r] = u
    BY <1>c, OneMoves
  <2>2. \A s \in Sources : locs[s] # "absent" => locs'[s] # "absent"
    BY <1>c, NeverRemoved
  <2>3. ASSUME NEW s \in Sources, lock[s] = u PROVE locs'[s] = locs[s]
    <3>1. tx[t].wrote[s] = "same"
      BY <2>3, <1>b DEF Locks
    <3> QED
      BY <3>1, <1>c, Committed, OnlyCommits
  <2>4. tx[u].pc \in {"demote", "demoting"} => Target(u) \in Sources
    BY Targets
  <2>5. tx[u].snap \subseteq Sources /\ Target(u)' = Target(u)
    BY DEF Types, Tx, Target
  <2> QED
    BY <1>a, <1>b, <2>1, <2>2, <2>3, <2>4, <2>5 DEF Ordered
<1>1. ASSUME NEW t \in Txs, NEW r \in Requests, Begin(t, r) PROVE OrderInv'
  <2>1. /\ tx[t].pc = "idle" /\ tx'[t].pc \in {"load", "count", "demote"} /\ tx'[t].op = r.op
        /\ tx'[t].todo = r.srcs /\ tx'[t].many = (Len(r.srcs) > 1)
        /\ tx'[t].wrote = tx[t].wrote
    BY <1>1, BeginEffect DEF FirstPc
  <2>2. tx[t].many = FALSE
    BY <1>b, <2>1
  <2>3. r.op = "store" => r.srcs \in Seq(Providers) /\ r.srcs # <<>>
    BY RequestsAssumption
  <2>4. lock' = lock /\ Act(t)
    BY <1>1 DEF Begin, Act
  <2>5. /\ \A x \in Resources : lock[x] # t
        /\ \A s \in Sources : tx[t].wrote[s] = "same"
    BY <1>b, <2>1, <2>2 DEF Ordered, Locks
  <2>6. ~tx'[t].many /\ r.op = "store" => Tail(r.srcs) = <<>>
    BY <2>1, <2>3, OneLeft
  <2>7. ~tx'[t].many => Ordered(t)'
    BY <1>a, <2>1, <2>4, <2>5, <2>6 DEF Ordered
  <2> QED
    BY <1>c, <2>1, <2>4, <2>7
<1>2. ASSUME NEW t \in Txs, Load(t) PROVE OrderInv'
  <2>1. /\ tx[t].pc = "load"
        /\ tx'[t].pc \in {"flush", "autoflush", "upsert", "best"}
        /\ tx'[t].pc = "upsert" <=> tx[t].op = "store"
        /\ tx'[t].op = tx[t].op /\ tx'[t].todo = tx[t].todo /\ tx'[t].many = tx[t].many
    BY <1>2, LoadEffect
  <2>2. lock' = lock /\ Act(t)
    BY <1>2 DEF Load, Act
  <2>3. ~tx'[t].many => Ordered(t)'
    BY <1>a, <1>b, <2>1, <2>2 DEF Ordered
  <2> QED
    BY <1>c, <2>1, <2>2, <2>3
<1>3. ASSUME NEW t \in Txs, Upsert(t) PROVE OrderInv'
  <2>1. /\ tx[t].pc = "upsert" /\ tx'[t].pc = "promote"
        /\ tx'[t].op = tx[t].op /\ tx'[t].todo = tx[t].todo /\ tx'[t].many = tx[t].many
    BY <1>3, UpsertEffect
  <2>2. Target(t) \in Sources /\ Take(t, {Target(t)}) /\ Act(t)
    BY <1>3, Targets DEF Upsert, Act
  <2>3. lock'["voter"] = lock["voter"]
    BY <1>a, <2>2, LockTaken
  <2>4. ~tx'[t].many => Ordered(t)'
    BY <1>a, <1>b, <2>1, <2>3 DEF Ordered
  <2> QED
    BY <1>c, <2>1, <2>2, <2>4
<1>4. ASSUME NEW t \in Txs, Promote(t) \/ SyncBest(t) PROVE OrderInv'
  <2>1. /\ tx[t].pc \in {"promote", "best"} /\ tx'[t].pc \in {"best", "flush"}
        /\ tx'[t].op = tx[t].op /\ tx'[t].todo = tx[t].todo /\ tx'[t].many = tx[t].many
    <3>1. CASE Promote(t)
      BY <3>1, PromoteEffect
    <3>2. CASE SyncBest(t)
      BY <3>2, SyncEffect
    <3> QED
      BY <1>4, <3>1, <3>2
  <2>2. Act(t)
    BY <1>4 DEF Act
  <2>3. ~tx'[t].many => Ordered(t)'
    BY <1>b, <2>1 DEF Ordered
  <2> QED
    BY <1>c, <2>1, <2>2, <2>3
<1>5. ASSUME NEW t \in Txs, Count(t) PROVE OrderInv'
  <2>1. /\ tx[t].pc = "count" /\ tx'[t].pc = "insert"
        /\ tx'[t].op = tx[t].op /\ tx'[t].todo = tx[t].todo /\ tx'[t].many = tx[t].many
    BY <1>5, CountEffect
  <2>2. lock' = lock /\ Act(t)
    BY <1>5 DEF Count, Act
  <2>3. ~tx'[t].many => Ordered(t)'
    BY <1>a, <1>b, <2>1, <2>2 DEF Ordered
  <2> QED
    BY <1>c, <2>1, <2>2, <2>3
<1>6. ASSUME NEW t \in Txs, Insert(t) PROVE OrderInv'
  <2>1. /\ tx[t].pc = "insert" /\ tx'[t].pc \in {"demote", "load"}
        /\ tx'[t].op = tx[t].op /\ tx'[t].todo = tx[t].todo /\ tx'[t].many = tx[t].many
        /\ tx[t].op = "manual"
    BY <1>6, <1>b, InsertEffect DEF Asked
  <2>2. /\ Target(t) \in Sources /\ Take(t, {Target(t)}) /\ Act(t) /\ locs' = locs
        /\ Seen(t)[Target(t)] = "absent" /\ Target(t)' = Target(t)
    BY <1>6, <2>1, Targets DEF Insert, Act, Target
  <2>3. \A r \in Resources : lock'[r] = IF r = Target(t) THEN t ELSE lock[r]
    BY <2>2, LockTaken
  <2>4. \A s \in Sources : tx[t].wrote[s] = "same"
    BY <1>b, <2>1 DEF Locks
  <2>5. locs[Target(t)] = "absent"
    BY <2>2, <2>4, SeenIs
  <2>6. \A s \in Sources : tx'[t].wrote[s] # "same" => s = Target(t)
    BY <1>6, <2>2, <2>4, InsertEffect, WriteIs
  <2>7. ~tx'[t].many => Ordered(t)'
    BY <1>a, <1>b, <2>1, <2>2, <2>3, <2>5, <2>6 DEF Ordered
  <2> QED
    BY <1>c, <2>1, <2>2, <2>7
<1>7. ASSUME NEW t \in Txs, InsertFails(t) \/ Abort(t) \/ Commit(t) PROVE OrderInv'
  <2>1. /\ Becomes(t, [Idle EXCEPT !.pc = "done"]) /\ Act(t)
        /\ lock' = [r \in Resources |-> IF lock[r] = t THEN "free" ELSE lock[r]]
    BY <1>7 DEF InsertFails, Abort, Commit, Discard, Act
  <2>2. tx'[t].pc = "done" /\ tx'[t].op = "none" /\ tx'[t].many = FALSE
    BY <2>1, EndEffect
  <2>3. \A r \in Resources : lock'[r] # t
    BY <2>1, Released
  <2>4. Ordered(t)'
    BY <1>a, <2>2, <2>3 DEF Ordered
  <2> QED
    BY <1>c, <2>1, <2>2, <2>4
<1>8. ASSUME NEW t \in Txs, Demote(t) PROVE OrderInv'
  <2>1. /\ tx[t].pc = "demote" /\ tx'[t].pc = "demoting"
        /\ tx'[t].op = tx[t].op /\ tx'[t].todo = tx[t].todo /\ tx'[t].many = tx[t].many
        /\ tx'[t].wrote = tx[t].wrote /\ tx'[t].snap = Present(Seen(t))
    BY <1>8, DemoteEffect
  <2>2. lock' = lock /\ locs' = locs /\ Act(t) /\ Target(t)' = Target(t)
    BY <1>8, <2>1 DEF Demote, Act, Target
  <2>3. \A s \in Present(Seen(t)) : locs[s] # "absent" \/ tx[t].wrote[s] # "same"
    BY SeenIs DEF Present
  <2>4. Present(Seen(t)) \subseteq Sources
    BY DEF Present
  <2>5. ~tx'[t].many => Ordered(t)'
    BY <1>a, <1>b, <2>1, <2>2, <2>3, <2>4 DEF Ordered
  <2> QED
    BY <1>c, <2>1, <2>2, <2>5
<1>9. ASSUME NEW t \in Txs, SetPrimary(t) PROVE OrderInv'
  <2>1. /\ tx[t].pc = "demoting" /\ tx'[t].pc = "load"
        /\ tx'[t].op = tx[t].op /\ tx'[t].todo = tx[t].todo /\ tx'[t].many = tx[t].many
        /\ tx[t].op # "store"
    BY <1>9, <1>b, SetPrimaryEffect DEF Asked
  <2>2. Take(t, tx[t].snap) /\ Act(t) /\ tx[t].snap \subseteq Sources
    BY <1>9 DEF SetPrimary, Act, Types, Tx
  <2>3. lock'["voter"] = lock["voter"]
    BY <1>a, <2>2, LockTaken
  <2>4. ~tx'[t].many => Ordered(t)'
    BY <1>a, <1>b, <2>1, <2>3 DEF Ordered
  <2> QED
    BY <1>c, <2>1, <2>2, <2>4
<1>10. ASSUME NEW t \in Txs, Flush(t) PROVE OrderInv'
  <2>1. /\ tx[t].pc \in {"flush", "autoflush"}
        /\ tx[t].pc = "autoflush" <=> tx'[t].pc = "best"
        /\ tx[t].pc = "flush" =>
             \/ tx'[t].pc = "commit"
             \/ tx'[t].pc = "upsert" /\ tx[t].op = "store" /\ Tail(tx[t].todo) # <<>>
        /\ tx'[t].op = tx[t].op /\ tx'[t].many = tx[t].many
    BY <1>10, FlushEffect
  <2>2. Act(t)
    BY <1>10 DEF Act
  <2>3. tx[t].pc = "autoflush" => tx[t].op = "clear"
    BY <1>b DEF Asked
  <2>4. ~tx'[t].many => tx'[t].pc \in {"best", "commit"}
    BY <1>b, <2>1 DEF Ordered
  <2>5. ~tx'[t].many => Ordered(t)'
    BY <1>b, <2>1, <2>3, <2>4 DEF Ordered
  <2>6. tx'[t].pc \notin {"idle", "done"}
    BY <2>1
  <2> QED
    BY <1>c, <2>2, <2>5, <2>6
<1> QED
  BY <1>0, <1>1, <1>2, <1>3, <1>4, <1>5, <1>6, <1>7, <1>8, <1>9, <1>10 DEF Next


-----------------------------------------------------------------------------
IInv == LocksInv /\ PrimaryInv /\ Alone /\ OneInv /\ OfficialInv /\ OrderInv

(* At first no transaction has begun.                                      *)
LEMMA LocationsInit == Init => IInv
<1> SUFFICES ASSUME Init PROVE IInv
  OBVIOUS
<1>1. \A t \in Txs : /\ tx[t].pc = "idle" /\ tx[t].op = "none" /\ tx[t].many = FALSE
                     /\ tx[t].todo = <<>>
                     /\ \A s \in Sources : tx[t].wrote[s] = "same"
  BY DEF Init, Idle
<1>2. lock = [r \in Resources |-> "free"] /\ ~overlap /\ ~raced
  BY DEF Init
<1>3. HasPrimary /\ One(locs)
  <2>1. PICK S \in Initials : \E p \in S \cup {"none"} :
          /\ p = "none" <=> S = {}
          /\ locs = [s \in Sources |-> CASE s = p -> "primary"
                                         [] s \in S \ {p} -> "plain"
                                         [] OTHER -> "absent"]
    BY DEF Init
  <2>2. PICK p \in S \cup {"none"} :
          /\ p = "none" <=> S = {}
          /\ locs = [s \in Sources |-> CASE s = p -> "primary"
                                         [] s \in S \ {p} -> "plain"
                                         [] OTHER -> "absent"]
    BY <2>1
  <2>3. S \subseteq Sources /\ "none" \notin Sources
    BY SourcesAssumption
  <2>4. \A s \in Sources : locs[s] = IF s = p THEN "primary"
                                     ELSE IF s \in S THEN "plain" ELSE "absent"
    BY <2>2
  <2>5. S # {} => p \in Sources
    BY <2>2, <2>3
  <2>6. Present(locs) \subseteq S
    BY <2>2, <2>3, <2>4 DEF Present
  <2>7. S # {} => p \in Primary(locs)
    BY <2>4, <2>5 DEF Primary
  <2>8. HasPrimary
    BY <2>6, <2>7 DEF HasPrimary
  <2>9. One(locs)
    BY <2>4 DEF One
  <2> QED
    BY <2>8, <2>9
<1>4. LocksInv
  BY <1>1 DEF LocksInv, Locks, At
<1>5. PrimaryInv
  BY <1>1, <1>3 DEF PrimaryInv, Primed, Keeps, At
<1>6. Alone
  BY <1>1 DEF Alone, Active
<1>7. OneInv
  <2> SUFFICES ASSUME NEW t \in Txs PROVE OneOf(t)
    BY <1>3 DEF OneInv
  <2>1. Thin(t) /\ One(Seen(t))
    BY <1>1, <1>3, SeenIs DEF Thin, One
  <2> QED
    BY <1>1, <2>1 DEF OneOf, At
<1>8. OfficialInv
  <2>1. voter = [point |-> Best(locs), source |-> Best(locs), override |-> FALSE]
    BY DEF Init
  <2>2. Good(voter, locs)
    BY <2>1 DEF Good, Marked
  <2> QED
    BY <1>1, <2>2 DEF OfficialInv, OfficialOf, At
<1>9. OrderInv
  <2> SUFFICES ASSUME NEW t \in Txs PROVE Ordered(t)
    BY <1>1 DEF OrderInv
  <2>1. \A r \in Resources : lock[r] # t
    BY <1>2, SourcesAssumption
  <2>2. "voter" \in Resources
    BY DEF Resources
  <2> QED
    BY <1>1, <2>1, <2>2 DEF Ordered, At
<1> QED
  BY <1>4, <1>5, <1>6, <1>7, <1>8, <1>9 DEF IInv

LEMMA LocationsInductive == Spec => [](Types /\ AskedInv /\ IInv)
<1>1. (Types /\ AskedInv) /\ IInv /\ [Next]_vars => IInv'
  BY LocksStep, PrimaryStep, AloneStep, OneStep, OfficialStep, OrderStep DEF IInv
<1> QED
  BY <1>1, LocationsInit, LocationTypes, PTL DEF Spec

(* A voter with locations has a primary one, whatever overlaps, fails or   *)
(* is rolled back, and no second one as long as no location is inserted    *)
(* after transactions overlapped.                                          *)
THEOREM PrimaryIsKept == Spec => []OnePrimary
<1>1. Types /\ IInv => OnePrimary
  <2> SUFFICES ASSUME Types, IInv PROVE OnePrimary
    OBVIOUS
  <2>1. TypeOK /\ HasPrimary
    BY DEF Types, IInv, PrimaryInv
  <2>2. AtMostOnePrimary
    <3> SUFFICES ASSUME ~raced PROVE Cardinality(Primary(locs)) <= 1
      BY DEF AtMostOnePrimary
    <3>1. One(locs)
      BY DEF IInv, OneInv
    <3>2. CASE Primary(locs) = {}
      BY <3>2, FS_EmptySet
    <3>3. CASE Primary(locs) # {}
      <4>1. PICK s : s \in Primary(locs)
        BY <3>3
      <4>2. Primary(locs) = {s}
        BY <3>1, <4>1 DEF One, Primary
      <4> QED
        BY <4>2, FS_Singleton
    <3> QED
      BY <3>2, <3>3
  <2> QED
    BY <2>1, <2>2 DEF OnePrimary
<1> QED
  BY <1>1, LocationsInductive, PTL

LEMMA OfficialFacts ==
  ASSUME IInv
  PROVE  OfficialIsBest /\ OverrideSticks /\ SourceNamesPoint
<1>1. ~overlap => Good(voter, locs)
  BY DEF IInv, OfficialInv
<1>2. Best(locs) \notin Overrides
  BY BestIsSource, SourcesAssumption
<1> QED
  BY <1>1, <1>2 DEF OfficialIsBest, OverrideSticks, SourceNamesPoint, Good, Marked

(* While transactions follow one another the official location is the best *)
(* one unless it is overridden,                                            *)
THEOREM OfficialStaysBest == Spec => []OfficialIsBest
<1>1. IInv => OfficialIsBest
  BY OfficialFacts
<1> QED
  BY <1>1, LocationsInductive, PTL

(* an override keeps the administrator's point until it is cleared,        *)
THEOREM OverridesAreKept == Spec => []OverrideSticks
<1>1. IInv => OverrideSticks
  BY OfficialFacts
<1> QED
  BY <1>1, LocationsInductive, PTL

(* and official_source says where the official point comes from.           *)
THEOREM SourcesAreRight == Spec => []SourceNamesPoint
<1>1. IInv => SourceNamesPoint
  BY OfficialFacts
<1> QED
  BY <1>1, LocationsInductive, PTL

(* Two transactions wait for each other only if one of them stores several *)
(* locations.                                                              *)
THEOREM NoTwoWait == Spec => []NoLockCycle
<1>1. Types /\ AskedInv /\ IInv => NoLockCycle
  <2> SUFFICES ASSUME Types, AskedInv, IInv, NEW t \in Txs, NEW u \in Txs,
                      WaitsFor(t, u), WaitsFor(u, t), ~tx[t].many, ~tx[u].many
               PROVE  FALSE
    BY DEF NoLockCycle
  <2>1. Ordered(t) /\ Ordered(u) /\ t # u
    BY DEF IInv, OrderInv, WaitsFor
  <2>2. PICK r \in Wants(t) : lock[r] = u
    BY DEF WaitsFor
  <2>3. PICK x \in Wants(u) : lock[x] = t
    BY DEF WaitsFor
  <2>w. ASSUME NEW v \in Txs, NEW y \in Wants(v)
        PROVE  \/ tx[v].pc \in {"upsert", "insert"} /\ y \in Sources
               \/ tx[v].pc = "demoting" /\ y \in tx[v].snap /\ y \in Sources
               \/ tx[v].pc \in {"flush", "autoflush"} /\ y = "voter"
    <3>1. tx[v].snap \subseteq Sources
      BY DEF Types, Tx
    <3> QED
      BY <2>w, <3>1, Targets DEF Wants, At
  <2>4. Sources \subseteq Resources /\ "voter" \in Resources /\ "voter" \notin Sources
    BY SourcesAssumption DEF Resources
  <2>5. r \in Resources /\ x \in Resources
    BY <2>2, <2>3, <2>4, <2>w
  <2>6. tx[t].pc \in {"demoting", "flush", "autoflush"}
        /\ tx[u].pc \in {"demoting", "flush", "autoflush"}
    BY <2>1, <2>2, <2>3, <2>5, <2>w DEF Ordered, Early
  <2>7. r # "voter" /\ x # "voter"
    BY <2>1, <2>2, <2>3, <2>4, <2>6, <2>w DEF Ordered
  <2>8. tx[t].pc = "demoting" /\ r \in tx[t].snap /\ tx[u].pc = "demoting" /\ x \in tx[u].snap
    BY <2>2, <2>3, <2>6, <2>7, <2>w
  <2>9. r = Target(u) /\ locs[r] = "absent" /\ x = Target(t) /\ locs[x] = "absent"
    BY <2>1, <2>2, <2>3, <2>5, <2>8 DEF Ordered
  <2>10. r = Target(t)
    BY <2>1, <2>8, <2>9 DEF Ordered, At
  <2> QED
    BY <2>1, <2>2, <2>3, <2>9, <2>10
<1> QED
  BY <1>1, LocationsInductive, PTL
=============================================================================
