----------------------------- MODULE AnswersProofs -----------------------------
(***************************************************************************)
(* For any providers, requests, boundaries, commands, exports, elections   *)
(* and precincts: what is published, exported, geocoded, or answered about *)
(* elections and precincts agrees with the tables it was made from.        *)
(***************************************************************************)
EXTENDS PublicAnswers, FiniteSetTheorems, SequenceTheorems, WellFoundedInduction, TLAPS

-----------------------------------------------------------------------------
(* Subsequences.                                                           *)

(* A set of natural numbers that is not empty has a least element.         *)
LEMMA LeastNatural ==
  ASSUME NEW S \in SUBSET Nat, S # {}
  PROVE  \E x \in S : \A y \in S : x =< y
<1>1. \E x \in S : \A y \in S : ~(<<y, x>> \in OpToRel(<, Nat))
  BY NatLessThanWellFounded, WFMin, Zenon
<1>2. \A x, y \in Nat : <<y, x>> \in OpToRel(<, Nat) <=> y < x
  BY DEF OpToRel
<1>3. \E x \in S : \A y \in S : ~(y < x)
  BY <1>1, <1>2, Zenon
<1> QED
  BY <1>3

(* A set that has 0, and the successor of what it has up to n, has 0..n.   *)
LEMMA UpTo ==
  ASSUME NEW n \in Nat, NEW T, 0 \in T, \A i \in 1..n : i - 1 \in T => i \in T
  PROVE  \A i \in 0..n : i \in T
<1> DEFINE W == {i \in 0..n : i \notin T}
<1> SUFFICES ASSUME W # {} PROVE FALSE
  OBVIOUS
<1>1. W \in SUBSET Nat
  OBVIOUS
<1> HIDE DEF W
<1>2. PICK x \in W : \A y \in W : x =< y
  BY <1>1, LeastNatural
<1>3. x \in 0..n /\ x \notin T /\ \A y \in 0..n : y \notin T => x =< y
  BY <1>2 DEF W
<1>4. x \in 1..n /\ x - 1 \in 0..n
  BY <1>3
<1>5. x - 1 \in T
  BY <1>3, <1>4
<1> QED
  BY <1>3, <1>4, <1>5

(* q has elements of s in their order, from places in I.                   *)
IsPart(q, s, I) ==
  \E h \in [1..Len(q) -> I] : /\ \A k \in 1..Len(q) : q[k] = s[h[k]]
                              /\ \A k, m \in 1..Len(q) : k < m => h[k] < h[m]

LEMMA AtIs ==
  ASSUME NEW S, NEW s \in Seq(S), NEW I \in SUBSET (1..Len(s))
  PROVE  Geocodes!At(s, I) \in Seq(S) /\ IsPart(Geocodes!At(s, I), s, I)
<1> DEFINE Rec(g, n) == [i \in 0..n |-> IF i = 0 THEN <<>>
                                        ELSE IF i \in I THEN Append(g[i - 1], s[i])
                                        ELSE g[i - 1]]
           N == Len(s)
           f == CHOOSE g : g = Rec(g, N)
<1>n. N \in Nat /\ I \in SUBSET (1..N) /\ \A i \in I : i \in Nat
  OBVIOUS
<1> HIDE DEF N
<1>1. \E g : g = Rec(g, N)
  <2> DEFINE T == {n \in 0..N : \E g : g = Rec(g, n)}
  <2>1. 0 \in T
    <3> DEFINE g == [i \in 0..0 |-> <<>>]
    <3>1. g = Rec(g, 0)
      OBVIOUS
    <3> HIDE DEF g
    <3>2. 0 \in 0..N
      BY <1>n
    <3> QED
      BY <3>1, <3>2
  <2>2. ASSUME NEW n \in 1..N, n - 1 \in T PROVE n \in T
    <3>1. PICK g : g = Rec(g, n - 1)
      BY <2>2
    <3> DEFINE new == IF n \in I THEN Append(g[n - 1], s[n]) ELSE g[n - 1]
               e == [i \in 0..n |-> IF i = n THEN new ELSE g[i]]
    <3>2. \A i \in 0..n : i # n => i \in 0..(n - 1)
      OBVIOUS
    <3>3. \A i \in 0..(n - 1) : g[i] = IF i = 0 THEN <<>> ELSE IF i \in I THEN Append(g[i - 1], s[i])
                                                          ELSE g[i - 1]
      BY <3>1
    <3>4. \A i \in 0..n : i # 0 => e[i - 1] = g[i - 1]
      BY <1>n
    <3>5. \A i \in 0..n : e[i] = IF i = 0 THEN <<>> ELSE IF i \in I THEN Append(e[i - 1], s[i])
                                                    ELSE e[i - 1]
      BY <3>2, <3>3, <3>4
    <3>6. e = Rec(e, n)
      <4> HIDE DEF new
      <4>1. e = [i \in 0..n |-> e[i]]
        OBVIOUS
      <4> HIDE DEF e
      <4> QED
        BY <3>5, <4>1
    <3> HIDE DEF e, new
    <3> QED
      BY <3>6
  <2> HIDE DEF T
  <2>3. N \in T
    BY <1>n, <2>1, <2>2, UpTo, SMTT(30)
  <2> QED
    BY <2>3 DEF T
<1>2. f = Rec(f, N)
  BY <1>1, Zenon
<1>3. Geocodes!At(s, I) = f[N]
  BY Zenon DEF Geocodes!At, N
<1> HIDE DEF f
<1>4. /\ f[0] = <<>>
      /\ \A i \in 1..N : f[i] = IF i \in I THEN Append(f[i - 1], s[i]) ELSE f[i - 1]
  <2>1. 0 \in 0..N /\ \A i \in 1..N : i \in 0..N /\ i # 0
    BY <1>n
  <2>2. \A i \in 0..N : f[i] = IF i = 0 THEN <<>> ELSE IF i \in I THEN Append(f[i - 1], s[i])
                                                   ELSE f[i - 1]
    BY <1>2
  <2> QED
    BY <2>1, <2>2
<1> DEFINE Good(i) == /\ f[i] \in Seq(S) /\ IsPart(f[i], s, {k \in I : k <= i})
           T == {i \in 0..N : Good(i)}
<1>5. 0 \in T
  <2>1. f[0] \in Seq(S) /\ Len(f[0]) = 0
    BY <1>4
  <2>2. IsPart(f[0], s, {k \in I : k <= 0})
    <3> DEFINE h == [k \in 1..0 |-> 0]
    <3>1. h \in [1..Len(f[0]) -> {k \in I : k <= 0}]
      BY <2>1
    <3> QED
      BY <2>1, <3>1 DEF IsPart
  <2> QED
    BY <1>n, <2>1, <2>2
<1>6. ASSUME NEW i \in 1..N, i - 1 \in T PROVE i \in T
  <2>1. f[i - 1] \in Seq(S) /\ IsPart(f[i - 1], s, {k \in I : k <= i - 1})
    BY <1>6
  <2>2. PICK h \in [1..Len(f[i - 1]) -> {k \in I : k <= i - 1}] :
          /\ \A k \in 1..Len(f[i - 1]) : f[i - 1][k] = s[h[k]]
          /\ \A k, m \in 1..Len(f[i - 1]) : k < m => h[k] < h[m]
    BY <2>1 DEF IsPart
  <2>3. CASE i \notin I
    <3>1. f[i] = f[i - 1]
      BY <1>4, <2>3
    <3>2. h \in [1..Len(f[i]) -> {k \in I : k <= i}]
      <4>1. \A k \in I : k <= i - 1 => k <= i
        BY <1>n
      <4> QED
        BY <2>2, <3>1, <4>1
    <3>3. IsPart(f[i], s, {k \in I : k <= i})
      BY <2>2, <3>1, <3>2 DEF IsPart
    <3> QED
      BY <2>1, <3>1, <3>3
  <2>4. CASE i \in I
    <3> DEFINE m == Len(f[i - 1])
               e == [k \in 1..(m + 1) |-> IF k = m + 1 THEN i ELSE h[k]]
    <3>1. s[i] \in S /\ m \in Nat
      BY <2>1, <1>n DEF N
    <3>2. /\ f[i] \in Seq(S) /\ Len(f[i]) = m + 1
          /\ f[i][m + 1] = s[i] /\ \A k \in 1..m : f[i][k] = f[i - 1][k]
      <4>1. f[i] = Append(f[i - 1], s[i])
        BY <1>4, <2>4
      <4> QED
        BY <2>1, <3>1, <4>1
    <3> HIDE DEF m
    <3>3. e \in [1..(m + 1) -> {k \in I : k <= i}]
      <4>1. \A k \in I : k <= i - 1 => k <= i
        BY <1>n
      <4>2. \A k \in 1..(m + 1) : k # m + 1 => k \in 1..m
        BY <3>1
      <4>3. i <= i
        BY <1>n
      <4> QED
        BY <2>2, <2>4, <4>1, <4>2, <4>3 DEF m
    <3>4. \A k \in 1..(m + 1) : f[i][k] = s[e[k]]
      BY <2>2, <3>1, <3>2 DEF m
    <3>5. \A k, l \in 1..(m + 1) : k < l => e[k] < e[l]
      <4> SUFFICES ASSUME NEW k \in 1..(m + 1), NEW l \in 1..(m + 1), k < l PROVE e[k] < e[l]
        OBVIOUS
      <4>1. k \in 1..m /\ e[k] = h[k]
        BY <3>1
      <4>2. CASE l = m + 1
        <5>1. e[l] = i /\ h[k] <= i - 1 /\ h[k] \in Nat
          BY <4>1, <4>2, <3>1, <1>n DEF m, N
        <5> QED
          BY <4>1, <5>1
      <4>3. CASE l # m + 1
        <5>1. l \in 1..m /\ e[l] = h[l]
          BY <4>3, <3>1
        <5> QED
          BY <2>2, <4>1, <5>1 DEF m
      <4> QED
        BY <4>2, <4>3
    <3> HIDE DEF e
    <3>6. IsPart(f[i], s, {k \in I : k <= i})
      BY <3>2, <3>3, <3>4, <3>5 DEF IsPart
    <3> QED
      BY <3>2, <3>6
  <2> QED
    BY <2>3, <2>4
<1> HIDE DEF T
<1>7. N \in T
  <2>1. \A i \in 1..N : i - 1 \in T => i \in T
    BY <1>6
  <2>2. \A i \in 0..N : i \in T
    BY <1>5, <2>1, <1>n, UpTo
  <2> QED
    BY <2>2, <1>n
<1>8. {k \in I : k <= N} = I
  <2>1. \A k \in I : k \in 1..N /\ k <= N
    BY <1>n
  <2> QED
    BY <2>1
<1> QED
  BY <1>3, <1>7, <1>8 DEF T
-----------------------------------------------------------------------------
(* Publishing.                                                             *)
FileNames == Datasets!Types \cup {Combined}
Cells     == Boundaries \X Nat
Manifests == UNION {[N -> SUBSET Cells] : N \in SUBSET FileNames}

(* None is no manifest.                                                    *)
NilAssumption == Nil \notin Manifests

Command == [pc : {"idle", "reading", "uploading", "merging"}, whole : BOOLEAN,
            types : SUBSET FileNames, rows : SUBSET Cells, alone : BOOLEAN,
            left : SUBSET FileNames, entries : Manifests, base : Manifests \cup {Nil}]

DatasetTypes ==
  /\ table \in [Boundaries -> Nat]
  /\ store \in Manifests
  /\ manifest \in Manifests \cup {Nil}
  /\ command \in [Commands -> Command]
  /\ cache \in [data : Manifests \cup {Nil}, stale : BOOLEAN]
  /\ fetched \in [Readers -> Manifests \cup {Nil}]
  /\ torn \in {"no", "overlapped", "broken"}
  /\ runs \in Nat

LEMMA MinIs ==
  ASSUME NEW S \in SUBSET Nat, S # {}
  PROVE  Datasets!Min(S) \in S
<1>1. \E x \in S : \A y \in S : x =< y
  BY LeastNatural
<1> QED
  BY <1>1 DEF Datasets!Min

(* What putting one manifest over another gives.                           *)
LEMMA OverIs ==
  ASSUME NEW f \in Manifests, NEW g \in Manifests
  PROVE  /\ Datasets!Over(f, g) \in Manifests
         /\ DOMAIN Datasets!Over(f, g) = DOMAIN f \cup DOMAIN g
         /\ \A n \in DOMAIN f : Datasets!Over(f, g)[n] = f[n]
         /\ \A n \in DOMAIN g \ DOMAIN f : Datasets!Over(f, g)[n] = g[n]
<1>1. PICK F \in SUBSET FileNames : f \in [F -> SUBSET Cells]
  BY DEF Manifests
<1>2. PICK G \in SUBSET FileNames : g \in [G -> SUBSET Cells]
  BY DEF Manifests
<1>3. Datasets!Over(f, g) \in [F \cup G -> SUBSET Cells] /\ F \cup G \in SUBSET FileNames
  BY <1>1, <1>2 DEF Datasets!Over
<1>4. Datasets!Over(f, g) \in Manifests
  BY <1>3 DEF Manifests
<1> QED
  BY <1>1, <1>2, <1>4 DEF Datasets!Over

(* Manifests with the same entries are the same.                           *)
LEMMA SameEntries ==
  ASSUME NEW f \in Manifests, NEW g \in Manifests, DOMAIN f = DOMAIN g,
         \A n \in DOMAIN f : f[n] = g[n]
  PROVE  f = g
  BY DEF Manifests

(* The empty manifest.                                                     *)
LEMMA EmptyIs == Datasets!Empty \in Manifests /\ DOMAIN Datasets!Empty = {}
                 /\ \A f \in Manifests : DOMAIN f = {} => f = Datasets!Empty
<1>1. Datasets!Empty \in Manifests /\ DOMAIN Datasets!Empty = {}
  BY DEF Datasets!Empty, Manifests
<1> QED
  BY <1>1, SameEntries

(* One entry.                                                              *)
LEMMA EntryIs ==
  ASSUME NEW n \in FileNames, NEW s \in SUBSET Cells
  PROVE  /\ [m \in {n} |-> s] \in Manifests
         /\ DOMAIN [m \in {n} |-> s] = {n}
         /\ [m \in {n} |-> s][n] = s
<1>1. [m \in {n} |-> s] \in [{n} -> SUBSET Cells] /\ {n} \in SUBSET FileNames
  OBVIOUS
<1> QED
  BY <1>1 DEF Manifests

(* The next file to go up is one that is left.                             *)
LEMMA NextFileIs ==
  ASSUME Datasets!PublishingAssumption, NEW left \in SUBSET FileNames, left # {}
  PROVE  Datasets!NextFile(left) \in left
<1>1. CASE left = {Combined}
  BY <1>1 DEF Datasets!NextFile
<1>2. CASE left # {Combined}
  <2>1. left \ {Combined} # {} /\ left \ {Combined} \in SUBSET Nat
    BY <1>2 DEF FileNames, Datasets!Types, Datasets!Range, Datasets!PublishingAssumption
  <2> QED
    BY <1>2, <2>1, MinIs DEF Datasets!NextFile
<1> QED
  BY <1>1, <1>2

(* What the idle, and the reading, command is.                             *)
LEMMA IdleIs ==
  /\ Datasets!Idle \in Command /\ Datasets!Idle.pc = "idle"
         /\ Datasets!Idle.entries = Datasets!Empty /\ Datasets!Idle.base = Nil
  /\ Datasets!Idle.rows = {} /\ Datasets!Idle.left = {} /\ Datasets!Idle.alone
<1>1. Datasets!Empty \in Manifests
  BY EmptyIs
<1> QED
  BY <1>1 DEF Datasets!Idle, Command

(* Rows that are read are cells of the table.                              *)
LEMMA RowsAre ==
  ASSUME DatasetTypes, NEW bs \in SUBSET Boundaries
  PROVE  /\ Datasets!Rows(bs) \in SUBSET Cells
         /\ \A cell \in Datasets!Rows(bs) : cell[1] \in bs /\ table[cell[1]] > 0
         /\ \A b \in bs : table[b] > 0 => \E cell \in Datasets!Rows(bs) : cell[1] = b
<1>1. \A b \in bs : <<b, table[b]>> \in Cells
  BY DEF Cells, DatasetTypes
<1>2. \A cell \in Datasets!Rows(bs) : \E b \in bs : cell = <<b, table[b]>> /\ table[b] > 0
  BY DEF Datasets!Rows
<1>3. \A b \in bs : table[b] > 0 => <<b, table[b]>> \in Datasets!Rows(bs)
  BY DEF Datasets!Rows
<1> HIDE DEF Datasets!Rows
<1>4. \A b \in bs : table[b] > 0 => \E cell \in Datasets!Rows(bs) : cell[1] = b
  BY <1>3
<1> QED
  BY <1>1, <1>2, <1>4

(* A file has rows of the command that uploads it.                         *)
LEMMA ContentIs ==
  ASSUME NEW cells \in SUBSET Cells, NEW n
  PROVE  /\ Datasets!Content(n, cells) \in SUBSET Cells
         /\ Datasets!Content(n, cells) \subseteq cells
         /\ \A cell \in Datasets!Content(n, cells) : n # Combined => TypeOf[cell[1]] = n
         /\ n \in Datasets!TypesIn(cells) => Datasets!Content(n, cells) # {}
  BY DEF Datasets!Content, Datasets!TypesIn

-----------------------------------------------------------------------------
(* A command that begins to read.                                          *)
Reading(new) == /\ new.pc = "reading" /\ new.entries = Datasets!Empty /\ new.base = Nil
                /\ new.rows = {} /\ new.left = {}
                /\ new.whole => new.types = {Combined}

(* What the start of a command makes of its record.                        *)
LEMMA StartIs ==
  ASSUME Datasets!PublishingAssumption, DatasetTypes, NEW c \in Commands, Datasets!Start(c)
  PROVE  \/ command' = [command EXCEPT ![c] = Datasets!Idle]
         \/ \E new \in Command : Reading(new) /\ Datasets!Begin(c, new)
<1>1. PICK f \in Datasets!Filters :
        IF f.by = "all"
        THEN Datasets!Begin(c, [Datasets!Idle EXCEPT !.pc = "reading", !.whole = TRUE,
                                                     !.types = {Combined}])
        ELSE LET types == Datasets!TypesToRegenerate(f)
             IN  IF types = {} THEN Datasets!Set(c, Datasets!Idle)
                 ELSE Datasets!Begin(c, [Datasets!Idle EXCEPT !.pc = "reading", !.types = types])
  BY DEF Datasets!Start
<1>2. CASE f.by = "all"
  <2> DEFINE new == [Datasets!Idle EXCEPT !.pc = "reading", !.whole = TRUE, !.types = {Combined}]
  <2>1. new \in Command /\ Reading(new)
    BY EmptyIs DEF Datasets!Idle, Command, Reading, FileNames
  <2> HIDE DEF new
  <2>2. Datasets!Begin(c, new)
    BY <1>1, <1>2 DEF new
  <2> QED
    BY <2>1, <2>2
<1>3. CASE f.by # "all"
  <2> DEFINE types == Datasets!TypesToRegenerate(f)
             new   == [Datasets!Idle EXCEPT !.pc = "reading", !.types = types]
  <2>1. types \in SUBSET FileNames
    BY <1>3 DEF Datasets!Filters, Datasets!TypesToRegenerate, FileNames, Datasets!Types,
                Datasets!Range, Datasets!PublishingAssumption
  <2>2. (types = {} /\ Datasets!Set(c, Datasets!Idle)) \/ Datasets!Begin(c, new)
    BY <1>1, <1>3
  <2> HIDE DEF types
  <2>3. new \in Command /\ Reading(new)
    BY <2>1, EmptyIs DEF Datasets!Idle, Command, Reading
  <2> HIDE DEF new
  <2> QED
    BY <2>2, <2>3 DEF Datasets!Set
<1> QED
  BY <1>2, <1>3

(* Every variable stays in its type.                                       *)
LEMMA DatasetTypesNext ==
  ASSUME Datasets!PublishingAssumption, NilAssumption, DatasetTypes, [Datasets!Next]_datasets
  PROVE  DatasetTypes'
<1> USE DEF DatasetTypes
<1>c. \A c \in Commands : command[c] \in Command
  OBVIOUS
<1>1. CASE Datasets!ImportBoundaries
  BY <1>1 DEF Datasets!ImportBoundaries
<1>2. CASE Datasets!Expire
  BY <1>2 DEF Datasets!Expire
<1>3. ASSUME NEW c \in Commands, Datasets!Start(c)
      PROVE  DatasetTypes'
  <2>1. /\ runs' = runs + 1 /\ torn' \in {torn, "overlapped"}
        /\ UNCHANGED <<table, store, manifest, cache, fetched>>
    BY <1>3 DEF Datasets!Start
  <2>2. CASE command' = [command EXCEPT ![c] = Datasets!Idle]
    BY <2>1, <2>2, IdleIs
  <2>3. ASSUME NEW new \in Command, Datasets!Begin(c, new)
        PROVE  command' \in [Commands -> Command]
    <3>1. \A b \in BOOLEAN : \A d \in Command : [d EXCEPT !.alone = b] \in Command
      BY DEF Command
    <3>2. [new EXCEPT !.alone = Datasets!Others(c) = {}] \in Command
      BY <3>1
    <3> QED
      BY <1>c, <2>3, <3>1, <3>2 DEF Datasets!Begin
  <2> QED
    BY <1>3, <2>1, <2>2, <2>3, StartIs
<1>4. ASSUME NEW c \in Commands, Datasets!Read(c)
      PROVE  DatasetTypes'
  <2>1. PICK t \in command[c].types :
          command' = [command EXCEPT ![c] =
            [command[c] EXCEPT !.types = @ \ {t},
                               !.rows = @ \cup Datasets!Rows(IF t = Combined THEN Boundaries
                                                    ELSE Datasets!OfType(t))]]
    BY <1>4 DEF Datasets!Read, Datasets!Set
  <2>2. Datasets!Rows(IF t = Combined THEN Boundaries ELSE Datasets!OfType(t)) \in SUBSET Cells
    BY RowsAre DEF Datasets!OfType
  <2>3. command'[c] \in Command
    <3>1. ASSUME NEW ts \in SUBSET FileNames, NEW more \in SUBSET Cells
          PROVE  [command[c] EXCEPT !.types = ts, !.rows = @ \cup more] \in Command
      BY <1>c DEF Command
    <3>2. command[c].types \ {t} \in SUBSET FileNames
      BY <1>c DEF Command
    <3> HIDE DEF DatasetTypes
    <3>3. command'[c] = [command[c] EXCEPT !.types = @ \ {t},
                 !.rows = @ \cup Datasets!Rows(IF t = Combined THEN Boundaries
                                                ELSE Datasets!OfType(t))]
      BY <2>1 DEF DatasetTypes
    <3> QED
      BY <2>2, <3>1, <3>2, <3>3
  <2> QED
    BY <1>4, <2>1, <2>3 DEF Datasets!Read
<1>5. ASSUME NEW c \in Commands, Datasets!Generate(c)
      PROVE  DatasetTypes'
  <2>1. Datasets!TypesIn(command[c].rows) \in SUBSET FileNames
    <3>1. \A cell \in command[c].rows : cell[1] \in Boundaries
      BY <1>c DEF Command, Cells
    <3> QED
      BY <3>1 DEF Datasets!TypesIn, FileNames, Datasets!Types, Datasets!Range,
                  Datasets!PublishingAssumption
  <2>2. ASSUME NEW l \in SUBSET FileNames
        PROVE  [command[c] EXCEPT !.pc = "uploading", !.left = l] \in Command
    BY <1>c DEF Command
  <2>3. Datasets!TypesIn(command[c].rows) \cup (IF command[c].whole THEN {Combined} ELSE {})
          \in SUBSET FileNames
    BY <2>1 DEF FileNames
  <2>4. command'[c] \in Command
    BY <1>5, <2>2, <2>3, IdleIs DEF Datasets!Generate, Datasets!Set
  <2>5. command' = [command EXCEPT ![c] = command'[c]]
    BY <1>5 DEF Datasets!Generate, Datasets!Set
  <2> QED
    BY <1>5, <2>4, <2>5 DEF Datasets!Generate
<1>6. ASSUME NEW c \in Commands, Datasets!Upload(c)
      PROVE  DatasetTypes'
  <2> DEFINE name  == Datasets!NextFile(command[c].left)
             content == Datasets!Content(name, command[c].rows)
             entry   == [n \in {name} |-> content]
  <2>1. name \in FileNames /\ content \in SUBSET Cells /\ command[c].entries \in Manifests
    BY <1>6, <1>c, NextFileIs, ContentIs DEF Datasets!Upload, Command
  <2>2. entry \in Manifests
    BY <2>1, EntryIs, ZenonT(40)
  <2>3. /\ Datasets!Over(entry, store) \in Manifests
        /\ Datasets!Over(entry, command[c].entries) \in Manifests
    BY <2>1, <2>2, OverIs
  <2>4. /\ store' = Datasets!Over(entry, store)
        /\ command' = [command EXCEPT ![c] =
             [command[c] EXCEPT !.left = @ \ {name}, !.entries = Datasets!Over(entry, @)]]
    BY <1>6 DEF Datasets!Upload, Datasets!Set
  <2> HIDE DEF name, entry
  <2>5. [command[c] EXCEPT !.left = @ \ {name}, !.entries = Datasets!Over(entry, @)] \in Command
    BY <1>c, <2>3 DEF Command
  <2> QED
    BY <1>6, <2>3, <2>4, <2>5 DEF Datasets!Upload
<1>7. ASSUME NEW c \in Commands, Datasets!FetchManifest(c)
      PROVE  DatasetTypes'
  <2>1. command'[c] \in Command
    BY <1>7, <1>c, ZenonT(40) DEF Datasets!FetchManifest, Datasets!Set, Command
  <2> QED
    BY <1>7, <2>1 DEF Datasets!FetchManifest, Datasets!Set
<1>8. ASSUME NEW c \in Commands, Datasets!UploadManifest(c)
      PROVE  DatasetTypes'
  <2>1. command[c].entries \in Manifests /\ command[c].base \in Manifests \cup {Nil}
    BY <1>c DEF Command
  <2>2. Datasets!Merge(command[c].base, command[c].entries) \in Manifests
    BY <2>1, OverIs DEF Datasets!Merge
  <2> QED
    BY <1>8, <2>2, IdleIs DEF Datasets!UploadManifest, Datasets!Set
<1>9. ASSUME NEW c \in Commands, Datasets!Fail(c)
      PROVE  DatasetTypes'
  BY <1>9, IdleIs DEF Datasets!Fail, Datasets!Set
<1>10. ASSUME NEW r \in Readers, Datasets!Refresh(r)
       PROVE  DatasetTypes'
  BY <1>10 DEF Datasets!Refresh
<1>11. ASSUME NEW r \in Readers, Datasets!CacheManifest(r)
       PROVE  DatasetTypes'
  BY <1>11 DEF Datasets!CacheManifest
<1>12. CASE UNCHANGED datasets
  BY <1>12 DEF datasets
<1> QED
  BY <1>1, <1>2, <1>3, <1>4, <1>5, <1>6, <1>7, <1>8, <1>9, <1>10, <1>11, <1>12 DEF Datasets!Next

(* The types hold at the start.                                            *)
LEMMA DatasetTypesInit == Datasets!Init => DatasetTypes
  BY EmptyIs, IdleIs DEF Datasets!Init, DatasetTypes

-----------------------------------------------------------------------------
(* What a file, a manifest and a command rely on.                          *)
Known(cells) == \A cell \in cells : cell[1] \in Boundaries /\ table[cell[1]] > 0

GoodFile(n, content) ==
  /\ Known(content)
  /\ n # Combined => content # {} /\ \A cell \in content : TypeOf[cell[1]] = n

FilesInv == \A n \in DOMAIN store : GoodFile(n, store[n])

Reliable(com) == /\ Known(com.rows)
                 /\ com.left \subseteq Datasets!TypesIn(com.rows) \cup {Combined}
                 /\ DOMAIN com.entries \subseteq DOMAIN store
                 /\ com.base # Nil => DOMAIN com.base \subseteq DOMAIN store

SafeInv == FilesInv /\ (\A c \in Commands : Reliable(command[c])) /\ Datasets!FilesExist

(* It holds at the start.                                                  *)
LEMMA SafeInit == Datasets!Init => SafeInv
<1> SUFFICES ASSUME Datasets!Init
             PROVE  SafeInv
  OBVIOUS
<1>1. FilesInv
  BY EmptyIs DEF Datasets!Init, FilesInv
<1>2. \A c \in Commands : Reliable(command[c])
  BY IdleIs, EmptyIs DEF Datasets!Init, Reliable, Known
<1>3. Datasets!FilesExist
  BY DEF Datasets!Init, Datasets!FilesExist, Datasets!Range
<1> QED
  BY <1>1, <1>2, <1>3 DEF SafeInv

(* Rows are not deleted, so what is known stays known.                     *)
LEMMA KnownNext ==
  ASSUME DatasetTypes, [Datasets!Next]_datasets, NEW cells, Known(cells)
  PROVE  Known(cells)'
<1>1. \A b \in Boundaries : table[b] > 0 => table'[b] > 0
  <2>1. CASE Datasets!ImportBoundaries
    BY <2>1 DEF Datasets!ImportBoundaries, DatasetTypes
  <2>2. CASE ~Datasets!ImportBoundaries
    BY <2>2 DEF Datasets!Next, datasets, Datasets!Expire, Datasets!Start, Datasets!Read,
                Datasets!Generate, Datasets!Upload, Datasets!FetchManifest,
                Datasets!UploadManifest,
                Datasets!Fail, Datasets!Refresh, Datasets!CacheManifest
  <2> QED
    BY <2>1, <2>2
<1> QED
  BY <1>1 DEF Known

(* A manifest stays good as the files become more.                         *)
LEMMA FilesGrow ==
  ASSUME DatasetTypes, [Datasets!Next]_datasets, SafeInv, DOMAIN store \subseteq DOMAIN store',
         FilesInv', NEW com, Reliable(com)
  PROVE  Reliable(com)'
  BY KnownNext DEF Reliable

(* Each action keeps it.                                                   *)
LEMMA SafeNext ==
  ASSUME Datasets!PublishingAssumption, NilAssumption, DatasetTypes, DatasetTypes', SafeInv,
         [Datasets!Next]_datasets
  PROVE  SafeInv'
<1>c. \A c \in Commands : command[c] \in Command /\ Reliable(command[c])
  BY DEF DatasetTypes, SafeInv
<1>f. ASSUME UNCHANGED store
      PROVE  FilesInv' /\ \A com : Reliable(com) => Reliable(com)'
  <2>1. FilesInv'
    BY <1>f, KnownNext DEF FilesInv, GoodFile, SafeInv
  <2> QED
    BY <1>f, <2>1, FilesGrow
<1>m. ASSUME UNCHANGED <<store, manifest, cache, fetched>>,
             \A c \in Commands : Reliable(command'[c])
      PROVE  SafeInv'
  <2>1. \A c \in Commands : Reliable(command[c])'
    BY <1>f, <1>m
  <2>2. Datasets!FilesExist'
    BY <1>m DEF SafeInv, Datasets!FilesExist, Datasets!Range
  <2> QED
    BY <1>f, <1>m, <2>1, <2>2 DEF SafeInv
<1>i. Reliable(Datasets!Idle)
  BY IdleIs, EmptyIs DEF Reliable, Known
<1>1. CASE Datasets!ImportBoundaries \/ Datasets!Expire
  <2>1. UNCHANGED <<store, manifest, command, fetched>> /\ cache'.data = cache.data
    BY <1>1 DEF Datasets!ImportBoundaries, Datasets!Expire, DatasetTypes
  <2>2. Datasets!FilesExist'
    BY <2>1 DEF SafeInv, Datasets!FilesExist, Datasets!Range
  <2> QED
    BY <1>c, <1>f, <2>1, <2>2 DEF SafeInv
<1>2. ASSUME NEW c \in Commands, Datasets!Start(c)
      PROVE  SafeInv'
  <2>1. UNCHANGED <<store, manifest, cache, fetched>>
    BY <1>2 DEF Datasets!Start
  <2>2. CASE command' = [command EXCEPT ![c] = Datasets!Idle]
    BY <1>c, <1>i, <1>m, <2>1, <2>2 DEF DatasetTypes
  <2>3. ASSUME NEW new \in Command, Reading(new), Datasets!Begin(c, new)
        PROVE  \A d \in Commands : Reliable(command'[d])
    <3>1. \A com \in Command : Reliable(com) => Reliable([com EXCEPT !.alone = FALSE])
      BY DEF Command, Reliable
    <3>2. [new EXCEPT !.alone = Datasets!Others(c) = {}].rows = {}
          /\ [new EXCEPT !.alone = Datasets!Others(c) = {}].left = {}
          /\ [new EXCEPT !.alone = Datasets!Others(c) = {}].entries = Datasets!Empty
          /\ [new EXCEPT !.alone = Datasets!Others(c) = {}].base = Nil
      BY <2>3 DEF Reading, Command
    <3>3. Reliable([new EXCEPT !.alone = Datasets!Others(c) = {}])
      BY <3>2, EmptyIs DEF Reliable, Known
    <3> QED
      BY <1>c, <2>3, <3>1, <3>3 DEF Datasets!Begin
  <2> QED
    BY <1>2, <1>m, <2>1, <2>2, <2>3, StartIs
<1>3. ASSUME NEW c \in Commands, Datasets!Read(c)
      PROVE  SafeInv'
  <2>1. PICK t \in command[c].types :
          command' = [command EXCEPT ![c] =
            [command[c] EXCEPT !.types = @ \ {t},
                               !.rows = @ \cup Datasets!Rows(IF t = Combined THEN Boundaries
                                                    ELSE Datasets!OfType(t))]]
    BY <1>3 DEF Datasets!Read, Datasets!Set
  <2> DEFINE more == Datasets!Rows(IF t = Combined THEN Boundaries ELSE Datasets!OfType(t))
  <2>2. Known(more)
    BY RowsAre DEF Datasets!OfType, Known
  <2>3. /\ command'[c].rows = command[c].rows \cup more
        /\ command'[c].left = command[c].left
        /\ command'[c].entries = command[c].entries
        /\ command'[c].base = command[c].base
    BY <1>c, <2>1 DEF Command, DatasetTypes
  <2>4. Reliable(command'[c])
    BY <1>c, <2>2, <2>3 DEF Reliable, Known, Datasets!TypesIn
  <2> QED
    BY <1>3, <1>c, <1>m, <2>1, <2>4 DEF Datasets!Read, DatasetTypes
<1>4. ASSUME NEW c \in Commands, Datasets!Generate(c)
      PROVE  SafeInv'
  <2>1. \/ command' = [command EXCEPT ![c] = Datasets!Idle]
        \/ command' = [command EXCEPT ![c] = [command[c] EXCEPT !.pc = "uploading",
             !.left = Datasets!TypesIn(command[c].rows)
                      \cup IF command[c].whole THEN {Combined} ELSE {}]]
    BY <1>4 DEF Datasets!Generate, Datasets!Set
  <2>2. Reliable([command[c] EXCEPT !.pc = "uploading",
             !.left = Datasets!TypesIn(command[c].rows)
                      \cup IF command[c].whole THEN {Combined} ELSE {}])
    BY <1>c DEF Reliable, Command
  <2> QED
    BY <1>4, <1>c, <1>i, <1>m, <2>1, <2>2 DEF Datasets!Generate, DatasetTypes
<1>5. ASSUME NEW c \in Commands, Datasets!Upload(c)
      PROVE  SafeInv'
  <2> DEFINE name  == Datasets!NextFile(command[c].left)
             content == Datasets!Content(name, command[c].rows)
             entry   == [n \in {name} |-> content]
  <2>1. name \in command[c].left /\ content \in SUBSET Cells /\ command[c].entries \in Manifests
        /\ name \in FileNames /\ store \in Manifests
    BY <1>5, <1>c, NextFileIs, ContentIs DEF Datasets!Upload, Command, DatasetTypes
  <2>2. entry \in Manifests /\ DOMAIN entry = {name} /\ entry[name] = content
    BY <2>1, EntryIs
  <2>3. GoodFile(name, content)
    <3>1. name # Combined => name \in Datasets!TypesIn(command[c].rows)
      BY <1>c, <2>1 DEF Reliable
    <3> QED
      BY <1>c, <3>1, ContentIs DEF GoodFile, Known, Reliable, Command
  <2>4. /\ store' = Datasets!Over(entry, store)
        /\ command' = [command EXCEPT ![c] =
             [command[c] EXCEPT !.left = @ \ {name}, !.entries = Datasets!Over(entry, @)]]
        /\ UNCHANGED <<table, manifest, cache, fetched>>
    BY <1>5 DEF Datasets!Upload, Datasets!Set
  <2> HIDE DEF name, content, entry
  <2>5. DOMAIN store' = {name} \cup DOMAIN store /\ store'[name] = content
        /\ \A n \in DOMAIN store \ {name} : store'[n] = store[n]
    <3>1. /\ DOMAIN Datasets!Over(entry, store) = DOMAIN entry \cup DOMAIN store
          /\ \A n \in DOMAIN entry : Datasets!Over(entry, store)[n] = entry[n]
          /\ \A n \in DOMAIN store \ DOMAIN entry : Datasets!Over(entry, store)[n] = store[n]
      BY <2>1, <2>2, OverIs, Zenon
    <3> QED
      BY <2>2, <2>4, <3>1
  <2>6. FilesInv'
    BY <2>3, <2>4, <2>5 DEF FilesInv, SafeInv, GoodFile, Known
  <2>7. /\ command'[c].rows = command[c].rows /\ command'[c].base = command[c].base
        /\ command'[c].left \subseteq command[c].left
        /\ command'[c].entries = Datasets!Over(entry, command[c].entries)
    BY <1>c, <2>4 DEF Command, DatasetTypes
  <2>8. DOMAIN command'[c].entries = {name} \cup DOMAIN command[c].entries
    <3>1. DOMAIN Datasets!Over(entry, command[c].entries)
            = DOMAIN entry \cup DOMAIN command[c].entries
      BY <2>1, <2>2, OverIs, Zenon
    <3> QED
      BY <2>2, <2>7, <3>1
  <2>9. Reliable(command[c])'
    BY <1>c, <2>4, <2>5, <2>7, <2>8 DEF Reliable, Known
  <2>10. \A d \in Commands \ {c} : Reliable(command[d])'
    BY <1>c, <2>4, <2>5, <2>6, FilesGrow DEF DatasetTypes
  <2>11. Datasets!FilesExist'
    BY <2>4, <2>5 DEF SafeInv, Datasets!FilesExist, Datasets!Range
  <2> QED
    BY <2>6, <2>9, <2>10, <2>11 DEF SafeInv
<1>6. ASSUME NEW c \in Commands, Datasets!FetchManifest(c)
      PROVE  SafeInv'
  <2>1. Reliable([command[c] EXCEPT !.pc = "merging",
                    !.base = IF command[c].whole THEN Nil ELSE manifest])
    BY <1>c DEF Reliable, Command, SafeInv, Datasets!FilesExist
  <2> QED
    BY <1>6, <1>c, <1>m, <2>1 DEF Datasets!FetchManifest, Datasets!Set, DatasetTypes
<1>7. ASSUME NEW c \in Commands, Datasets!UploadManifest(c)
      PROVE  SafeInv'
  <2>1. command[c].entries \in Manifests /\ command[c].base \in Manifests \cup {Nil}
    BY <1>c DEF Command
  <2>2. manifest' = Datasets!Merge(command[c].base, command[c].entries)
        /\ UNCHANGED <<store, cache, fetched>> /\ command' = [command EXCEPT ![c] = Datasets!Idle]
    BY <1>7 DEF Datasets!UploadManifest, Datasets!Set
  <2>3. DOMAIN manifest' \subseteq DOMAIN store
    <3>1. CASE command[c].base = Nil
      BY <1>c, <2>2, <3>1 DEF Datasets!Merge, Reliable
    <3>2. CASE command[c].base # Nil
      <4>1. DOMAIN Datasets!Over(command[c].entries, command[c].base)
            = DOMAIN command[c].entries \cup DOMAIN command[c].base
        BY <2>1, <3>2, OverIs, Zenon
      <4> QED
        BY <1>c, <2>2, <3>2, <4>1 DEF Datasets!Merge, Reliable
    <3> QED
      BY <3>1, <3>2
  <2>4. Datasets!FilesExist'
    BY <2>2, <2>3 DEF SafeInv, Datasets!FilesExist, Datasets!Range
  <2>5. \A d \in Commands : Reliable(command'[d])
    BY <1>c, <1>i, <2>2 DEF DatasetTypes
  <2> QED
    BY <1>f, <2>2, <2>4, <2>5 DEF SafeInv
<1>8. ASSUME NEW c \in Commands, Datasets!Fail(c)
      PROVE  SafeInv'
  BY <1>8, <1>c, <1>i, <1>m DEF Datasets!Fail, Datasets!Set, DatasetTypes
<1>9. ASSUME NEW r \in Readers, Datasets!Refresh(r) \/ Datasets!CacheManifest(r)
      PROVE  SafeInv'
  <2>1. UNCHANGED <<store, manifest, command>>
        /\ {cache'.data} \cup Datasets!Range(fetched') \subseteq
             {manifest, Nil, cache.data} \cup Datasets!Range(fetched)
    BY <1>9 DEF Datasets!Refresh, Datasets!CacheManifest, Datasets!Range, DatasetTypes
  <2>2. Datasets!FilesExist'
    BY <2>1 DEF SafeInv, Datasets!FilesExist
  <2> QED
    BY <1>c, <1>f, <2>1, <2>2 DEF SafeInv
<1>10. CASE UNCHANGED datasets
  BY <1>10, <1>c, <1>m DEF datasets
<1> QED
  BY <1>1, <1>2, <1>3, <1>4, <1>5, <1>6, <1>7, <1>8, <1>9, <1>10 DEF Datasets!Next

-----------------------------------------------------------------------------
(* The manifest and the files: what is listed.                             *)
Listed == IF manifest = Nil THEN Datasets!Empty ELSE manifest

(* How far a command is.                                                   *)
Progress(com) ==
  /\ com.pc = "reading" => com.entries = Datasets!Empty
  /\ com.pc \in {"uploading", "merging"} => com.left \cup DOMAIN com.entries # {}
  /\ com.pc = "merging" => com.left = {} /\ (com.whole => com.base = Nil)
  /\ com.pc = "reading" /\ com.whole => com.types \subseteq {Combined}

(* A command that publishes everything and is alone will have replaced     *)
(* every file there is.                                                    *)
Replaces(com) ==
  com.pc # "idle" /\ com.whole /\ com.alone =>
    /\ com.pc = "reading" /\ com.types = {} =>
         DOMAIN store \subseteq Datasets!TypesIn(com.rows) \cup {Combined}
    /\ com.pc # "reading" =>
         /\ DOMAIN store \subseteq com.left \cup DOMAIN com.entries
         /\ \A n \in DOMAIN com.entries : store[n] = com.entries[n]

(* A command that is alone is, and all are while nothing is torn.          *)
OneRuns  == \A c, d \in Commands :
              c # d /\ Datasets!Running(c) /\ Datasets!Running(d) => ~command[c].alone
AllAlone == torn = "no" => \A c \in Commands : Datasets!Running(c) => command[c].alone

(* While nothing is torn, the files are those listed, with those the       *)
(* command under way has uploaded over them.                               *)
Described(com) == /\ store = Datasets!Over(com.entries, Listed)
                  /\ com.pc = "merging" /\ ~com.whole => com.base = manifest
InStep == torn = "no" => /\ (\A c \in Commands : ~Datasets!Running(c)) => store = Listed
                         /\ \A c \in Commands : Datasets!Running(c) => Described(command[c])

DescribeInv == /\ \A c \in Commands : Progress(command[c]) /\ Replaces(command[c])
               /\ OneRuns /\ AllAlone /\ InStep /\ manifest # Datasets!Empty

(* It holds at the start.                                                  *)
LEMMA DescribeInit == NilAssumption /\ Datasets!Init => DescribeInv
<1> SUFFICES ASSUME NilAssumption, Datasets!Init
             PROVE  DescribeInv
  OBVIOUS
<1>1. \A c \in Commands : Progress(command[c]) /\ Replaces(command[c]) /\ ~Datasets!Running(c)
  BY IdleIs DEF Datasets!Init, Progress, Replaces, Datasets!Running
<1>2. manifest # Datasets!Empty /\ store = Listed
  BY EmptyIs DEF Datasets!Init, NilAssumption, Listed
<1> QED
  BY <1>1, <1>2 DEF DescribeInv, OneRuns, AllAlone, InStep

(* Putting nothing over a manifest.                                        *)
LEMMA OverEmpty == ASSUME NEW g \in Manifests PROVE Datasets!Over(Datasets!Empty, g) = g
<1>1. Datasets!Empty \in Manifests /\ DOMAIN Datasets!Empty = {}
  BY EmptyIs
<1>2. /\ Datasets!Over(Datasets!Empty, g) \in Manifests
      /\ DOMAIN Datasets!Over(Datasets!Empty, g) = DOMAIN Datasets!Empty \cup DOMAIN g
      /\ \A n \in DOMAIN g \ DOMAIN Datasets!Empty : Datasets!Over(Datasets!Empty, g)[n] = g[n]
  BY <1>1, OverIs, Zenon
<1>3. /\ DOMAIN Datasets!Over(Datasets!Empty, g) = DOMAIN g
      /\ \A n \in DOMAIN Datasets!Over(Datasets!Empty, g) :
           Datasets!Over(Datasets!Empty, g)[n] = g[n]
  BY <1>1, <1>2
<1> QED
  BY <1>2, <1>3, SameEntries, Zenon

(* Putting one manifest over another over a third.                         *)
LEMMA OverTwice ==
  ASSUME NEW e \in Manifests, NEW f \in Manifests, NEW g \in Manifests
  PROVE  Datasets!Over(e, Datasets!Over(f, g)) = Datasets!Over(Datasets!Over(e, f), g)
<1> DEFINE a == Datasets!Over(e, Datasets!Over(f, g))
           b == Datasets!Over(Datasets!Over(e, f), g)
           x == Datasets!Over(f, g)
           y == Datasets!Over(e, f)
<1>1. /\ x \in Manifests /\ DOMAIN x = DOMAIN f \cup DOMAIN g
      /\ \A n \in DOMAIN f : x[n] = f[n]
      /\ \A n \in DOMAIN g \ DOMAIN f : x[n] = g[n]
  BY OverIs, Zenon
<1>2. /\ y \in Manifests /\ DOMAIN y = DOMAIN e \cup DOMAIN f
      /\ \A n \in DOMAIN e : y[n] = e[n]
      /\ \A n \in DOMAIN f \ DOMAIN e : y[n] = f[n]
  BY OverIs, Zenon
<1>3. /\ a \in Manifests /\ DOMAIN a = DOMAIN e \cup DOMAIN x
      /\ \A n \in DOMAIN e : a[n] = e[n]
      /\ \A n \in DOMAIN x \ DOMAIN e : a[n] = x[n]
  BY <1>1, OverIs, Zenon
<1>4. /\ b \in Manifests /\ DOMAIN b = DOMAIN y \cup DOMAIN g
      /\ \A n \in DOMAIN y : b[n] = y[n]
      /\ \A n \in DOMAIN g \ DOMAIN y : b[n] = g[n]
  BY <1>2, OverIs, Zenon
<1> HIDE DEF a, b, x, y
<1>5. DOMAIN a = DOMAIN b
  BY <1>1, <1>2, <1>3, <1>4
<1>6. ASSUME NEW n \in DOMAIN a
      PROVE  a[n] = b[n]
  <2>1. CASE n \in DOMAIN e
    BY <1>2, <1>3, <1>4, <2>1
  <2>2. CASE n \notin DOMAIN e /\ n \in DOMAIN f
    BY <1>1, <1>2, <1>3, <1>4, <2>2
  <2>3. CASE n \notin DOMAIN e /\ n \notin DOMAIN f
    BY <1>1, <1>2, <1>3, <1>4, <1>6, <2>3
  <2> QED
    BY <2>1, <2>2, <2>3
<1> QED
  BY <1>3, <1>4, <1>5, <1>6, SameEntries DEF a, b

(* Commands other than c stay as they are, and c is idle now.              *)
LEMMA EndNext ==
  ASSUME DatasetTypes, NilAssumption, DescribeInv, NEW c \in Commands, Datasets!Running(c),
         command' = [command EXCEPT ![c] = Datasets!Idle], store' = store,
         manifest' # Datasets!Empty,
         torn' = "no" => (torn = "no" \/ command[c].alone)
                         /\ store = (IF manifest' = Nil THEN Datasets!Empty ELSE manifest')
  PROVE  DescribeInv'
<1>1. \A d \in Commands : command'[d] = IF d = c THEN Datasets!Idle ELSE command[d]
  BY DEF DatasetTypes
<1>2. \A d \in Commands : Datasets!Running(d)' => d # c /\ Datasets!Running(d)
  BY <1>1, IdleIs DEF Datasets!Running
<1>3. \A d \in Commands : Progress(command[d])' /\ Replaces(command[d])'
  BY <1>1, IdleIs DEF DescribeInv, Progress, Replaces
<1>4. OneRuns'
  BY <1>1, <1>2 DEF DescribeInv, OneRuns
<1>5. torn' = "no" => \A d \in Commands : ~Datasets!Running(d)'
  BY <1>2 DEF DescribeInv, OneRuns, AllAlone
<1>6. torn' = "no" => store' = Listed'
  BY DEF Listed
<1> QED
  BY <1>3, <1>4, <1>5, <1>6 DEF DescribeInv, AllAlone, InStep

(* Command c goes on, and the others stay as they are.                     *)
LEMMA StepNext ==
  ASSUME DatasetTypes, DescribeInv, NEW c \in Commands, Datasets!Running(c), NEW new,
         command' = [command EXCEPT ![c] = new], new.pc # "idle", new.alone = command[c].alone,
         Progress(new), Replaces(new)', torn' = torn, manifest' = manifest,
         torn = "no" => Described(new)',
         \A d \in Commands \ {c} : Replaces(command[d])'
  PROVE  DescribeInv'
<1>1. \A d \in Commands : command'[d] = IF d = c THEN new ELSE command[d]
  BY DEF DatasetTypes
<1>2. \A d \in Commands : Datasets!Running(d)' <=> Datasets!Running(d)
  BY <1>1 DEF Datasets!Running
<1>3. \A d \in Commands : Progress(command[d])' /\ Replaces(command[d])'
  BY <1>1 DEF DescribeInv, Progress, Replaces
<1>4. OneRuns' /\ AllAlone'
  BY <1>1, <1>2 DEF DescribeInv, OneRuns, AllAlone
<1>5. torn = "no" => \A d \in Commands : Datasets!Running(d) => d = c
  BY DEF DescribeInv, OneRuns, AllAlone
<1>6. InStep'
  BY <1>1, <1>2, <1>5 DEF InStep
<1> QED
  BY <1>3, <1>4, <1>6 DEF DescribeInv

(* Begin makes nobody torn when nobody else runs, and all otherwise.       *)
LEMMA BeginNext ==
  ASSUME DatasetTypes, NilAssumption, DescribeInv, NEW c \in Commands, ~Datasets!Running(c),
         NEW new \in Command, Reading(new), Datasets!Begin(c, new),
         torn' = IF Datasets!Others(c) # {} /\ torn = "no" THEN "overlapped" ELSE torn,
         UNCHANGED <<store, manifest>>
  PROVE  DescribeInv'
<1>c. \A d \in Commands : command[d] \in Command
  BY DEF DatasetTypes
<1>1. \A d \in Commands :
        command'[d] = IF d = c THEN [new EXCEPT !.alone = Datasets!Others(c) = {}]
                      ELSE IF Datasets!Running(d) THEN [command[d] EXCEPT !.alone = FALSE]
                      ELSE command[d]
  BY DEF Datasets!Begin
<1>2. /\ command'[c].pc = "reading" /\ command'[c].entries = Datasets!Empty
      /\ command'[c].base = Nil
      /\ command'[c].alone <=> Datasets!Others(c) = {}
      /\ command'[c].whole => command'[c].types = {Combined}
  <2>1. command'[c] = [new EXCEPT !.alone = Datasets!Others(c) = {}]
    BY <1>1
  <2> QED
    BY <2>1 DEF Reading, Command
<1>3. \A d \in Commands \ {c} :
        Datasets!Running(d) => command'[d] = [command[d] EXCEPT !.alone = FALSE]
  BY <1>1
<1>4. \A d \in Commands \ {c} : ~Datasets!Running(d) => command'[d] = command[d]
  BY <1>1
<1>5. ASSUME NEW d \in Commands
      PROVE  Progress(command[d])' /\ Replaces(command[d])'
  <2>1. CASE d = c
    BY <1>2, <2>1 DEF Progress, Replaces
  <2>2. CASE d # c /\ Datasets!Running(d)
    <3>1. Progress(command[d])
      BY DEF DescribeInv
    <3>2. command'[d] = [command[d] EXCEPT !.alone = FALSE]
      BY <1>3, <2>2
    <3>3. /\ command'[d].pc = command[d].pc /\ command'[d].entries = command[d].entries
          /\ command'[d].left = command[d].left /\ command'[d].whole = command[d].whole
          /\ command'[d].base = command[d].base /\ command'[d].types = command[d].types
          /\ ~command'[d].alone
      BY <1>c, <3>2 DEF Command
    <3> QED
      BY <3>1, <3>3 DEF Progress, Replaces
  <2>3. CASE d # c /\ ~Datasets!Running(d)
    BY <1>4, <2>3 DEF DescribeInv, Progress, Replaces, Datasets!Running
  <2> QED
    BY <2>1, <2>2, <2>3
<1>6. CASE Datasets!Others(c) = {}
  <2>1. \A d \in Commands \ {c} : ~Datasets!Running(d) /\ ~Datasets!Running(d)'
    BY <1>4, <1>6 DEF Datasets!Others, Datasets!Running
  <2>2. OneRuns' /\ AllAlone'
    BY <1>2, <1>6, <2>1 DEF OneRuns, AllAlone
  <2>3. torn = "no" => store = Datasets!Over(Datasets!Empty, Listed)
    <3>1. Listed \in Manifests
      BY EmptyIs DEF Listed, DatasetTypes
    <3>2. torn = "no" => store = Listed
      BY <2>1 DEF DescribeInv, InStep
    <3> QED
      BY <3>1, <3>2, OverEmpty
  <2>4. InStep'
    <3>1. Datasets!Running(c)'
      BY <1>2 DEF Datasets!Running
    <3>2. Listed' = Listed
      BY DEF Listed
    <3>3. torn = "no" => Described(command[c])'
      BY <1>2, <2>3, <3>2 DEF Described
    <3> QED
      BY <1>6, <2>1, <3>1, <3>3 DEF InStep
  <2> QED
    BY <1>5, <2>2, <2>4 DEF DescribeInv
<1>7. CASE Datasets!Others(c) # {}
  <2>1. torn' # "no"
    BY <1>7
  <2>2. \A d \in Commands : Datasets!Running(d)' => ~command'[d].alone
    <3>1. \A d \in Commands \ {c} :
            Datasets!Running(d) => ~[command[d] EXCEPT !.alone = FALSE].alone
      BY <1>c DEF Command
    <3> SUFFICES ASSUME NEW d \in Commands, Datasets!Running(d)'
                 PROVE  ~command'[d].alone
      OBVIOUS
    <3>2. CASE d = c
      BY <1>2, <1>7, <3>2
    <3>3. CASE d # c /\ Datasets!Running(d)
      BY <1>3, <3>1, <3>3
    <3>4. CASE d # c /\ ~Datasets!Running(d)
      BY <1>4, <3>4 DEF Datasets!Running
    <3> QED
      BY <3>2, <3>3, <3>4
  <2> QED
    BY <1>5, <2>1, <2>2 DEF DescribeInv, OneRuns, AllAlone, InStep
<1> QED
  BY <1>6, <1>7

(* Each action keeps manifest and files in step.                           *)
LEMMA DescribeNext ==
  ASSUME Datasets!PublishingAssumption, NilAssumption, DatasetTypes, SafeInv, DescribeInv,
         [Datasets!Next]_datasets
  PROVE  DescribeInv'
<1>c. \A c \in Commands : /\ command[c] \in Command /\ Progress(command[c])
                          /\ Replaces(command[c]) /\ Reliable(command[c])
  BY DEF DatasetTypes, SafeInv, DescribeInv
<1>l. Listed \in Manifests /\ store \in Manifests
  BY EmptyIs DEF Listed, DatasetTypes
<1>a. torn = "no" => \A c, d \in Commands : Datasets!Running(c) /\ Datasets!Running(d) => c = d
  BY DEF DescribeInv, OneRuns, AllAlone
<1>d. torn = "no" => \A c \in Commands : Datasets!Running(c) => Described(command[c])
  BY DEF DescribeInv, InStep
<1>o. ASSUME NEW c \in Commands, command' = [command EXCEPT ![c] = command'[c]], UNCHANGED store
      PROVE  \A d \in Commands \ {c} : Replaces(command[d])'
  BY <1>c, <1>o DEF Replaces, DatasetTypes
<1>1. CASE Datasets!ImportBoundaries \/ Datasets!Expire \/ UNCHANGED datasets
           \/ \E r \in Readers : Datasets!Refresh(r) \/ Datasets!CacheManifest(r)
  <2>1. UNCHANGED <<store, manifest, command, torn>>
    BY <1>1 DEF Datasets!ImportBoundaries, Datasets!Expire, Datasets!Refresh,
                Datasets!CacheManifest, datasets
  <2>2. \A c \in Commands : Datasets!Running(c)' <=> Datasets!Running(c)
    BY <2>1 DEF Datasets!Running
  <2>3. \A c \in Commands : Progress(command[c])' /\ Replaces(command[c])'
    BY <1>c, <2>1 DEF Progress, Replaces
  <2> QED
    BY <2>1, <2>2, <2>3 DEF DescribeInv, OneRuns, AllAlone, InStep, Described, Listed
<1>2. ASSUME NEW c \in Commands, Datasets!Start(c)
      PROVE  DescribeInv'
  <2>1. /\ ~Datasets!Running(c) /\ UNCHANGED <<store, manifest>>
        /\ torn' = IF Datasets!Others(c) # {} /\ torn = "no" THEN "overlapped" ELSE torn
    BY <1>2 DEF Datasets!Start, Datasets!Running
  <2>2. CASE command' = [command EXCEPT ![c] = Datasets!Idle]
    <3>1. \A d \in Commands : command'[d] = IF d = c THEN Datasets!Idle ELSE command[d]
      BY <2>2 DEF DatasetTypes
    <3>2. \A d \in Commands : Datasets!Running(d)' <=> Datasets!Running(d)
      BY <2>1, <3>1, IdleIs DEF Datasets!Running
    <3>3. \A d \in Commands : Progress(command[d])' /\ Replaces(command[d])'
      BY <1>c, <2>1, <3>1, IdleIs DEF Progress, Replaces
    <3>4. OneRuns'
      BY <2>1, <3>1, <3>2 DEF DescribeInv, OneRuns
    <3>5. AllAlone' /\ InStep'
      BY <2>1, <3>1, <3>2 DEF DescribeInv, AllAlone, InStep, Described, Listed
    <3> QED
      BY <2>1, <3>3, <3>4, <3>5 DEF DescribeInv
  <2> QED
    BY <1>2, <2>1, <2>2, StartIs, BeginNext
<1>3. ASSUME NEW c \in Commands, Datasets!Read(c)
      PROVE  DescribeInv'
  <2>1. PICK t \in command[c].types :
          command' = [command EXCEPT ![c] =
            [command[c] EXCEPT !.types = @ \ {t},
                               !.rows = @ \cup Datasets!Rows(IF t = Combined THEN Boundaries
                                                    ELSE Datasets!OfType(t))]]
    BY <1>3 DEF Datasets!Read, Datasets!Set
  <2> DEFINE more == Datasets!Rows(IF t = Combined THEN Boundaries ELSE Datasets!OfType(t))
  <2>2. PICK new : new = [command[c] EXCEPT !.types = @ \ {t}, !.rows = @ \cup more]
    OBVIOUS
  <2>3. command[c].pc = "reading" /\ UNCHANGED <<store, manifest, torn>>
    BY <1>3 DEF Datasets!Read
  <2>4. /\ new.pc = "reading" /\ new.alone = command[c].alone /\ new.entries = command[c].entries
        /\ new.whole = command[c].whole /\ new.types = command[c].types \ {t}
        /\ new.rows = command[c].rows \cup more
    BY <1>c, <2>2, <2>3 DEF Command
  <2>5. Progress(new)
    BY <1>c, <2>3, <2>4 DEF Progress
  <2>6. new.whole /\ new.alone => DOMAIN store \subseteq Datasets!TypesIn(new.rows) \cup {Combined}
    <3> SUFFICES ASSUME new.whole, NEW n \in DOMAIN store, n # Combined
                 PROVE  n \in Datasets!TypesIn(new.rows)
      BY <2>4
    <3>1. t = Combined
      BY <1>c, <2>3, <2>4 DEF Progress
    <3>2. PICK cell \in store[n] :
            cell[1] \in Boundaries /\ table[cell[1]] > 0 /\ TypeOf[cell[1]] = n
      BY DEF SafeInv, FilesInv, GoodFile, Known
    <3>3. PICK x \in Datasets!Rows(Boundaries) : x[1] = cell[1]
      BY <3>2, RowsAre
    <3> QED
      BY <2>4, <3>1, <3>2, <3>3 DEF Datasets!TypesIn
  <2>7. Replaces(new)'
    BY <2>3, <2>4, <2>6 DEF Replaces
  <2>8. torn = "no" => Described(new)'
    BY <1>d, <2>3, <2>4 DEF Described, Listed, Datasets!Running
  <2>9. command' = [command EXCEPT ![c] = new] /\ Datasets!Running(c)
    BY <2>1, <2>2, <2>3 DEF Datasets!Running
  <2>10. \A d \in Commands \ {c} : Replaces(command[d])'
    BY <1>c, <2>3, <2>9 DEF Replaces, DatasetTypes
  <2> QED
    BY <2>3, <2>4, <2>5, <2>7, <2>8, <2>9, <2>10, StepNext
<1>4. ASSUME NEW c \in Commands, Datasets!Generate(c)
      PROVE  DescribeInv'
  <2> DEFINE found == Datasets!TypesIn(command[c].rows)
  <2>1. /\ command[c].pc = "reading" /\ command[c].types = {} /\ Datasets!Running(c)
        /\ command[c].entries = Datasets!Empty /\ UNCHANGED <<store, manifest, torn>>
        /\ command' = [command EXCEPT ![c] =
             IF found = {} THEN Datasets!Idle
             ELSE [command[c] EXCEPT !.pc = "uploading",
                     !.left = found \cup IF command[c].whole THEN {Combined} ELSE {}]]
    BY <1>4, <1>c DEF Datasets!Generate, Datasets!Set, Datasets!Running, Progress
  <2>2. CASE found = {}
    <3>1. torn = "no" => store = Listed
      BY <1>d, <1>l, <2>1, OverEmpty DEF Described
    <3> QED
      BY <2>1, <2>2, <3>1, EndNext DEF Listed, DescribeInv
  <2>3. CASE found # {}
    <3>1. PICK new : new = [command[c] EXCEPT !.pc = "uploading",
                      !.left = found \cup IF command[c].whole THEN {Combined} ELSE {}]
      OBVIOUS
    <3>2. /\ new.pc = "uploading" /\ new.alone = command[c].alone
          /\ new.entries = Datasets!Empty /\ new.whole = command[c].whole
          /\ new.left = found \cup IF command[c].whole THEN {Combined} ELSE {}
      BY <1>c, <2>1, <3>1 DEF Command
    <3>3. Progress(new)
      BY <2>3, <3>2 DEF Progress
    <3>4. Replaces(new)'
      BY <1>c, <2>1, <3>2, EmptyIs DEF Replaces
    <3>5. torn = "no" => Described(new)'
      BY <1>d, <2>1, <3>2 DEF Described, Listed
    <3>6. command' = [command EXCEPT ![c] = new]
      BY <2>1, <2>3, <3>1
    <3>7. \A d \in Commands \ {c} : Replaces(command[d])'
      BY <1>c, <2>1, <3>6 DEF Replaces, DatasetTypes
    <3> QED
      BY <2>1, <3>2, <3>3, <3>4, <3>5, <3>6, <3>7, StepNext
  <2> QED
    BY <2>2, <2>3
<1>5. ASSUME NEW c \in Commands, Datasets!Upload(c)
      PROVE  DescribeInv'
  <2>1. PICK name, entry :
          /\ name = Datasets!NextFile(command[c].left)
          /\ entry = [n \in {name} |-> Datasets!Content(name, command[c].rows)]
    OBVIOUS
  <2>2. /\ command[c].pc = "uploading" /\ Datasets!Running(c) /\ UNCHANGED <<manifest, torn>>
        /\ store' = Datasets!Over(entry, store)
        /\ command' = [command EXCEPT ![c] =
             [command[c] EXCEPT !.left = @ \ {name}, !.entries = Datasets!Over(entry, @)]]
    BY <1>5, <2>1 DEF Datasets!Upload, Datasets!Set, Datasets!Running
  <2>3. name \in command[c].left /\ name \in FileNames
        /\ Datasets!Content(name, command[c].rows) \in SUBSET Cells
        /\ command[c].entries \in Manifests
    BY <1>5, <1>c, <2>1, NextFileIs, ContentIs DEF Datasets!Upload, Command
  <2>4. entry \in Manifests /\ DOMAIN entry = {name}
    BY <2>1, <2>3, EntryIs
  <2>5. PICK new : new = [command[c] EXCEPT !.left = @ \ {name},
                                            !.entries = Datasets!Over(entry, @)]
    OBVIOUS
  <2>6. /\ new.pc = "uploading" /\ new.alone = command[c].alone /\ new.whole = command[c].whole
        /\ new.left = command[c].left \ {name}
        /\ new.entries = Datasets!Over(entry, command[c].entries)
    BY <1>c, <2>2, <2>5 DEF Command
  <2>7. /\ DOMAIN new.entries = {name} \cup DOMAIN command[c].entries
        /\ new.entries[name] = entry[name]
        /\ \A n \in DOMAIN command[c].entries \ {name} : new.entries[n] = command[c].entries[n]
    <3>1. /\ DOMAIN Datasets!Over(entry, command[c].entries)
               = DOMAIN entry \cup DOMAIN command[c].entries
          /\ \A n \in DOMAIN entry : Datasets!Over(entry, command[c].entries)[n] = entry[n]
          /\ \A n \in DOMAIN command[c].entries \ DOMAIN entry :
               Datasets!Over(entry, command[c].entries)[n] = command[c].entries[n]
      BY <2>3, <2>4, OverIs, Zenon
    <3> QED
      BY <2>4, <2>6, <3>1
  <2>8. /\ DOMAIN store' = {name} \cup DOMAIN store
        /\ store'[name] = entry[name]
        /\ \A n \in DOMAIN store \ {name} : store'[n] = store[n]
    <3>1. /\ DOMAIN Datasets!Over(entry, store) = DOMAIN entry \cup DOMAIN store
          /\ \A n \in DOMAIN entry : Datasets!Over(entry, store)[n] = entry[n]
          /\ \A n \in DOMAIN store \ DOMAIN entry : Datasets!Over(entry, store)[n] = store[n]
      BY <1>l, <2>4, OverIs, Zenon
    <3> QED
      BY <2>2, <2>4, <3>1
  <2>9. Progress(new)
    BY <2>6, <2>7 DEF Progress
  <2>10. Replaces(new)'
    <3> SUFFICES ASSUME new.whole, new.alone
                 PROVE  /\ DOMAIN store' \subseteq new.left \cup DOMAIN new.entries
                        /\ \A n \in DOMAIN new.entries : store'[n] = new.entries[n]
      BY <2>6 DEF Replaces
    <3>1. /\ DOMAIN store \subseteq command[c].left \cup DOMAIN command[c].entries
          /\ \A n \in DOMAIN command[c].entries : store[n] = command[c].entries[n]
      BY <1>c, <2>2, <2>6 DEF Replaces
    <3>2. DOMAIN command[c].entries \subseteq DOMAIN store
      BY <1>c DEF Reliable
    <3> QED
      BY <2>6, <2>7, <2>8, <3>1, <3>2
  <2>11. torn = "no" => Described(new)'
    <3> SUFFICES ASSUME torn = "no"
                 PROVE  Described(new)'
      OBVIOUS
    <3>1. store = Datasets!Over(command[c].entries, Listed)
      BY <1>d, <2>2 DEF Described
    <3>2. store' = Datasets!Over(Datasets!Over(entry, command[c].entries), Listed)
      BY <1>l, <2>2, <2>3, <2>4, <3>1, OverTwice
    <3>3. Listed' = Listed
      BY <2>2 DEF Listed
    <3> QED
      BY <2>6, <3>2, <3>3 DEF Described
  <2>12. command' = [command EXCEPT ![c] = new]
    BY <2>2, <2>5
  <2>13. ASSUME NEW d \in Commands \ {c}
         PROVE  Replaces(command[d])'
    <3>1. command'[d] = command[d]
      BY <2>12 DEF DatasetTypes
    <3>2. command[d].pc # "idle" => ~command[d].alone
      BY <2>2 DEF DescribeInv, OneRuns, Datasets!Running
    <3> QED
      BY <3>1, <3>2 DEF Replaces
  <2> QED
    BY <2>2, <2>6, <2>9, <2>10, <2>11, <2>12, <2>13, StepNext
<1>6. ASSUME NEW c \in Commands, Datasets!FetchManifest(c)
      PROVE  DescribeInv'
  <2>1. PICK new : new = [command[c] EXCEPT !.pc = "merging",
                            !.base = IF command[c].whole THEN Nil ELSE manifest]
    OBVIOUS
  <2>2. /\ command[c].pc = "uploading" /\ command[c].left = {} /\ Datasets!Running(c)
        /\ UNCHANGED <<store, manifest, torn>>
        /\ command' = [command EXCEPT ![c] = new]
    BY <1>6, <2>1 DEF Datasets!FetchManifest, Datasets!Set, Datasets!Running
  <2>3. /\ new.pc = "merging" /\ new.alone = command[c].alone /\ new.whole = command[c].whole
        /\ new.left = {} /\ new.entries = command[c].entries
        /\ new.base = IF command[c].whole THEN Nil ELSE manifest
    BY <1>c, <2>1, <2>2 DEF Command
  <2>4. Progress(new)
    BY <1>c, <2>2, <2>3 DEF Progress
  <2>5. Replaces(new)'
    BY <1>c, <2>2, <2>3 DEF Replaces
  <2>6. torn = "no" => Described(new)'
    BY <1>d, <2>2, <2>3 DEF Described, Listed
  <2>7. \A d \in Commands \ {c} : Replaces(command[d])'
    BY <1>c, <2>2 DEF Replaces, DatasetTypes
  <2> QED
    BY <2>2, <2>3, <2>4, <2>5, <2>6, <2>7, StepNext
<1>7. ASSUME NEW c \in Commands, Datasets!UploadManifest(c)
      PROVE  DescribeInv'
  <2>1. /\ command[c].pc = "merging" /\ Datasets!Running(c) /\ store' = store
        /\ manifest' = Datasets!Merge(command[c].base, command[c].entries)
        /\ command' = [command EXCEPT ![c] = Datasets!Idle]
        /\ torn' = IF command[c].whole /\ command[c].alone THEN "no" ELSE torn
    BY <1>7 DEF Datasets!UploadManifest, Datasets!Set, Datasets!Running
  <2>2. /\ command[c].left = {} /\ DOMAIN command[c].entries # {}
        /\ command[c].whole => command[c].base = Nil
        /\ command[c].entries \in Manifests /\ command[c].base \in Manifests \cup {Nil}
    BY <1>c, <2>1 DEF Progress, Command
  <2>3. manifest' \in Manifests /\ manifest' # Datasets!Empty
    <3>1. CASE command[c].base = Nil
      BY <2>1, <2>2, <3>1, EmptyIs DEF Datasets!Merge
    <3>2. CASE command[c].base # Nil
      <4>1. Datasets!Over(command[c].entries, command[c].base) \in Manifests
            /\ DOMAIN Datasets!Over(command[c].entries, command[c].base)
               = DOMAIN command[c].entries \cup DOMAIN command[c].base
        BY <2>2, <3>2, OverIs, Zenon
      <4> QED
        BY <2>1, <2>2, <3>2, <4>1, EmptyIs DEF Datasets!Merge
    <3> QED
      BY <3>1, <3>2
  <2>4. CASE command[c].whole /\ command[c].alone
    <3>1. manifest' = command[c].entries
      BY <2>1, <2>2, <2>4 DEF Datasets!Merge
    <3>2. /\ DOMAIN store = DOMAIN command[c].entries
          /\ \A n \in DOMAIN command[c].entries : store[n] = command[c].entries[n]
      BY <1>c, <2>1, <2>2, <2>4 DEF Replaces, Reliable
    <3>3. store = manifest'
      BY <1>l, <2>2, <3>1, <3>2, SameEntries
    <3> QED
      BY <2>1, <2>3, <2>4, <3>3, EndNext DEF NilAssumption
  <2>5. CASE ~(command[c].whole /\ command[c].alone)
    <3>1. ASSUME torn = "no"
          PROVE  store = manifest'
      <4>1. ~command[c].whole
        BY <2>1, <2>5, <3>1 DEF DescribeInv, AllAlone
      <4>2. store = Datasets!Over(command[c].entries, Listed) /\ command[c].base = manifest
        BY <1>d, <2>1, <3>1, <4>1 DEF Described
      <4>3. CASE manifest = Nil
        <5>1. Datasets!Over(command[c].entries, Datasets!Empty) = command[c].entries
          <6>1. Datasets!Empty \in Manifests /\ DOMAIN Datasets!Empty = {}
            BY EmptyIs
          <6>2. /\ Datasets!Over(command[c].entries, Datasets!Empty) \in Manifests
                /\ DOMAIN Datasets!Over(command[c].entries, Datasets!Empty)
                   = DOMAIN command[c].entries \cup DOMAIN Datasets!Empty
                /\ \A n \in DOMAIN command[c].entries :
                     Datasets!Over(command[c].entries, Datasets!Empty)[n] = command[c].entries[n]
            BY <2>2, <6>1, OverIs, Zenon
          <6> QED
            BY <2>2, <6>1, <6>2, SameEntries
        <5> QED
          BY <2>1, <4>2, <4>3, <5>1 DEF Datasets!Merge, Listed
      <4>4. CASE manifest # Nil
        BY <2>1, <4>2, <4>4 DEF Datasets!Merge, Listed
      <4> QED
        BY <4>3, <4>4
    <3> QED
      BY <2>1, <2>3, <2>5, <3>1, EndNext DEF NilAssumption
  <2> QED
    BY <2>4, <2>5
<1>8. ASSUME NEW c \in Commands, Datasets!Fail(c)
      PROVE  DescribeInv'
  <2>1. /\ Datasets!Running(c) /\ UNCHANGED <<store, manifest>>
        /\ command' = [command EXCEPT ![c] = Datasets!Idle]
        /\ torn' = IF command[c].entries # Datasets!Empty THEN "broken" ELSE torn
    BY <1>8 DEF Datasets!Fail, Datasets!Set
  <2>2. torn' = "no" => torn = "no" /\ store = Listed
    BY <1>d, <1>l, <2>1, OverEmpty DEF Described
  <2> QED
    BY <2>1, <2>2, EndNext DEF Listed, DescribeInv
<1> QED
  BY <1>1, <1>2, <1>3, <1>4, <1>5, <1>6, <1>7, <1>8 DEF Datasets!Next

-----------------------------------------------------------------------------
(* Exports.                                                                *)
Fields == {"status", "filter", "count"}
ExportTypes == /\ DOMAIN job = Exported /\ DOMAIN file = Exported /\ DOMAIN export = Exported
               /\ DOMAIN rows = Exported /\ DOMAIN since = Exported
               /\ \A j \in Exported : DOMAIN job[j] = Fields

(* What the query of a job reads now.                                      *)
Now(j) == Files!Query(job[j].filter, voter, results)

(* A job that is at work is not completed; while its query has not run,    *)
(* its history ends with what the query would read; a job that is written  *)
(* has a whole file, and so has one that is completed.                     *)
SoundExport(j) ==
  /\ export[j] \in {"none", "queued", "fetching", "writing", "written", "ended"}
  /\ export[j] = "none" => file[j] = Nil
  /\ export[j] \in {"queued", "fetching", "writing", "written"} => job[j].status # "completed"
  /\ export[j] \in {"queued", "fetching"} => Now(j) \in since[j]
  /\ export[j] \in {"writing", "written"} => rows[j] \in since[j]
  /\ export[j] = "written" => file[j] = rows[j]
  /\ export[j] = "ended" /\ job[j].status = "completed" =>
       /\ file[j] = rows[j] /\ rows[j] \in since[j]
       /\ job[j].count = Files!Cardinality(rows[j])
ExportsInv == ExportTypes /\ \A j \in Exported : SoundExport(j)

LEMMA ExportsInit == Files!Init => ExportsInv
  BY DEF Files!Init, Files!NoJob, ExportsInv, ExportTypes, SoundExport, Fields

(* What a query reads depends on its filter, the voters and the results.   *)
LEMMA NowStays ==
  ASSUME NEW j, job'[j].filter = job[j].filter, UNCHANGED <<voter, results>>
  PROVE  Now(j)' = Now(j)
  BY DEF Now, Files!Query

(* A step of one job leaves the others as they are.                        *)
LEMMA ExportAlone ==
  ASSUME ExportsInv, NEW j \in Exported, ExportTypes', SoundExport(j)',
         UNCHANGED <<voter, results>>,
         \A i \in Exported \ {j} : /\ job'[i] = job[i] /\ file'[i] = file[i]
                                   /\ export'[i] = export[i] /\ rows'[i] = rows[i]
                                   /\ since'[i] = since[i]
  PROVE  ExportsInv'
<1>1. ASSUME NEW i \in Exported \ {j} PROVE SoundExport(i)'
  <2>1. SoundExport(i) /\ Now(i)' = Now(i)
    BY NowStays DEF ExportsInv
  <2> QED
    BY <2>1 DEF SoundExport
<1> QED
  BY <1>1 DEF ExportsInv

LEMMA ExportsNext == ExportsInv /\ [Files!Next]_exports => ExportsInv'
<1> SUFFICES ASSUME ExportsInv, [Files!Next]_exports PROVE ExportsInv'
  OBVIOUS
<1>1. CASE Files!Import
  <2>1. PICK vs \in (SUBSET Voters) \ {{}} :
          /\ Files!Remember(voter', results)
          /\ UNCHANGED <<results, job, file, export, rows, asked, faults>>
    BY <1>1 DEF Files!Import
  <2>2. ExportTypes'
    BY <2>1 DEF ExportsInv, ExportTypes, Files!Remember
  <2>3. ASSUME NEW j \in Exported PROVE SoundExport(j)'
    <3>1. SoundExport(j)
      BY DEF ExportsInv
    <3>2. since[j] \subseteq since'[j] /\ (Files!Open(j) => Now(j)' \in since'[j])
      BY <2>1 DEF Files!Remember, Now
    <3> QED
      BY <2>1, <3>1, <3>2 DEF SoundExport, Files!Open
  <2> QED
    BY <2>2, <2>3 DEF ExportsInv
<1>2. CASE Files!Analyze
  <2>1. /\ Files!Remember(voter, results')
        /\ UNCHANGED <<voter, job, file, export, rows, asked, faults>>
    BY <1>2 DEF Files!Analyze
  <2>2. ExportTypes'
    BY <2>1 DEF ExportsInv, ExportTypes, Files!Remember
  <2>3. ASSUME NEW j \in Exported PROVE SoundExport(j)'
    <3>1. SoundExport(j)
      BY DEF ExportsInv
    <3>2. since[j] \subseteq since'[j] /\ (Files!Open(j) => Now(j)' \in since'[j])
      BY <2>1 DEF Files!Remember, Now
    <3> QED
      BY <2>1, <3>1, <3>2 DEF SoundExport, Files!Open
  <2> QED
    BY <2>2, <2>3 DEF ExportsInv
<1>3. ASSUME NEW js \in SUBSET Exported, Files!Die(js) PROVE ExportsInv'
  <2>1. ExportTypes'
    BY <1>3 DEF Files!Die, ExportsInv, ExportTypes
  <2>2. ASSUME NEW j \in Exported PROVE SoundExport(j)'
    <3>1. SoundExport(j) /\ Now(j)' = Now(j)
      BY <1>3, NowStays DEF Files!Die, ExportsInv
    <3>2. export'[j] = export[j] \/ (export[j] # "none" /\ export'[j] = "ended")
      BY <1>3 DEF Files!Die, ExportsInv, ExportTypes
    <3> QED
      BY <1>3, <3>1, <3>2 DEF Files!Die, SoundExport
  <2> QED
    BY <2>1, <2>2 DEF ExportsInv
<1>4. ASSUME NEW j \in Exported, Files!Request(j) PROVE ExportsInv'
  <2>1. PICK f \in Files!Filters :
          /\ job' = [job EXCEPT ![j] = [Files!NoJob EXCEPT !.status = "pending", !.filter = f]]
          /\ since' = [since EXCEPT ![j] = {Files!Query(f, voter, results)}]
    BY <1>4 DEF Files!Request
  <2>2. /\ export' = [export EXCEPT ![j] = "queued"]
        /\ UNCHANGED <<voter, results, file, rows, faults>>
    BY <1>4 DEF Files!Request
  <2>3. ExportTypes'
    BY <2>1, <2>2 DEF ExportsInv, ExportTypes, Files!NoJob, Fields
  <2>4. job'[j].filter = f /\ job'[j].status = "pending" /\ export'[j] = "queued"
    BY <2>1, <2>2 DEF ExportsInv, ExportTypes, Files!NoJob
  <2>5. Now(j)' \in since'[j]
    BY <2>1, <2>2, <2>4 DEF ExportsInv, ExportTypes, Now
  <2>6. SoundExport(j)'
    BY <2>4, <2>5 DEF SoundExport
  <2> QED
    BY <2>1, <2>2, <2>3, <2>6, ExportAlone DEF ExportsInv, ExportTypes
<1>5. ASSUME NEW j \in Exported, Files!Run(j) PROVE ExportsInv'
  <2>1. ExportTypes'
    BY <1>5 DEF Files!Run, ExportsInv, ExportTypes, Fields
  <2>2. job'[j].filter = job[j].filter /\ job'[j].status = "running" /\ export'[j] = "fetching"
    BY <1>5 DEF Files!Run, ExportsInv, ExportTypes, Fields
  <2>3. SoundExport(j)'
    <3>1. SoundExport(j) /\ Now(j)' = Now(j)
      BY <1>5, <2>2, NowStays DEF Files!Run, ExportsInv
    <3> QED
      BY <1>5, <2>2, <3>1 DEF Files!Run, SoundExport
  <2> QED
    BY <1>5, <2>1, <2>3, ExportAlone DEF Files!Run, ExportsInv, ExportTypes
<1>6. ASSUME NEW j \in Exported, Files!Fetch(j) PROVE ExportsInv'
  <2>1. ExportTypes' /\ rows'[j] = Now(j) /\ export'[j] = "writing"
    BY <1>6 DEF Files!Fetch, ExportsInv, ExportTypes, Now
  <2>2. SoundExport(j)'
    BY <1>6, <2>1 DEF Files!Fetch, ExportsInv, SoundExport
  <2> QED
    BY <1>6, <2>1, <2>2, ExportAlone DEF Files!Fetch, ExportsInv, ExportTypes
<1>7. ASSUME NEW j \in Exported, Files!Write(j) PROVE ExportsInv'
  <2>1. PICK written \in SUBSET rows[j] :
          /\ file' = [file EXCEPT ![j] = written]
          /\ export' = [export EXCEPT ![j] = IF written = rows[j] THEN "written" ELSE "writing"]
    BY <1>7 DEF Files!Write
  <2>2. ExportTypes'
    BY <1>7, <2>1 DEF Files!Write, ExportsInv, ExportTypes
  <2>3. SoundExport(j)'
    BY <1>7, <2>1 DEF Files!Write, ExportsInv, ExportTypes, SoundExport
  <2> QED
    BY <1>7, <2>1, <2>2, <2>3, ExportAlone DEF Files!Write, ExportsInv, ExportTypes
<1>8. ASSUME NEW j \in Exported, Files!Complete(j) PROVE ExportsInv'
  <2>1. ExportTypes' /\ export'[j] = "ended"
    BY <1>8 DEF Files!Complete, ExportsInv, ExportTypes
  <2>3. job'[j].count = Files!Cardinality(rows[j])
    BY <1>8 DEF Files!Complete, ExportsInv, ExportTypes, Fields
  <2>2. SoundExport(j)'
    BY <1>8, <2>1, <2>3 DEF Files!Complete, ExportsInv, SoundExport
  <2> QED
    BY <1>8, <2>1, <2>2, ExportAlone DEF Files!Complete, ExportsInv, ExportTypes
<1>9. ASSUME NEW j \in Exported, Files!Raise(j) PROVE ExportsInv'
  <2>1. PICK saved \in BOOLEAN :
          job' = [job EXCEPT ![j].status = IF saved THEN "failed" ELSE @]
    BY <1>9 DEF Files!Raise
  <2>2. ExportTypes' /\ export'[j] = "ended" /\ job'[j].status # "completed"
    BY <1>9, <2>1 DEF Files!Raise, ExportsInv, ExportTypes, Fields, SoundExport
  <2>3. SoundExport(j)'
    BY <2>2 DEF SoundExport
  <2> QED
    BY <1>9, <2>1, <2>2, <2>3, ExportAlone DEF Files!Raise, ExportsInv, ExportTypes
<1>10. CASE UNCHANGED exports
  <2>1. ASSUME NEW j \in Exported PROVE SoundExport(j)'
    <3>1. SoundExport(j) /\ Now(j)' = Now(j)
      BY <1>10, NowStays DEF exports, ExportsInv
    <3> QED
      BY <1>10, <3>1 DEF exports, SoundExport
  <2> QED
    BY <1>10, <2>1 DEF exports, ExportsInv, ExportTypes
<1>11. GivenAssumption => Cli \in SUBSET Exported
  BY DEF GivenAssumption, Files!ExportsAssumption
<1> QED
  BY <1>1, <1>2, <1>3, <1>4, <1>5, <1>6, <1>7, <1>8, <1>9, <1>10, <1>11, GivenAssumption
     DEF Files!Next

LEMMA ExportsAre == ExportsInv => Files!ExportsHold
<1> SUFFICES ASSUME ExportsInv, NEW j \in Exported, Files!Download(j) # Nil
             PROVE  /\ Files!Cardinality(Files!Download(j)) = job[j].count
                    /\ Files!Download(j) \in since[j]
  BY DEF Files!ExportsHold
<1>1. job[j].status = "completed" /\ file[j] # Nil /\ SoundExport(j)
  BY DEF Files!Download, ExportsInv
<1> QED
  BY <1>1 DEF SoundExport, Files!Download
-----------------------------------------------------------------------------
(* Election answers.                                                       *)
Sheet == [live : BOOLEAN, active : BOOLEAN, results : Nat, closed : Nat]
ElectionTypes == /\ election \in [Elections -> Sheet]
                 /\ DOMAIN answer = Readers
                 /\ \A r \in Readers :
                      DOMAIN answer[r] = {"step", "kind", "of", "active", "closed", "statewide",
                                          "counties", "keep", "decided"}
                 /\ DOMAIN options = {"step", "categories", "dates", "total", "alone"}

(* An election has at least the results it was finalized with.             *)
NotBehind == \A e \in Elections : election[e].closed <= election[e].results

(* What a reader has been given so far is in the order it was read: the    *)
(* election, its statewide numbers, its counties; and it was begun after   *)
(* the election was finalized with the results it was.                     *)
SoundAnswer(r) == LET a == answer[r] IN
  /\ a.step \in {"none", "statewide", "counties", "respond", "done"}
  /\ a.step = "none" => a = Results!NoAnswer
  /\ a.step # "none" =>
       /\ a.of \in Elections /\ a.closed \in Nat /\ a.active \in BOOLEAN
       /\ a.kind \in {"json", "counties", "precincts"}
       /\ a.closed <= election[a.of].results
  /\ a.step = "statewide" => a.statewide = Nil
  /\ a.step \in {"statewide", "counties"} => a.counties = Nil
  /\ a.step \in {"counties", "respond", "done"} /\ a.statewide # Nil =>
       /\ a.statewide \in Nat /\ a.statewide <= election[a.of].results
       /\ a.closed <= a.statewide
  /\ a.step \in {"respond", "done"} =>
       /\ a.counties \in Nat
       /\ a.closed <= a.counties
       /\ a.statewide # Nil => a.statewide <= a.counties
  /\ a.step # "done" => a.keep = Nil
  /\ a.step = "done" /\ a.kind # "counties" => a.decided = a.closed

(* Options that are put together while no election came or went.           *)
SoundOptions ==
  options.alone =>
    /\ options.step >= 1 =>
         options.categories = Results!OfferedCategories({DistrictOf[e] : e \in Results!Live})
    /\ options.step >= 2 => options.dates = {DateOf[e] : e \in Results!Live}
    /\ options.step >= 3 => options.total = Results!Cardinality(Results!Live)

ElectionsInv == /\ ElectionTypes /\ NotBehind /\ options.step \in 0..3 /\ SoundOptions
                /\ \A r \in Readers : SoundAnswer(r)

LEMMA ElectionsInit == Results!Init => ElectionsInv
  BY DEF Results!Init, Results!NoAnswer, Results!NoOptions, ElectionsInv, ElectionTypes, Sheet,
         NotBehind, SoundAnswer, SoundOptions

(* Answers stay sound while results only grow.                             *)
LEMMA AnswersKeep ==
  ASSUME ElectionsInv, ElectionTypes', UNCHANGED answer,
         \A e \in Elections : election[e].results <= election'[e].results
  PROVE  \A r \in Readers : SoundAnswer(r)'
<1> SUFFICES ASSUME NEW r \in Readers PROVE SoundAnswer(r)'
  OBVIOUS
<1>1. SoundAnswer(r) /\ answer'[r] = answer[r]
  BY DEF ElectionsInv
<1>2. \A e \in Elections : election[e].results \in Nat /\ election'[e].results \in Nat
  BY DEF ElectionsInv, ElectionTypes, Sheet
<1> QED
  BY <1>1, <1>2 DEF SoundAnswer

(* An answer changes alone.                                                *)
LEMMA AnswerAlone ==
  ASSUME ElectionsInv, NEW r \in Readers, NEW new, answer' = [answer EXCEPT ![r] = new],
         DOMAIN new = DOMAIN answer[r], UNCHANGED <<election, options, edits>>, SoundAnswer(r)'
  PROVE  ElectionsInv'
<1>1. ElectionTypes' /\ NotBehind' /\ (options.step \in 0..3)' /\ SoundOptions'
  BY DEF ElectionsInv, ElectionTypes, NotBehind, SoundOptions, Results!Live
<1>2. ASSUME NEW q \in Readers, q # r PROVE SoundAnswer(q)'
  <2>1. SoundAnswer(q) /\ answer'[q] = answer[q]
    BY <1>2 DEF ElectionsInv, ElectionTypes
  <2> QED
    BY <2>1 DEF SoundAnswer
<1> QED
  BY <1>1, <1>2 DEF ElectionsInv

(* A writer changes elections only; where they come or go the options know. *)
LEMMA WriterKeeps ==
  ASSUME ElectionsInv, election' \in [Elections -> Sheet], UNCHANGED answer,
         \A e \in Elections : election[e].results <= election'[e].results,
         NotBehind',
         \/ options' = [options EXCEPT !.alone = FALSE]
         \/ options' = options /\ \A e \in Elections : election'[e].live = election[e].live
  PROVE  ElectionsInv'
<1>1. ElectionTypes'
  BY DEF ElectionsInv, ElectionTypes
<1>2. options'.step = options.step /\ SoundOptions'
  <2>1. CASE options' = [options EXCEPT !.alone = FALSE]
    BY <2>1 DEF ElectionsInv, ElectionTypes, SoundOptions
  <2>2. CASE options' = options /\ \A e \in Elections : election'[e].live = election[e].live
    <3>1. Results!Live' = Results!Live
      BY <2>2 DEF Results!Live
    <3> QED
      BY <2>2, <3>1 DEF ElectionsInv, SoundOptions
  <2> QED
    BY <2>1, <2>2
<1> QED
  BY <1>1, <1>2, AnswersKeep DEF ElectionsInv

LEMMA ElectionsNext == ElectionsInv /\ [Results!Next]_ballots => ElectionsInv'
<1> SUFFICES ASSUME ElectionsInv, [Results!Next]_ballots PROVE ElectionsInv'
  OBVIOUS
<1>e. \A e \in Elections : /\ election[e].results \in Nat /\ election[e].closed \in Nat
                           /\ election[e].live \in BOOLEAN /\ election[e].active \in BOOLEAN
                           /\ election[e].closed <= election[e].results
  BY DEF ElectionsInv, ElectionTypes, Sheet, NotBehind
<1>1. ASSUME NEW e \in Elections, Results!Create(e) PROVE ElectionsInv'
  <2>1. PICK active \in BOOLEAN :
          election' = [election EXCEPT ![e].live = TRUE, ![e].active = active]
    BY <1>1 DEF Results!Create
  <2>2. election' \in [Elections -> Sheet]
    <3>1. [election[e] EXCEPT !.live = TRUE, !.active = active] \in Sheet
      BY DEF ElectionsInv, ElectionTypes, Sheet
    <3> QED
      BY <2>1, <3>1 DEF ElectionsInv, ElectionTypes
  <2>3. \A d \in Elections : /\ election[d].results <= election'[d].results
                             /\ election'[d].closed <= election'[d].results
    BY <1>e, <2>1 DEF ElectionsInv, ElectionTypes, Sheet
  <2> QED
    BY <1>1, <2>2, <2>3, WriterKeeps DEF Results!Create, Results!Appears, NotBehind
<1>2. ASSUME NEW e \in Elections, Results!UpdateStatus(e) PROVE ElectionsInv'
  <2>1. election' = [election EXCEPT ![e].active = ~@,
                       ![e].closed = IF election[e].active THEN election[e].results ELSE @]
    BY <1>2 DEF Results!UpdateStatus
  <2>2. election' \in [Elections -> Sheet]
    <3>1. [election[e] EXCEPT !.active = ~@,
             !.closed = IF election[e].active THEN election[e].results ELSE @] \in Sheet
      BY <1>e DEF ElectionsInv, ElectionTypes, Sheet
    <3> QED
      BY <2>1, <3>1 DEF ElectionsInv, ElectionTypes
  <2>3. \A d \in Elections : /\ election[d].results <= election'[d].results
                             /\ election'[d].closed <= election'[d].results
    BY <1>e, <2>1 DEF ElectionsInv, ElectionTypes, Sheet
  <2>4. \A d \in Elections : election'[d].live = election[d].live
    BY <1>e, <2>1 DEF ElectionsInv, ElectionTypes, Sheet
  <2> QED
    BY <1>2, <2>2, <2>3, <2>4, WriterKeeps DEF Results!UpdateStatus, Results!Edit, NotBehind
<1>3. ASSUME NEW e \in Elections, Results!SoftDelete(e) PROVE ElectionsInv'
  <2>1. election' = [election EXCEPT ![e].live = FALSE]
    BY <1>3 DEF Results!SoftDelete
  <2>2. election' \in [Elections -> Sheet]
    BY <1>e, <2>1 DEF ElectionsInv, ElectionTypes, Sheet
  <2>3. \A d \in Elections : /\ election[d].results <= election'[d].results
                             /\ election'[d].closed <= election'[d].results
    BY <1>e, <2>1 DEF ElectionsInv, ElectionTypes, Sheet
  <2> QED
    BY <1>3, <2>2, <2>3, WriterKeeps DEF Results!SoftDelete, Results!Appears, NotBehind
<1>4. ASSUME NEW e \in Elections, Results!Refresh(e) PROVE ElectionsInv'
  BY <1>4, <1>e, WriterKeeps
     DEF Results!Refresh, ElectionsInv, ElectionTypes, Sheet, NotBehind
<1>5. ASSUME NEW r \in Readers, Results!ReadElection(r) PROVE ElectionsInv'
  <2>1. PICK e \in Results!Live, kind \in {"json", "counties", "precincts"} :
          answer' = [answer EXCEPT ![r] =
            [Results!NoAnswer EXCEPT !.step = IF kind = "json" THEN "statewide" ELSE "counties",
                                     !.kind = kind, !.of = e,
                                     !.active = election[e].active, !.closed = election[e].closed]]
    BY <1>5 DEF Results!ReadElection, Results!Set
  <2>2. e \in Elections
    BY DEF Results!Live
  <2>3. SoundAnswer(r)'
    BY <1>5, <1>e, <2>1, <2>2
       DEF Results!ReadElection, Results!NoAnswer, SoundAnswer, ElectionsInv, ElectionTypes
  <2>4. PICK new : answer' = [answer EXCEPT ![r] = new] /\ DOMAIN new = DOMAIN answer[r]
    <3>1. DOMAIN answer[r] = DOMAIN Results!NoAnswer
      BY DEF Results!NoAnswer, ElectionsInv, ElectionTypes
    <3>2. DOMAIN [Results!NoAnswer EXCEPT !.step = IF kind = "json" THEN "statewide" ELSE "counties",
                    !.kind = kind, !.of = e,
                    !.active = election[e].active, !.closed = election[e].closed]
            = DOMAIN Results!NoAnswer
      OBVIOUS
    <3> QED
      BY <2>1, <3>1, <3>2
  <2> QED
    BY <1>5, <2>3, <2>4, AnswerAlone DEF Results!ReadElection
<1>6. ASSUME NEW r \in Readers, Results!ReadStatewide(r) PROVE ElectionsInv'
  <2>1. SoundAnswer(r)'
    BY <1>6, <1>e DEF Results!ReadStatewide, Results!Set, SoundAnswer, ElectionsInv, ElectionTypes
  <2> QED
    BY <1>6, <2>1, AnswerAlone DEF Results!ReadStatewide, Results!Set, ElectionsInv, ElectionTypes
<1>7. ASSUME NEW r \in Readers, Results!ReadCounties(r) PROVE ElectionsInv'
  <2>1. SoundAnswer(r)'
    BY <1>7, <1>e DEF Results!ReadCounties, Results!Set, SoundAnswer, ElectionsInv, ElectionTypes
  <2> QED
    BY <1>7, <2>1, AnswerAlone DEF Results!ReadCounties, Results!Set, ElectionsInv, ElectionTypes
<1>8. ASSUME NEW r \in Readers, Results!Respond(r) PROVE ElectionsInv'
  <2>1. PICK sheet \in Results!Decides(r) :
          answer' = [answer EXCEPT ![r] =
            [answer[r] EXCEPT !.step = "done", !.keep = IF sheet.active THEN "minute" ELSE "day",
                              !.decided = sheet.closed]]
    BY <1>8 DEF Results!Respond, Results!Set
  <2>2. answer[r].kind # "counties" => sheet.closed = answer[r].closed
    BY DEF Results!Decides, Results!InAnswer
  <2> DEFINE keep == IF sheet.active THEN "minute" ELSE "day"
             closed == sheet.closed
  <2> HIDE DEF keep, closed
  <2>3. answer' = [answer EXCEPT ![r] =
          [answer[r] EXCEPT !.step = "done", !.keep = keep, !.decided = closed]]
    BY <2>1 DEF keep, closed
  <2>4. SoundAnswer(r)'
    BY <1>8, <1>e, <2>2, <2>3 DEF Results!Respond, SoundAnswer, ElectionsInv, ElectionTypes, closed
  <2> QED
    BY <1>8, <2>3, <2>4, AnswerAlone DEF Results!Respond, ElectionsInv, ElectionTypes
<1>9. ASSUME NEW r \in Readers, Results!Again(r) PROVE ElectionsInv'
  <2>1. SoundAnswer(r)'
    BY <1>9, <1>e DEF Results!Again, Results!Set, Results!NoAnswer, SoundAnswer, ElectionsInv,
                      ElectionTypes
  <2> QED
    BY <1>9, <2>1, AnswerAlone
       DEF Results!Again, Results!Set, Results!NoAnswer, ElectionsInv, ElectionTypes
<1>10. ASSUME Results!ReadTypes \/ Results!ReadDates \/ Results!ReadTotal \/ Results!Offered
       PROVE  ElectionsInv'
  <2>1. UNCHANGED <<election, answer, edits>>
    BY <1>10 DEF Results!ReadTypes, Results!ReadDates, Results!ReadTotal, Results!Offered
  <2>2. ElectionTypes' /\ (options.step \in 0..3)' /\ SoundOptions'
    <3>1. Results!Live' = Results!Live
      BY <2>1 DEF Results!Live
    <3>2. options.step \in 0..3 /\ SoundOptions /\ ElectionTypes
      BY DEF ElectionsInv
    <3>3. CASE Results!ReadTypes
      <4>1. /\ options'.step = 1 /\ DOMAIN options' = DOMAIN options
            /\ options'.categories = Results!OfferedCategories({DistrictOf[e] : e \in Results!Live})
        BY <3>2, <3>3 DEF Results!ReadTypes, Results!NoOptions, ElectionTypes
      <4> QED
        BY <2>1, <3>1, <3>2, <4>1 DEF ElectionTypes, SoundOptions
    <3>4. CASE Results!ReadDates
      BY <2>1, <3>1, <3>2, <3>4 DEF Results!ReadDates, ElectionTypes, SoundOptions
    <3>5. CASE Results!ReadTotal
      BY <2>1, <3>1, <3>2, <3>5 DEF Results!ReadTotal, ElectionTypes, SoundOptions
    <3>6. CASE Results!Offered
      BY <2>1, <3>1, <3>2, <3>6 DEF Results!Offered, Results!NoOptions, ElectionTypes,
                                    SoundOptions
    <3> QED
      BY <1>10, <3>3, <3>4, <3>5, <3>6
  <2>4. NotBehind' /\ \A r \in Readers : SoundAnswer(r)'
    BY <2>1, <2>2, AnswersKeep, <1>e DEF ElectionsInv, NotBehind
  <2> QED
    BY <2>2, <2>4 DEF ElectionsInv
<1>11. CASE UNCHANGED ballots
  <2>1. ElectionTypes' /\ NotBehind' /\ (options.step \in 0..3)' /\ SoundOptions'
    BY <1>11 DEF ballots, ElectionsInv, ElectionTypes, NotBehind, SoundOptions, Results!Live
  <2> QED
    BY <1>11, <1>e, <2>1, AnswersKeep DEF ballots, ElectionsInv
<1> QED
  BY <1>1, <1>2, <1>3, <1>4, <1>5, <1>6, <1>7, <1>8, <1>9, <1>10, <1>11 DEF Results!Next

(* The categories that are offered are those a list is not empty for, and  *)
(* each election is in the list of one of them.                            *)
LEMMA CategoriesAre ==
  ASSUME Results!AnswersAssumption
  PROVE  LET offered == Results!OfferedCategories({DistrictOf[e] : e \in Results!Live}) IN
         /\ offered = {c \in Results!Categories : Results!Listed(c) # {}}
         /\ UNION {Results!Listed(c) : c \in offered} = Results!Live
         /\ \A b, c \in offered : b # c => Results!Listed(b) \cap Results!Listed(c) = {}
<1> DEFINE types   == {DistrictOf[e] : e \in Results!Live}
           offered == Results!OfferedCategories(types)
<1>1. /\ Results!NonLocalTypes = {"congressional", "state_senate", "state_house"}
      /\ DOMAIN Results!RaceCategoryMap = {"federal", "state_senate", "state_house"}
      /\ Results!Categories = {"federal", "state_senate", "state_house", "local"}
      /\ Results!RaceCategoryMap["federal"] = {"congressional"}
      /\ Results!RaceCategoryMap["state_senate"] = {"state_senate"}
      /\ Results!RaceCategoryMap["state_house"] = {"state_house"}
  <2>1. /\ DOMAIN Results!RaceCategoryMap = {"federal", "state_senate", "state_house"}
        /\ Results!RaceCategoryMap["federal"] = {"congressional"}
        /\ Results!RaceCategoryMap["state_senate"] = {"state_senate"}
        /\ Results!RaceCategoryMap["state_house"] = {"state_house"}
    BY DEF Results!RaceCategoryMap
  <2> HIDE DEF Results!RaceCategoryMap
  <2>2. Results!Categories = {"federal", "state_senate", "state_house", "local"}
    BY <2>1 DEF Results!Categories
  <2>3. Results!NonLocalTypes = {"congressional", "state_senate", "state_house"}
    BY <2>1 DEF Results!NonLocalTypes
  <2> QED
    BY <2>1, <2>2, <2>3
<1>2. Nil \notin Results!NonLocalTypes
  BY DEF Results!AnswersAssumption
<1>3. /\ Results!Listed("federal") = {e \in Results!Live : DistrictOf[e] = "congressional"}
      /\ Results!Listed("state_senate") = {e \in Results!Live : DistrictOf[e] = "state_senate"}
      /\ Results!Listed("state_house") = {e \in Results!Live : DistrictOf[e] = "state_house"}
      /\ Results!Listed("local") = {e \in Results!Live : DistrictOf[e] \notin Results!NonLocalTypes}
  BY <1>1, <1>2 DEF Results!Listed
<1>4. /\ "federal" \in offered <=> "congressional" \in types
      /\ "state_senate" \in offered <=> "state_senate" \in types
      /\ "state_house" \in offered <=> "state_house" \in types
      /\ "local" \in offered <=> \E t \in types : t \notin Results!NonLocalTypes
      /\ offered \subseteq Results!Categories
  <2> HIDE DEF types
  <2> QED
    BY <1>1, <1>2 DEF Results!OfferedCategories
<1>5. \A c \in Results!Categories : c \in offered <=> Results!Listed(c) # {}
  BY <1>1, <1>3, <1>4
<1>6. offered = {c \in Results!Categories : Results!Listed(c) # {}}
  BY <1>4, <1>5
<1> HIDE DEF offered
<1>7. UNION {Results!Listed(c) : c \in offered} = Results!Live
  <2>1. ASSUME NEW e \in Results!Live
        PROVE  \E c \in Results!Categories : e \in Results!Listed(c)
    BY <1>1, <1>3
  <2>2. \A c \in Results!Categories : Results!Listed(c) \subseteq Results!Live
    BY <1>1, <1>3
  <2> QED
    BY <1>6, <2>1, <2>2
<1>8. \A b, c \in Results!Categories : b # c => Results!Listed(b) \cap Results!Listed(c) = {}
  BY <1>1, <1>3
<1> QED
  BY <1>6, <1>7, <1>8 DEF offered

LEMMA ElectionsAre == Results!AnswersAssumption /\ ElectionsInv => Results!AnswersHold
<1> SUFFICES ASSUME Results!AnswersAssumption, ElectionsInv PROVE Results!AnswersHold
  OBVIOUS
<1>1. Results!DayCachedIsFinal
  <2> SUFFICES ASSUME NEW r \in Readers, answer[r].keep = "day"
               PROVE  /\ ~Results!Behind(r, answer[r].closed)
                      /\ answer[r].kind # "counties" => ~Results!Behind(r, answer[r].decided)
    BY DEF Results!DayCachedIsFinal
  <2>1. SoundAnswer(r) /\ answer[r].step = "done"
    BY DEF ElectionsInv, SoundAnswer, Results!AnswersAssumption
  <2> QED
    BY <2>1 DEF SoundAnswer, Results!Behind
<1>2. Results!CountiesNotBehind
  <2> SUFFICES ASSUME NEW r \in Readers, answer[r].statewide # Nil, answer[r].counties # Nil
               PROVE  answer[r].statewide <= answer[r].counties
    BY DEF Results!CountiesNotBehind
  <2>1. SoundAnswer(r)
    BY DEF ElectionsInv
  <2>2. answer[r].step # "none" /\ answer[r].step # "statewide" /\ answer[r].step # "counties"
    BY <2>1 DEF SoundAnswer, Results!NoAnswer
  <2> QED
    BY <2>1, <2>2 DEF SoundAnswer
<1>3. Results!OptionsAreUseful
  <2> SUFFICES ASSUME options.step = 3, options.alone
               PROVE  /\ options.categories = {c \in Results!Categories : Results!Listed(c) # {}}
                      /\ UNION {Results!Listed(c) : c \in options.categories} = Results!Live
                      /\ \A b, c \in options.categories :
                           b # c => Results!Listed(b) \cap Results!Listed(c) = {}
                      /\ options.total = Results!Cardinality(Results!Live)
                      /\ options.dates = {DateOf[e] : e \in Results!Live}
    BY DEF Results!OptionsAreUseful
  <2>1. /\ options.categories = Results!OfferedCategories({DistrictOf[e] : e \in Results!Live})
        /\ options.total = Results!Cardinality(Results!Live)
        /\ options.dates = {DateOf[e] : e \in Results!Live}
    BY DEF ElectionsInv, SoundOptions
  <2> QED
    BY <2>1, CategoriesAre
<1> QED
  BY <1>1, <1>2, <1>3 DEF Results!AnswersHold
-----------------------------------------------------------------------------
(* Precinct maps.                                                          *)

(* Turned round, every entry of a row that has an id is in the precinct of *)
(* its key, and in no other.                                               *)
LEMMA TransposeIs ==
  ASSUME NEW f
  PROVE  LET ps == Maps!Transpose(f) IN
         /\ \A p \in ps : p.from = {e \in Maps!Entries(f) : Maps!Key(e) = p.key}
         /\ \A e \in Maps!Entries(f) : Maps!Key(e) # Nil =>
              \E p \in ps : p.key = Maps!Key(e) /\ e \in p.from
         /\ \A p, q \in ps : p # q => p.from \cap q.from = {} /\ p.key # q.key
<1> DEFINE ps == Maps!Transpose(f)
           E  == Maps!Entries(f)
           C  == Maps!Counted(f)
           K(e) == Maps!Key(e)
<1>c. C = {e \in E : K(e) # Nil}
  BY DEF Maps!Counted
<1>1. \A p \in ps : /\ p = [key |-> p.key, from |-> {e \in C : K(e) = p.key}]
                    /\ p.from = {e \in C : K(e) = p.key} /\ p.key \in {K(e) : e \in C}
  BY DEF Maps!Transpose
<1>2. \A e \in C : \E p \in ps : p.key = K(e) /\ e \in p.from
  <2> SUFFICES ASSUME NEW e \in C PROVE \E p \in ps : p.key = K(e) /\ e \in p.from
    OBVIOUS
  <2>1. [key |-> K(e), from |-> {d \in C : K(d) = K(e)}] \in ps
    BY DEF Maps!Transpose
  <2> QED
    BY <2>1
<1> HIDE DEF ps, E, C, K
<1>3. \A p \in ps : p.from = {e \in E : K(e) = p.key}
  BY <1>1, <1>c
<1>4. \A e \in E : K(e) # Nil => \E p \in ps : p.key = K(e) /\ e \in p.from
  BY <1>2, <1>c
<1>5. \A p, q \in ps : p # q => p.from \cap q.from = {} /\ p.key # q.key
  <2> SUFFICES ASSUME NEW p \in ps, NEW q \in ps, p # q
               PROVE  p.from \cap q.from = {} /\ p.key # q.key
    OBVIOUS
  <2>1. p.key # q.key
    BY <1>1
  <2> QED
    BY <1>1, <2>1
<1> QED
  BY <1>3, <1>4, <1>5 DEF ps, E, K

(* A request that is to be matched has the row it read, turned round; when *)
(* it is done it has what MapsHold promises.                               *)
MapsInv == /\ DOMAIN request = {"step", "row", "precincts", "shape", "metas"}
           /\ request.step = "match" => request.precincts = Maps!Transpose(request.row)
           /\ Maps!MapsHold

LEMMA MapsInit == Maps!Init => MapsInv
  BY DEF Maps!Init, Maps!NoRequest, MapsInv, Maps!MapsHold

(* What the match of ids gives: the keys that a record has, each with a    *)
(* record that has it.                                                     *)
LEMMA ById ==
  ASSUME NEW keys, NEW id, NEW shape \in Maps!ById(keys, id)
  PROVE  /\ DOMAIN shape = {k \in keys : \E b \in Maps!Known : id[b] = k}
         /\ \A k \in DOMAIN shape : shape[k] \in Maps!Known /\ id[shape[k]] = k
  BY DEF Maps!ById

(* What the match of names gives: records that no id has taken.            *)
LEMMA ByName ==
  ASSUME NEW ps, NEW taken, \A p, q \in ps : p.key = q.key => p = q
  PROVE  /\ DOMAIN Maps!ByName(ps, taken) \subseteq {p.key : p \in ps}
         /\ \A k \in DOMAIN Maps!ByName(ps, taken) :
              Maps!ByName(ps, taken)[k] \in Maps!Known \ taken
<1> DEFINE f == Maps!ByName(ps, taken)
           ones == {q \in ps : \E b \in Shapes : Maps!Named(q, taken) = {b}}
<1>1. DOMAIN f = {p.key : p \in ones}
  BY DEF Maps!ByName
<1>2. ASSUME NEW k \in DOMAIN f PROVE f[k] \in Maps!Known \ taken
  <2>1. PICK p \in ones : p.key = k
    BY <1>1
  <2>2. (CHOOSE q \in ps : q.key = k) = p
    BY <2>1
  <2>3. f[k] = CHOOSE b \in Maps!Named(p, taken) : TRUE
    <3>1. f[k] = CHOOSE b \in Maps!Named(CHOOSE q \in ps : q.key = k, taken) : TRUE
      BY <1>2 DEF Maps!ByName
    <3> QED
      BY <2>2, <3>1
  <2>4. PICK b \in Shapes : Maps!Named(p, taken) = {b}
    BY <2>1
  <2>5. f[k] \in Maps!Named(p, taken)
    BY <2>3, <2>4
  <2>6. Maps!Named(p, taken) \subseteq Maps!Known \ taken
    BY DEF Maps!Named, Maps!NotMatched
  <2> QED
    BY <2>5, <2>6
<1> QED
  BY <1>1, <1>2

(* After the match the ids come first, and a precinct with a record of its *)
(* id has a shape.                                                         *)
LEMMA MatchIs ==
  ASSUME MapsInv, Maps!Match
  PROVE  /\ Maps!IdsComeFirst'
         /\ \A p \in request.precincts, m \in request'.metas :
              p.key \in {m.is.pid, m.is.sos} => p.key \in DOMAIN request'.shape
<1>1. PICK exact \in Maps!ById(Maps!KeysOf(request.precincts), Maps!Pid) :
        \E sos \in Maps!ById(Maps!KeysOf(Maps!Left(exact)), Maps!Sos) :
          LET ids == Maps!Merge(exact, sos)
          IN  request' = [request EXCEPT !.step = "done",
                            !.metas = {[of |-> b, is |-> meta[b]] : b \in Maps!Known},
                            !.shape = Maps!Merge(ids, Maps!ByName(Maps!Left(ids), Maps!Image(ids)))]
  BY DEF Maps!Match
<1>2. PICK sos \in Maps!ById(Maps!KeysOf(Maps!Left(exact)), Maps!Sos) :
        LET ids == Maps!Merge(exact, sos)
        IN  request' = [request EXCEPT !.step = "done",
                          !.metas = {[of |-> b, is |-> meta[b]] : b \in Maps!Known},
                          !.shape = Maps!Merge(ids, Maps!ByName(Maps!Left(ids), Maps!Image(ids)))]
  BY <1>1
<1> DEFINE keys  == Maps!KeysOf(request.precincts)
           ids   == Maps!Merge(exact, sos)
           named == Maps!ByName(Maps!Left(ids), Maps!Image(ids))
           shape == Maps!Merge(ids, named)
           has(k, b) == meta[b].pid = k \/ meta[b].sos = k
<1>3. /\ request'.shape = shape
      /\ request'.metas = {[of |-> b, is |-> meta[b]] : b \in Maps!Known}
  BY <1>2 DEF MapsInv
<1>4. /\ DOMAIN exact = {k \in keys : \E b \in Maps!Known : meta[b].pid = k}
      /\ \A k \in DOMAIN exact : exact[k] \in Maps!Known /\ meta[exact[k]].pid = k
  <2>1. \A b \in Maps!Known : Maps!Pid[b] = meta[b].pid
    BY DEF Maps!Pid
  <2>2. /\ DOMAIN exact = {k \in keys : \E b \in Maps!Known : Maps!Pid[b] = k}
        /\ \A k \in DOMAIN exact : exact[k] \in Maps!Known /\ Maps!Pid[exact[k]] = k
    <3> DEFINE pid == Maps!Pid
    <3>1. exact \in Maps!ById(keys, pid)
      OBVIOUS
    <3> HIDE DEF pid, keys
    <3>2. /\ DOMAIN exact = {k \in keys : \E b \in Maps!Known : pid[b] = k}
          /\ \A k \in DOMAIN exact : exact[k] \in Maps!Known /\ pid[exact[k]] = k
      BY <3>1 DEF Maps!ById
    <3> QED
      BY <3>2 DEF pid
  <2> QED
    BY <2>1, <2>2
<1>5. /\ DOMAIN sos = {k \in keys \ DOMAIN exact : \E b \in Maps!Known : meta[b].sos = k}
      /\ \A k \in DOMAIN sos : sos[k] \in Maps!Known /\ meta[sos[k]].sos = k
  <2>1. Maps!KeysOf(Maps!Left(exact)) = keys \ DOMAIN exact
    BY DEF Maps!KeysOf, Maps!Left
  <2> QED
    BY <2>1, ById DEF Maps!Sos
<1>6. /\ DOMAIN ids = DOMAIN exact \cup DOMAIN sos
      /\ \A k \in DOMAIN exact : ids[k] = exact[k]
      /\ \A k \in DOMAIN sos : ids[k] = sos[k]
  BY <1>5 DEF Maps!Merge
<1> HIDE DEF ids
<1>7. /\ DOMAIN named \subseteq keys \ DOMAIN ids
      /\ \A k \in DOMAIN named : named[k] \in Maps!Known \ Maps!Image(ids)
  <2>1. \A p, q \in request.precincts : p.key = q.key => p = q
    BY TransposeIs DEF MapsInv, Maps!Match
  <2>2. \A p, q \in Maps!Left(ids) : p.key = q.key => p = q
    BY <2>1 DEF Maps!Left
  <2>3. {p.key : p \in Maps!Left(ids)} \subseteq keys \ DOMAIN ids
    BY DEF Maps!Left, Maps!KeysOf
  <2> QED
    BY <2>2, <2>3, ByName
<1> HIDE DEF named
<1>8. /\ DOMAIN shape = DOMAIN ids \cup DOMAIN named
      /\ \A k \in DOMAIN ids : shape[k] = ids[k]
      /\ \A k \in DOMAIN named : shape[k] = named[k]
  BY <1>7 DEF Maps!Merge
<1> HIDE DEF shape, keys
<1>9. \A k \in DOMAIN shape : shape[k] \in Maps!Known
  BY <1>4, <1>5, <1>6, <1>7, <1>8
<1>10. ASSUME NEW b \in Maps!Known
       PROVE  (CHOOSE m \in request'.metas : m.of = b).is = meta[b]
  <2>1. [of |-> b, is |-> meta[b]] \in request'.metas
    BY <1>3
  <2>2. \A m \in request'.metas : m.of = b => m = [of |-> b, is |-> meta[b]]
    BY <1>3
  <2>3. [of |-> b, is |-> meta[b]].of = b /\ [of |-> b, is |-> meta[b]].is = meta[b]
    OBVIOUS
  <2> DEFINE record == [of |-> b, is |-> meta[b]]
  <2> HIDE DEF record
  <2>4. (CHOOSE m \in request'.metas : m.of = b) = record
    BY <2>1, <2>2, <2>3, Zenon DEF record
  <2> QED
    BY <2>3, <2>4, Zenon DEF record
<1>11. \A k \in DOMAIN shape : Maps!RecordOf(request.shape[k])' = meta[shape[k]]
  BY <1>3, <1>9, <1>10 DEF Maps!RecordOf
<1>12. \A k \in DOMAIN shape : Maps!ByIdOf(k)' <=> has(k, shape[k])
  BY <1>3, <1>11 DEF Maps!ByIdOf
<1>13. ASSUME NEW k \in DOMAIN shape, \E m \in request'.metas : m.is.pid = k
       PROVE  meta[shape[k]].pid = k
  <2>1. \E b \in Maps!Known : meta[b].pid = k
    BY <1>3, <1>13
  <2>2. k \in keys
    BY <1>4, <1>5, <1>6, <1>7, <1>8
  <2> QED
    BY <1>4, <1>6, <1>8, <2>1, <2>2
<1>14. ASSUME NEW k \in DOMAIN shape, ~has(k, shape[k]),
              NEW j \in DOMAIN shape \ {k}, has(j, shape[j])
       PROVE  shape[j] # shape[k]
  <2>1. k \in DOMAIN named
    BY <1>4, <1>5, <1>6, <1>8, <1>14
  <2>2. j \in DOMAIN ids
    <3>1. j \in keys /\ shape[j] \in Maps!Known
      BY <1>4, <1>5, <1>6, <1>7, <1>8, <1>9
    <3> QED
      BY <1>4, <1>5, <1>6, <1>14, <3>1
  <2>3. shape[j] \in Maps!Image(ids)
    BY <1>8, <2>2 DEF Maps!Image
  <2> QED
    BY <1>7, <1>8, <2>1, <2>3
<1>15. ASSUME NEW k \in DOMAIN request'.shape
       PROVE  /\ (\E m \in request'.metas : m.is.pid = k) =>
                   Maps!RecordOf(request.shape[k])'.pid = k
              /\ ~Maps!ByIdOf(k)' => \A j \in DOMAIN request'.shape \ {k} :
                   Maps!ByIdOf(j)' => request'.shape[j] # request'.shape[k]
  <2>1. k \in DOMAIN shape /\ request'.shape = shape
    BY <1>3, <1>15
  <2>2. (\E m \in request'.metas : m.is.pid = k) => Maps!RecordOf(request.shape[k])'.pid = k
    BY <1>11, <1>13, <2>1
  <2>3. ASSUME ~Maps!ByIdOf(k)', NEW j \in DOMAIN shape \ {k}, Maps!ByIdOf(j)'
        PROVE  shape[j] # shape[k]
    <3>1. j \in DOMAIN shape
      BY <2>3
    <3> HIDE DEF has
    <3>2. k \in DOMAIN shape /\ ~has(k, shape[k]) /\ has(j, shape[j])
      BY <1>12, <2>1, <2>3, <3>1, Zenon
    <3> QED
      BY <1>14, <3>1, <3>2
  <2> QED
    BY <2>1, <2>2, <2>3
<1>16. ASSUME NEW p \in request.precincts, NEW m \in request'.metas,
              p.key \in {m.is.pid, m.is.sos}
       PROVE  p.key \in DOMAIN request'.shape
  <2>1. p.key \in keys
    BY DEF keys, Maps!KeysOf
  <2>2. PICK b \in Maps!Known : m = [of |-> b, is |-> meta[b]]
    BY <1>3
  <2>3. meta[b].pid = p.key \/ meta[b].sos = p.key
    BY <1>16, <2>2
  <2> QED
    BY <1>3, <1>4, <1>5, <1>6, <1>8, <2>1, <2>3
<1> QED
  BY <1>15, <1>16 DEF Maps!IdsComeFirst

LEMMA MapsNext == MapsInv /\ [Maps!Next]_maps => MapsInv'
<1> SUFFICES ASSUME MapsInv, [Maps!Next]_maps PROVE MapsInv'
  OBVIOUS
<1>1. CASE UNCHANGED request
  <2>1. Maps!MapsHold' = Maps!MapsHold
    BY <1>1 DEF Maps!MapsHold, Maps!VotesKept, Maps!IdsComeFirst, Maps!Features, Maps!ByIdOf,
                Maps!RecordOf
  <2> QED
    BY <1>1, <2>1 DEF MapsInv
<1>2. CASE Maps!ReadResults \/ Maps!Answered
  <2>1. /\ DOMAIN request' = {"step", "row", "precincts", "shape", "metas"}
        /\ request'.step # "done"
        /\ request'.step = "match" => request'.precincts = Maps!Transpose(request'.row)
    <3>1. CASE Maps!ReadResults
      BY <3>1 DEF Maps!ReadResults, Maps!NoRequest
    <3>2. CASE Maps!Answered
      BY <3>2 DEF Maps!Answered, Maps!NoRequest
    <3> QED
      BY <1>2, <3>1, <3>2
  <2> QED
    BY <2>1 DEF MapsInv, Maps!MapsHold
<1>3. CASE Maps!Match
  <2>1. PICK metas, shape :
          request' = [request EXCEPT !.step = "done", !.metas = metas, !.shape = shape]
    BY <1>3 DEF Maps!Match
  <2>2. /\ request'.precincts = Maps!Transpose(request.row) /\ request'.row = request.row
        /\ request'.step = "done"
        /\ DOMAIN request' = DOMAIN request
    BY <1>3, <2>1 DEF Maps!Match, MapsInv
  <2>3. Maps!VotesKept'
    <3> DEFINE ps == request'.precincts
               D  == DOMAIN request'.shape
               E  == Maps!Entries(request'.row)
    <3>1. /\ \A p \in ps : p.from = {e \in E : Maps!Key(e) = p.key}
          /\ \A e \in E : Maps!Key(e) # Nil =>
               \E p \in ps : p.key = Maps!Key(e) /\ e \in p.from
          /\ \A p, q \in ps : p # q => p.from \cap q.from = {} /\ p.key # q.key
      BY <2>2, TransposeIs
    <3>2. \A p \in ps, m \in request'.metas : p.key \in {m.is.pid, m.is.sos} => p.key \in D
      BY <1>3, <2>1, MatchIs DEF MapsInv
    <3>3. Maps!Features' = {p \in ps : p.key \in D}
      BY DEF Maps!Features
    <3>4. \A e \in E, m \in request'.metas :
            Maps!Key(e) # Nil /\ Maps!Key(e) \in {m.is.pid, m.is.sos} =>
              \E p \in Maps!Features' : e \in p.from
      <4> HIDE DEF ps, D, E
      <4> QED
        BY <3>1, <3>2, <3>3
    <3> QED
      BY <3>1, <3>3, <3>4 DEF Maps!VotesKept
  <2> QED
    BY <1>3, <2>2, <2>3, MatchIs DEF MapsInv, Maps!MapsHold
<1> QED
  BY <1>1, <1>2, <1>3
     DEF Maps!Next, maps, Maps!RefreshResults, Maps!ImportMetadata
-----------------------------------------------------------------------------
(* Geocodes.                                                               *)
Heard  == [provider : Providers, result : Answers]

(* Better is a strict weak order of what providers answer.                 *)
LEMMA BetterOrders ==
  ASSUME NEW a \in Answers, NEW b \in Answers, NEW c \in Answers
  PROVE  /\ ~Geocodes!Better(a, a)
         /\ a.rank = 0 => ~Geocodes!Better(b, a) \/ b.rank = 0
         /\ Geocodes!Better(a, b) => ~Geocodes!Better(b, a)
         /\ Geocodes!Better(a, b) /\ ~Geocodes!Better(c, b) => Geocodes!Better(a, c)
<1>1. \A x \in {a, b, c} : x.rank \in 0..2 /\ x.score \in Nat
  BY GivenAssumption DEF Geocodes!AnswersAssumption
<1> QED
  BY <1>1 DEF Geocodes!Better

(* Of results that are not none, one is the first of the best.             *)
LEMMA BestExists ==
  ASSUME NEW heard \in Seq(Heard), heard # <<>>
  PROVE  \E i \in DOMAIN heard :
           /\ \A k \in DOMAIN heard : ~Geocodes!Better(heard[k].result, heard[i].result)
           /\ \A k \in 1..(i - 1) : Geocodes!Better(heard[i].result, heard[k].result)
<1> DEFINE N == Len(heard)
           Beats(i, k) == Geocodes!Better(heard[i].result, heard[k].result)
           First(i, n) == /\ \A k \in 1..n : ~Beats(k, i)
                          /\ \A k \in 1..(i - 1) : Beats(i, k)
           T == {n \in 0..N : n = 0 \/ \E i \in 1..n : First(i, n)}
<1>1. N \in Nat /\ N # 0 /\ DOMAIN heard = 1..N
  BY EmptySeq
<1>2. \A i, k, m \in 1..N : /\ ~Beats(i, i) /\ (Beats(i, k) => ~Beats(k, i))
                            /\ (Beats(i, k) /\ ~Beats(m, k) => Beats(i, m))
  <2>1. \A i \in 1..N : heard[i] \in Heard
    OBVIOUS
  <2>2. \A i \in 1..N : heard[i].result \in Answers
    BY <2>1 DEF Heard
  <2> QED
    BY <2>2, BetterOrders
<1> HIDE DEF N, Beats
<1>3. ASSUME NEW n \in 1..N, n - 1 \in T PROVE n \in T
  <2>1. CASE n = 1
    <3>1. First(1, 1)
      BY <1>1, <1>2
    <3> QED
      BY <2>1, <3>1, <1>1
  <2>2. CASE n # 1
    <3>1. PICK i \in 1..(n - 1) : First(i, n - 1)
      BY <1>3, <2>2
    <3>2. i \in 1..N /\ n \in 0..N /\ i \in 1..n /\ n \in 1..n /\ \A k \in 1..n : k \in 1..N
      BY <1>1
    <3>3. \A k \in 1..n : k \in 1..(n - 1) \/ k = n
      OBVIOUS
    <3>4. CASE Beats(n, i)
      <4>1. \A k \in 1..(n - 1) : Beats(n, k)
        BY <1>2, <3>1, <3>2, <3>4
      <4>2. First(n, n)
        BY <1>2, <3>2, <3>3, <4>1
      <4> QED
        BY <3>2, <4>2
    <3>5. CASE ~Beats(n, i)
      <4>1. First(i, n)
        BY <3>1, <3>3, <3>5
      <4> QED
        BY <3>2, <4>1
    <3> QED
      BY <3>4, <3>5
  <2> QED
    BY <2>1, <2>2
<1>4. 0 \in T
  BY <1>1
<1>5. N \in T
  <2> HIDE DEF T
  <2>1. \A i \in 1..N : i - 1 \in T => i \in T
    BY <1>3
  <2>2. \A i \in 0..N : i \in T
    BY <1>1, <1>4, <2>1, UpTo
  <2> QED
    BY <2>2, <1>1
<1>6. PICK i \in 1..N : First(i, N)
  BY <1>1, <1>5
<1> QED
  BY <1>1, <1>6 DEF Beats

LEMMA BestIs ==
  ASSUME NEW heard \in Seq(Heard)
  PROVE  LET told == Geocodes!select_best_result(heard) IN
         /\ told \in Seq(Heard)
         /\ heard # <<>> => told # <<>>
         /\ \A t \in 1..Len(told), k \in DOMAIN heard :
              ~Geocodes!Better(heard[k].result, told[t].result)
<1>1. CASE heard = <<>>
  BY <1>1 DEF Geocodes!select_best_result
<1>2. CASE heard # <<>>
  <2> DEFINE First(i) == /\ \A k \in DOMAIN heard : ~Geocodes!Better(heard[k].result, heard[i].result)
                         /\ \A k \in 1..(i - 1) : Geocodes!Better(heard[i].result, heard[k].result)
             best == CHOOSE i \in DOMAIN heard : First(i)
  <2>1. \E i \in DOMAIN heard : First(i)
    BY <1>2, BestExists
  <2>2. best \in DOMAIN heard /\ First(best)
    <3> HIDE DEF First
    <3> QED
      BY <2>1
  <2>3. Geocodes!select_best_result(heard) = <<heard[best]>>
    BY <1>2 DEF Geocodes!select_best_result
  <2> HIDE DEF best
  <2>4. heard[best] \in Heard
    BY <2>2
  <2> QED
    BY <2>2, <2>3, <2>4
<1> QED
  BY <1>1, <1>2

-----------------------------------------------------------------------------
(* The providers a request goes through.                                   *)
P == Geocodes!get_configured_providers
Path(r) == Geocodes!Path(r)
Distinct(s) == \A i, k \in 1..Len(s) : i # k => s[i] # s[k]

(* A part of a sequence without repetition has none, nor what is not there. *)
LEMMA PartIsDistinct ==
  ASSUME NEW q, NEW s, Len(q) \in Nat, NEW I \in SUBSET (1..Len(s)), IsPart(q, s, I),
         \A i, k \in I : i < k => s[i] # s[k]
  PROVE  Distinct(q)
<1>1. PICK h \in [1..Len(q) -> I] : /\ \A k \in 1..Len(q) : q[k] = s[h[k]]
                                    /\ \A k, m \in 1..Len(q) : k < m => h[k] < h[m]
  BY DEF IsPart
<1>2. ASSUME NEW k \in 1..Len(q), NEW m \in 1..Len(q), k < m PROVE q[k] # q[m]
  <2>1. h[k] \in I /\ h[m] \in I /\ h[k] < h[m]
    BY <1>1, <1>2
  <2>2. s[h[k]] # s[h[m]]
    BY <2>1, Zenon
  <2>3. q[k] = s[h[k]] /\ q[m] = s[h[m]]
    BY <1>1, <1>2, Zenon
  <2> QED
    BY <2>2, <2>3, Zenon
<1>3. \A k, m \in 1..Len(q) : k # m => k < m \/ m < k
  OBVIOUS
<1> QED
  BY <1>2, <1>3 DEF Distinct

(* The configured providers are enabled and none is there twice.           *)
LEMMA ConfiguredAre ==
  ASSUME order \in Orders
  PROVE  P \in Seq(Providers) /\ Distinct(P)
<1> DEFINE S == {order[i] : i \in DOMAIN order}
           I == {i \in DOMAIN order : /\ order[i] \in Enabled
                                      /\ \A k \in 1..(i - 1) : order[k] # order[i]}
<1>1. order \in Seq(S) /\ Enabled \subseteq Providers
  BY GivenAssumption DEF Geocodes!AnswersAssumption
<1> HIDE DEF S
<1>2. I \in SUBSET (1..Len(order)) /\ \A i \in I : order[i] \in Enabled
  BY <1>1
<1>3. \A i, k \in I : i < k => order[i] # order[k]
  BY <1>1
<1>4. P = Geocodes!At(order, I)
  BY DEF P, Geocodes!get_configured_providers
<1> HIDE DEF I
<1>5. P \in Seq(S) /\ IsPart(P, order, I)
  BY <1>1, <1>2, <1>4, AtIs
<1>6. Distinct(P)
  BY <1>2, <1>3, <1>5, PartIsDistinct
<1>7. \A k \in 1..Len(P) : P[k] \in Providers
  BY <1>1, <1>2, <1>5 DEF IsPart
<1>8. P \in Seq(Providers)
  BY <1>5, <1>7
<1> QED
  BY <1>6, <1>8

(* What remains of them beside a batch's own.                              *)
LEMMA RemainingAre ==
  ASSUME order \in Orders, NEW r
  PROVE  LET I == {i \in DOMAIN P : P[i] # PrimaryOf[r]}
             rest == Geocodes!Remaining(r)
         IN  I \in SUBSET (1..Len(P)) /\ rest \in Seq(Providers) /\ IsPart(rest, P, I)
<1> DEFINE I == {i \in DOMAIN P : P[i] # PrimaryOf[r]}
<1>1. P \in Seq(Providers) /\ Distinct(P)
  BY ConfiguredAre
<1>2. I \in SUBSET (1..Len(P))
  BY <1>1
<1>3. Geocodes!Remaining(r) = Geocodes!At(P, I)
  BY DEF Geocodes!Remaining, P
<1> HIDE DEF I
<1>4. Geocodes!Remaining(r) \in Seq(Providers) /\ IsPart(Geocodes!Remaining(r), P, I)
  BY <1>1, <1>2, <1>3, AtIs
<1> QED
  BY <1>2, <1>4 DEF I

(* A batch voter's path begins with the primary and has no repetition.     *)
LEMMA PathIs ==
  ASSUME order \in Orders, NEW r \in Requests
  PROVE  /\ Path(r) \in Seq(Providers) /\ Distinct(Path(r))
         /\ KindOf[r] = "single" => Len(Path(r)) = 1
         /\ KindOf[r] = "batch" /\ r \notin fallback => Len(Path(r)) = 1
<1>1. CASE KindOf[r] = "single"
  BY <1>1, GivenAssumption DEF Path, Geocodes!Path, Distinct, Geocodes!AnswersAssumption
<1>4. CASE KindOf[r] = "batch" /\ r \notin fallback
  BY <1>4, GivenAssumption DEF Path, Geocodes!Path, Distinct, Geocodes!AnswersAssumption
<1>2. CASE KindOf[r] = "batch" /\ r \in fallback
  <2> DEFINE rest == Geocodes!Remaining(r)
             I == {i \in DOMAIN P : P[i] # PrimaryOf[r]}
             p == PrimaryOf[r]
  <2>1. P \in Seq(Providers) /\ Distinct(P)
    BY ConfiguredAre
  <2>4. I \in SUBSET (1..Len(P)) /\ rest \in Seq(Providers) /\ IsPart(rest, P, I)
    BY RemainingAre
  <2>2. I \in SUBSET (1..Len(P))
    BY <2>4
  <2>i. \A i \in I : P[i] # p
    OBVIOUS
  <2> HIDE DEF I, rest
  <2>5. Distinct(rest)
    BY <2>1, <2>2, <2>4, PartIsDistinct DEF Distinct
  <2>6. \A k \in 1..Len(rest) : rest[k] # p
    BY <2>4, <2>i DEF IsPart
  <2>7. p \in Providers
    BY <1>2, GivenAssumption DEF Geocodes!AnswersAssumption
  <2>8. Path(r) = <<p>> \o rest
    BY <1>2 DEF Path, Geocodes!Path, rest
  <2> HIDE DEF p
  <2>9. /\ Path(r) \in Seq(Providers) /\ Len(Path(r)) = 1 + Len(rest)
        /\ Path(r)[1] = p /\ \A k \in 2..Len(Path(r)) : Path(r)[k] = rest[k - 1]
    BY <2>4, <2>7, <2>8
  <2>10. ASSUME NEW i \in 1..Len(Path(r)), NEW k \in 1..Len(Path(r)), i # k
         PROVE  Path(r)[i] # Path(r)[k]
    <3>1. CASE i = 1
      BY <2>4, <2>6, <2>9, <2>10, <3>1
    <3>2. CASE k = 1
      BY <2>4, <2>6, <2>9, <2>10, <3>2
    <3>3. CASE i # 1 /\ k # 1
      BY <2>4, <2>5, <2>9, <2>10, <3>3 DEF Distinct
    <3> QED
      BY <3>1, <3>2, <3>3
  <2> QED
    BY <1>2, <2>9, <2>10 DEF Distinct, rest
<1>3. CASE KindOf[r] \notin {"single", "batch"}
  BY <1>3, ConfiguredAre DEF Path, Geocodes!Path, P
<1> QED
  BY <1>1, <1>2, <1>3, <1>4
-----------------------------------------------------------------------------
(* The inductive invariant of the geocodes.  A request is somewhere on its *)
(* path: what it has asked is a first part of it, what is to do the rest.  *)
GeocodeRequest ==
  [pc : {"idle", "looking", "asking", "storing", "commit", "done"}, todo : Seq(Providers),
   tries : Int, got : Answers \cup {Nil}, heard : Seq(Heard), told : Seq(Heard),
   asked : Seq(Providers), answer : {"none", "ok", "outside", "unavailable", "aborted"}]

Inside(rs) == \A i \in 1..Len(rs) : rs[i].result.inside

OnPath(r, w) ==
  /\ Len(w.asked) =< Len(Path(r))
  /\ \A i \in 1..Len(w.asked) : w.asked[i] = Path(r)[i]

Going(r, w) ==
  /\ Len(w.todo) # 0 /\ Len(w.todo) = Len(Path(r)) - Len(w.asked)
  /\ \A k \in 1..Len(w.todo) : w.todo[k] = Path(r)[Len(w.asked) + k]
  /\ Len(w.heard) =< Len(w.asked)
  /\ w.told = <<>>
  /\ IF KindOf[r] = "batch" THEN \A i \in 1..Len(w.heard) : w.heard[i].result.rank # 0
                            ELSE Inside(w.heard)

Over(r, w) ==
  /\ KindOf[r] # "batch" => Inside(w.told)
  /\ KindOf[r] = "batch" /\ w.answer # "aborted" =>
       /\ \A t \in 1..Len(w.told), i \in 1..Len(w.heard) :
            ~Geocodes!Better(w.heard[i].result, w.told[t].result)
       /\ w.heard # <<>> => w.told # <<>>
       /\ w.answer = "none" => Len(w.asked) = Len(Path(r))

Sound(r, w) ==
  /\ w \in GeocodeRequest /\ OnPath(r, w)
  /\ w.pc = "idle" => w = Geocodes!Fresh
  /\ w.pc \in {"looking", "asking", "storing"} => Going(r, w) /\ KindOf[r] # "verify"
  /\ w.pc = "storing" => w.got \in Answers /\ (KindOf[r] # "batch" => w.got.inside)
  /\ w.pc \in {"commit", "done"} => Over(r, w)

(* Rows that are linked to the address lie in Georgia.  A request has rows *)
(* of providers of its path, those it has asked while the first voter of a *)
(* batch is at work; and none of the provider it waits for.                *)
GeocodeRow == {cell \in [result : Answers, linked : BOOLEAN] : cell.linked => cell.result.inside}
HasAsked(w, p) == \E i \in 1..Len(w.asked) : w.asked[i] = p
OfPath(r, p)   == \E i \in 1..Len(Path(r)) : Path(r)[i] = p
Asking(w, p)   == w.pc \in {"asking", "storing"} /\ Head(w.todo) = p

GeocodesInv ==
  /\ order \in Orders
  /\ cached \in [Providers -> GeocodeRow \cup {Nil}]
  /\ draft \in [Requests -> [Providers -> GeocodeRow \cup {Nil}]]
  /\ DOMAIN req = Requests /\ req = [r \in Requests |-> req[r]]
  /\ \A r \in Requests : Sound(r, req[r])
  /\ \A r \in Requests, p \in Providers : draft[r][p] # Nil =>
       /\ OfPath(r, p) /\ ~Asking(req[r], p)
       /\ turn[r] = 1 => HasAsked(req[r], p)
  /\ turn \in [Requests -> Nat \ {0}]
  /\ \A r \in Requests : KindOf[r] # "batch" => turn[r] = 1

-----------------------------------------------------------------------------
(* A request that has done with a provider waits for none.                 *)
LEMMA RestsAfter ==
  ASSUME NEW r, NEW w \in GeocodeRequest
  PROVE  /\ Geocodes!Onward(r, w).pc \in {"looking", "commit"}
         /\ \A told, ans : Geocodes!Ending(r, w, told, ans).pc = "commit"
<1>1. ASSUME NEW told, NEW ans PROVE Geocodes!Ending(r, w, told, ans).pc = "commit"
  BY DEF Geocodes!Ending, GeocodeRequest
<1> DEFINE told == IF KindOf[r] = "batch" THEN Geocodes!select_best_result(w.heard)
                   ELSE w.heard
           next == [w EXCEPT !.pc = "looking", !.todo = Tail(w.todo), !.got = Nil,
                             !.asked = Append(w.asked, Head(w.todo))]
           ans  == IF told = <<>> THEN "none" ELSE "ok"
<1>2. Geocodes!Onward(r, w) = IF Tail(w.todo) # <<>> THEN next
                              ELSE Geocodes!Ending(r, next, told, ans)
  BY DEF Geocodes!Onward
<1> HIDE DEF told, ans
<1>3. next.pc = "looking" /\ Geocodes!Ending(r, next, told, ans).pc = "commit"
  BY DEF Geocodes!Ending, GeocodeRequest
<1> QED
  BY <1>1, <1>2, <1>3

(* A request that ends early, or with what it was told.                    *)
LEMMA EndingIsSound ==
  ASSUME order \in Orders, NEW r \in Requests, NEW w \in GeocodeRequest, OnPath(r, w),
         NEW told \in Seq(Heard), NEW ans \in {"none", "ok", "outside", "unavailable"},
         KindOf[r] # "batch" => Inside(told),
         KindOf[r] = "batch" =>
           /\ \A t \in 1..Len(told), i \in 1..Len(w.heard) :
                ~Geocodes!Better(w.heard[i].result, told[t].result)
           /\ w.heard # <<>> => told # <<>>
           /\ ans = "none" => Len(w.asked) = Len(Path(r))
  PROVE  LET v == Geocodes!Ending(r, w, told, ans)
         IN  Sound(r, v) /\ v.asked = w.asked /\ v.pc = "commit"
<1> DEFINE v == Geocodes!Ending(r, w, told, ans)
<1>1. /\ v = [w EXCEPT !.pc = "commit", !.todo = <<>>, !.told = told, !.answer = ans]
      /\ <<>> \in Seq(Providers)
  BY DEF Geocodes!Ending
<1> HIDE DEF v
<1>2. /\ v \in GeocodeRequest /\ v.pc = "commit" /\ v.asked = w.asked /\ v.heard = w.heard
      /\ v.told = told /\ v.answer = ans
  BY <1>1 DEF GeocodeRequest
<1>3. OnPath(r, v) /\ Over(r, v)
  BY <1>2 DEF OnPath, Over
<1> QED
  BY <1>2, <1>3 DEF Sound, v

(* What a step past the first provider to do leaves.                       *)
LEMMA StepsAlong ==
  ASSUME order \in Orders, NEW r \in Requests, NEW w \in GeocodeRequest, OnPath(r, w),
         Len(w.todo) # 0, Len(w.todo) = Len(Path(r)) - Len(w.asked),
         \A k \in 1..Len(w.todo) : w.todo[k] = Path(r)[Len(w.asked) + k]
  PROVE  LET more == Append(w.asked, Head(w.todo))
             rest == Tail(w.todo)
         IN  /\ Head(w.todo) \in Providers /\ rest \in Seq(Providers)
             /\ more \in Seq(Providers) /\ Len(more) = Len(w.asked) + 1
             /\ Len(more) =< Len(Path(r)) /\ \A i \in 1..Len(more) : more[i] = Path(r)[i]
             /\ Len(rest) = Len(Path(r)) - Len(more)
             /\ \A k \in 1..Len(rest) : rest[k] = Path(r)[Len(more) + k]
             /\ rest = <<>> <=> Len(rest) = 0
             /\ \A p : HasAsked(w, p) => \E i \in 1..Len(more) : more[i] = p
             /\ \E i \in 1..Len(more) : more[i] = Head(w.todo)
<1> DEFINE asks == w.asked
           todo == w.todo
           path == Path(r)
           more == Append(asks, Head(todo))
<1>1. asks \in Seq(Providers) /\ todo \in Seq(Providers)
  BY DEF GeocodeRequest
<1>2. path \in Seq(Providers)
  BY PathIs
<1>3. /\ Len(todo) # 0 /\ Len(todo) = Len(path) - Len(asks)
      /\ \A k \in 1..Len(todo) : todo[k] = path[Len(asks) + k]
      /\ Len(asks) =< Len(path) /\ \A i \in 1..Len(asks) : asks[i] = path[i]
  BY DEF OnPath
<1> HIDE DEF asks, todo, path
<1>4. /\ Head(todo) \in Providers /\ Head(todo) = todo[1] /\ Tail(todo) \in Seq(Providers)
      /\ Len(Tail(todo)) = Len(todo) - 1
      /\ \A k \in 1..Len(Tail(todo)) : Tail(todo)[k] = todo[k + 1]
      /\ Tail(todo) = <<>> <=> Len(Tail(todo)) = 0
  <2>1. todo # <<>> /\ Len(todo) \in Nat
    BY <1>1, <1>3
  <2>2. /\ Head(todo) \in Providers /\ Tail(todo) \in Seq(Providers)
        /\ Len(Tail(todo)) = Len(todo) - 1
    BY <1>1, <2>1, HeadTailProperties
  <2>3. \A k \in 1..Len(Tail(todo)) : Tail(todo)[k] = todo[k + 1]
    BY <1>1, <2>1, HeadTailProperties
  <2>4. Head(todo) = todo[1]
    BY <1>1, <2>1
  <2>5. Tail(todo) = <<>> <=> Len(Tail(todo)) = 0
    BY <2>2, EmptySeq
  <2> QED
    BY <2>2, <2>3, <2>4, <2>5
<1>5. /\ more \in Seq(Providers) /\ Len(more) = Len(asks) + 1
      /\ \A i \in 1..Len(asks) : more[i] = asks[i]
      /\ more[Len(asks) + 1] = Head(todo)
  BY <1>1, <1>4, AppendProperties
<1>l. Len(asks) \in Nat /\ Len(path) \in Nat /\ Len(todo) \in Nat
  BY <1>1, <1>2
<1> HIDE DEF more
<1>6. /\ Len(more) =< Len(path) /\ \A i \in 1..Len(more) : more[i] = path[i]
      /\ Len(Tail(todo)) = Len(path) - Len(more)
  <2>1. Len(more) =< Len(path) /\ Len(Tail(todo)) = Len(path) - Len(more)
    BY <1>3, <1>4, <1>5, <1>l
  <2>2. ASSUME NEW i \in 1..Len(more) PROVE more[i] = path[i]
    <3>1. CASE i \in 1..Len(asks)
      BY <1>3, <1>5, <3>1
    <3>2. CASE i \notin 1..Len(asks)
      <4>1. i = Len(asks) + 1
        BY <1>5, <1>l, <2>2, <3>2
      <4> QED
        BY <1>3, <1>4, <1>5, <1>l, <4>1
    <3> QED
      BY <3>1, <3>2
  <2> QED
    BY <2>1, <2>2
<1>7. \A k \in 1..Len(Tail(todo)) : Tail(todo)[k] = path[Len(more) + k]
  <2> SUFFICES ASSUME NEW k \in 1..Len(Tail(todo)) PROVE Tail(todo)[k] = path[Len(more) + k]
    OBVIOUS
  <2>1. k + 1 \in 1..Len(todo) /\ Len(asks) + (k + 1) = Len(more) + k
    BY <1>4, <1>5, <1>l
  <2>2. todo[k + 1] = path[Len(asks) + (k + 1)]
    BY <1>3, <2>1
  <2> QED
    BY <1>4, <2>1, <2>2
<1>8. /\ \A p : (\E i \in 1..Len(asks) : asks[i] = p) => \E i \in 1..Len(more) : more[i] = p
      /\ \E i \in 1..Len(more) : more[i] = Head(todo)
  <2>1. /\ \A i \in 1..Len(asks) : i \in 1..Len(more)
        /\ Len(asks) + 1 \in 1..Len(more)
    BY <1>5, <1>l
  <2> QED
    BY <1>5, <2>1
<1> QED
  <2>1. \A p : HasAsked(w, p) => \E i \in 1..Len(more) : more[i] = p
    BY <1>8 DEF HasAsked, asks
  <2>2. /\ Head(todo) \in Providers /\ Tail(todo) \in Seq(Providers)
        /\ more \in Seq(Providers) /\ Len(more) = Len(asks) + 1
    BY <1>4, <1>5
  <2> QED
    BY <1>4, <1>6, <1>7, <1>8, <2>1, <2>2 DEF asks, todo, path, more

(* On to the next provider, or the end.  this is the request on its path,  *)
(* with what it has heard so far.                                          *)
LEMMA OnwardIsSound ==
  ASSUME order \in Orders, NEW r \in Requests, KindOf[r] # "verify",
         NEW w \in GeocodeRequest, OnPath(r, w), w.told = <<>>,
         Len(w.todo) # 0, Len(w.todo) = Len(Path(r)) - Len(w.asked),
         \A k \in 1..Len(w.todo) : w.todo[k] = Path(r)[Len(w.asked) + k],
         Len(w.heard) =< Len(w.asked) + 1,
         IF KindOf[r] = "batch" THEN \A i \in 1..Len(w.heard) : w.heard[i].result.rank # 0
                                ELSE Inside(w.heard)
  PROVE  LET v == Geocodes!Onward(r, w)
         IN  /\ Sound(r, v) /\ \A p : HasAsked(w, p) => HasAsked(v, p)
             /\ HasAsked(v, Head(w.todo)) /\ v.pc \in {"looking", "commit"}
<1> DEFINE rest == Tail(w.todo)
           told == IF KindOf[r] = "batch" THEN Geocodes!select_best_result(w.heard)
                   ELSE w.heard
           more == Append(w.asked, Head(w.todo))
           next == [w EXCEPT !.pc = "looking", !.todo = rest, !.got = Nil, !.asked = more]
           v    == Geocodes!Onward(r, w)
           ans  == IF told = <<>> THEN "none" ELSE "ok"
<1>1. v = IF rest # <<>> THEN next ELSE Geocodes!Ending(r, next, told, ans)
  BY DEF Geocodes!Onward
<1>2. /\ Head(w.todo) \in Providers /\ rest \in Seq(Providers)
      /\ more \in Seq(Providers) /\ Len(more) = Len(w.asked) + 1 /\ Len(more) =< Len(Path(r))
      /\ \A i \in 1..Len(more) : more[i] = Path(r)[i]
      /\ Len(rest) = Len(Path(r)) - Len(more)
      /\ \A k \in 1..Len(rest) : rest[k] = Path(r)[Len(more) + k]
      /\ rest = <<>> <=> Len(rest) = 0
      /\ \A p : HasAsked(w, p) => \E i \in 1..Len(more) : more[i] = p
      /\ \E i \in 1..Len(more) : more[i] = Head(w.todo)
  BY StepsAlong
<1> HIDE DEF rest, more, v
<1>3. /\ next \in GeocodeRequest /\ next.pc = "looking" /\ next.todo = rest
      /\ next.asked = more /\ next.heard = w.heard /\ next.told = <<>>
  BY <1>2 DEF GeocodeRequest
<1> HIDE DEF next
<1>4. OnPath(r, next)
  BY <1>2, <1>3 DEF OnPath
<1>5. /\ \A p : HasAsked(w, p) => HasAsked(next, p)
      /\ HasAsked(next, Head(w.todo))
  BY <1>2, <1>3 DEF HasAsked
<1>6. CASE rest # <<>>
  <2>1. Going(r, next)
    <3>1. Len(rest) # 0 /\ Len(next.heard) =< Len(next.asked)
      BY <1>2, <1>3, <1>6
    <3>2. /\ Len(next.todo) = Len(Path(r)) - Len(next.asked)
          /\ \A k \in 1..Len(next.todo) : next.todo[k] = Path(r)[Len(next.asked) + k]
      BY <1>2, <1>3
    <3>3. IF KindOf[r] = "batch"
            THEN \A i \in 1..Len(next.heard) : next.heard[i].result.rank # 0
            ELSE Inside(next.heard)
      BY <1>3
    <3>4. Len(next.todo) # 0 /\ next.told = <<>>
      BY <1>3, <3>1
    <3> QED
      BY <3>1, <3>2, <3>3, <3>4 DEF Going
  <2> QED
    BY <1>1, <1>3, <1>4, <1>5, <1>6, <2>1 DEF Sound, v
<1>7. CASE rest = <<>>
  <2>1. w.heard \in Seq(Heard)
    BY DEF GeocodeRequest
  <2>2. /\ told \in Seq(Heard)
        /\ KindOf[r] # "batch" => Inside(told)
        /\ KindOf[r] = "batch" =>
             /\ \A t \in 1..Len(told), i \in 1..Len(w.heard) :
                  ~Geocodes!Better(w.heard[i].result, told[t].result)
             /\ w.heard # <<>> => told # <<>>
    BY <2>1, BestIs
  <2>3. Len(more) = Len(Path(r))
    <3>1. Path(r) \in Seq(Providers)
      BY PathIs
    <3> QED
      BY <1>2, <1>7, <3>1
  <2> HIDE DEF told
  <2>4. ans \in {"none", "ok", "outside", "unavailable"}
    OBVIOUS
  <2> HIDE DEF ans
  <2> DEFINE e == Geocodes!Ending(r, next, told, ans)
  <2>5. Sound(r, e) /\ e.asked = next.asked /\ e.pc = "commit"
    <3>1. KindOf[r] = "batch" =>
            /\ \A t \in 1..Len(told), i \in 1..Len(next.heard) :
                 ~Geocodes!Better(next.heard[i].result, told[t].result)
            /\ next.heard # <<>> => told # <<>>
            /\ ans = "none" => Len(next.asked) = Len(Path(r))
      BY <1>3, <2>2, <2>3
    <3> QED
      BY <1>3, <1>4, <2>2, <2>4, <3>1, EndingIsSound
  <2> HIDE DEF e
  <2>6. v = e
    BY <1>1, <1>7 DEF e
  <2> QED
    BY <1>5, <2>5, <2>6 DEF HasAsked, v
<1> QED
  BY <1>6, <1>7
(* A result in hand is sound to take: an EXACT one, like the first one     *)
(* found, is no worse than any that a batch voter has heard before it.     *)
LEMMA TakeIsSound ==
  ASSUME order \in Orders, NEW r \in Requests, KindOf[r] # "verify",
         Sound(r, req[r]), Going(r, req[r]),
         NEW result \in Answers, KindOf[r] # "batch" => result.inside,
         NEW found \in BOOLEAN
  PROVE  LET v == Geocodes!Take(r, result, found)
         IN  /\ Sound(r, v) /\ \A p : HasAsked(req[r], p) => HasAsked(v, p)
             /\ HasAsked(v, Geocodes!Current(r)) /\ v.pc \in {"looking", "commit"}
<1> DEFINE w    == req[r]
           p    == Head(w.todo)
           of   == Geocodes!Of(p, result)
           longer == Append(w.heard, of)
           kept == [w EXCEPT !.heard = longer]
           last == [kept EXCEPT !.asked = Append(@, p)]
           ends == KindOf[r] = "batch" /\ (result.rank = 0 \/ (found /\ Geocodes!OnPrimary(r)))
           v    == Geocodes!Take(r, result, found)
<1>1. v = IF KindOf[r] = "single" \/ ends THEN Geocodes!Ending(r, last, <<of>>, "ok")
          ELSE Geocodes!Onward(r, kept)
  BY DEF Geocodes!Take, Geocodes!Current
<1>2. w \in GeocodeRequest /\ OnPath(r, w) /\ Going(r, w)
  BY DEF Sound
<1> HIDE DEF w
<1>3. /\ p \in Providers /\ Append(w.asked, p) \in Seq(Providers)
      /\ Len(Append(w.asked, p)) = Len(w.asked) + 1
      /\ Len(Append(w.asked, p)) =< Len(Path(r))
      /\ \A i \in 1..Len(Append(w.asked, p)) : Append(w.asked, p)[i] = Path(r)[i]
      /\ \A q : HasAsked(w, q) =>
           \E i \in 1..Len(Append(w.asked, p)) : Append(w.asked, p)[i] = q
      /\ \E i \in 1..Len(Append(w.asked, p)) : Append(w.asked, p)[i] = p
  BY <1>2, StepsAlong DEF Going
<1> HIDE DEF p
<1>4. of \in Heard /\ of.result = result
  BY <1>3 DEF Heard, Geocodes!Of
<1> HIDE DEF of
<1>5. /\ w.heard \in Seq(Heard) /\ longer \in Seq(Heard) /\ Len(longer) = Len(w.heard) + 1
      /\ \A i \in 1..Len(w.heard) : longer[i] = w.heard[i]
      /\ longer[Len(w.heard) + 1] = of
  <2>1. w.heard \in Seq(Heard)
    BY <1>2 DEF GeocodeRequest
  <2> QED
    BY <2>1, <1>4, AppendProperties
<1>6. \A i \in 1..Len(longer) : \/ i \in 1..Len(w.heard) /\ longer[i] = w.heard[i]
                                \/ longer[i] = of
  <2>1. Len(w.heard) \in Nat
    BY <1>5
  <2>2. \A i \in 1..Len(longer) : i \in 1..Len(w.heard) \/ i = Len(w.heard) + 1
    BY <1>5, <2>1
  <2> QED
    BY <1>5, <2>2
<1> HIDE DEF longer
<1>7. /\ kept \in GeocodeRequest /\ kept.heard = longer /\ kept.asked = w.asked
      /\ kept.todo = w.todo /\ kept.told = <<>>
  BY <1>2, <1>5 DEF GeocodeRequest, Going
<1> HIDE DEF kept
<1>8. OnPath(r, kept)
  BY <1>2, <1>7 DEF OnPath
<1>h. KindOf[r] = "batch" => \A i \in 1..Len(w.heard) : w.heard[i].result.rank # 0
  BY <1>2 DEF Going
<1>n. KindOf[r] # "batch" => Inside(w.heard)
  BY <1>2 DEF Going
<1>9. CASE KindOf[r] = "single" \/ ends
  <2>1. /\ last \in GeocodeRequest /\ last.heard = longer /\ last.asked = Append(w.asked, p)
    BY <1>3, <1>7 DEF GeocodeRequest
  <2> HIDE DEF last
  <2>2. OnPath(r, last)
    BY <1>3, <2>1 DEF OnPath
  <2> DEFINE told == <<of>>
  <2>3. told \in Seq(Heard) /\ told # <<>> /\ Len(told) = 1 /\ told[1] = of
    BY <1>4
  <2> HIDE DEF told
  <2>4. KindOf[r] # "batch" => Inside(told)
    BY <1>4, <2>3 DEF Inside
  <2>5. ASSUME KindOf[r] = "batch", NEW i \in 1..Len(longer)
        PROVE  ~Geocodes!Better(longer[i].result, result)
    <3>1. CASE longer[i] = of
      BY <1>4, <3>1, BetterOrders
    <3>2. CASE i \in 1..Len(w.heard) /\ longer[i] = w.heard[i]
      <4>1. longer[i].result.rank # 0
        BY <1>h, <2>5, <3>2
      <4>2. longer[i].result \in Answers
        <5>1. longer[i] \in Heard
          BY <1>5, <2>5
        <5> QED
          BY <5>1 DEF Heard
      <4>3. CASE result.rank = 0
        BY <4>1, <4>2, <4>3, BetterOrders
      <4>4. CASE result.rank # 0
        <5>1. w.asked = <<>>
          BY <1>9, <2>5, <4>4 DEF Geocodes!OnPrimary, w
        <5>2. Len(w.heard) =< 0
          BY <1>2, <5>1 DEF Going
        <5> QED
          BY <1>5, <3>2, <5>2
      <4> QED
        BY <4>3, <4>4
    <3> QED
      BY <1>6, <2>5, <3>1, <3>2
  <2>6. KindOf[r] = "batch" =>
          /\ \A t \in 1..Len(told), i \in 1..Len(last.heard) :
               ~Geocodes!Better(last.heard[i].result, told[t].result)
          /\ last.heard # <<>> => told # <<>>
          /\ "ok" = "none" => Len(last.asked) = Len(Path(r))
    BY <1>4, <2>1, <2>3, <2>5
  <2> DEFINE e == Geocodes!Ending(r, last, told, "ok")
  <2>7. Sound(r, e) /\ e.asked = last.asked /\ e.pc = "commit"
    BY <2>1, <2>2, <2>3, <2>4, <2>6, EndingIsSound
  <2>8. v = e
    BY <1>1, <1>9 DEF told
  <2> HIDE DEF e, v
  <2>9. Sound(r, v) /\ v.asked = Append(w.asked, p) /\ v.pc = "commit"
    BY <2>1, <2>7, <2>8
  <2> QED
    BY <1>3, <2>9 DEF HasAsked, v, w, p, Geocodes!Current
<1>10. CASE ~(KindOf[r] = "single" \/ ends)
  <2>1. IF KindOf[r] = "batch" THEN \A i \in 1..Len(kept.heard) : kept.heard[i].result.rank # 0
                               ELSE Inside(kept.heard)
    BY <1>4, <1>6, <1>7, <1>h, <1>n, <1>10 DEF Inside
  <2>2. Len(kept.heard) =< Len(kept.asked) + 1
    <3>1. Len(w.heard) \in Nat /\ Len(w.asked) \in Nat
      BY <1>2, <1>5 DEF GeocodeRequest
    <3> QED
      BY <1>2, <1>5, <1>7, <3>1 DEF Going
  <2>3. /\ Len(kept.todo) # 0 /\ Len(kept.todo) = Len(Path(r)) - Len(kept.asked)
        /\ \A k \in 1..Len(kept.todo) : kept.todo[k] = Path(r)[Len(kept.asked) + k]
    BY <1>2, <1>7 DEF Going
  <2> DEFINE e == Geocodes!Onward(r, kept)
  <2>4. /\ Sound(r, e) /\ \A q : HasAsked(kept, q) => HasAsked(e, q)
        /\ HasAsked(e, Head(kept.todo)) /\ e.pc \in {"looking", "commit"}
    BY <1>7, <1>8, <2>1, <2>2, <2>3, OnwardIsSound
  <2>5. v = e
    BY <1>1, <1>10
  <2>6. \A q : HasAsked(w, q) => HasAsked(kept, q)
    BY <1>7 DEF HasAsked
  <2> HIDE DEF e
  <2> QED
    BY <1>7, <2>4, <2>5, <2>6 DEF w, p, Geocodes!Current
<1> QED
  BY <1>9, <1>10

-----------------------------------------------------------------------------
LEMMA PathStays ==
  ASSUME NEW r, UNCHANGED <<order, fallback>>
  PROVE  Path(r)' = Path(r)
<1>1. P' = P
  BY DEF P, Geocodes!get_configured_providers, Geocodes!At
<1>2. Geocodes!Remaining(r)' = Geocodes!Remaining(r)
  BY <1>1 DEF P, Geocodes!Remaining, Geocodes!At
<1> QED
  BY <1>1, <1>2 DEF Path, Geocodes!Path, P

LEMMA SoundStays ==
  ASSUME NEW r, UNCHANGED <<order, fallback>>, NEW v, Sound(r, v), req'[r] = v
  PROVE  Sound(r, req[r])'
<1>1. Path(r)' = Path(r)
  BY PathStays
<1>2. OnPath(r, req[r])' <=> OnPath(r, v)
  BY <1>1 DEF OnPath
<1>3. Going(r, req[r])' <=> Going(r, v)
  BY <1>1 DEF Going
<1>4. Over(r, req[r])' <=> Over(r, v)
  BY <1>1 DEF Over
<1> QED
  BY <1>2, <1>3, <1>4 DEF Sound

(* A step of a request that leaves the tables and its rows alone.          *)
LEMMA MoveKeeps ==
  ASSUME GeocodesInv, NEW r \in Requests, NEW v, Geocodes!Move(r, v), Sound(r, v),
         \A p : HasAsked(req[r], p) => HasAsked(v, p),
         UNCHANGED Geocodes!setting, cached' \in [Providers -> GeocodeRow \cup {Nil}],
         draft' \in [Requests -> [Providers -> GeocodeRow \cup {Nil}]],
         \A q \in Requests, p \in Providers :
           draft'[q][p] # Nil => draft[q][p] # Nil \/ (q = r /\ HasAsked(v, p)),
         \A p \in Providers : draft'[r][p] # Nil => ~Asking(v, p)
  PROVE  GeocodesInv'
<1>s. UNCHANGED <<order, fallback>> /\ turn' = turn
  BY DEF Geocodes!setting
<1>1. /\ req' = [req EXCEPT ![r] = v] /\ DOMAIN req = Requests
      /\ \A q \in Requests : Sound(q, req[q])
  BY DEF Geocodes!Move, GeocodesInv
<1>2. /\ req'[r] = v /\ \A q \in Requests : q # r => req'[q] = req[q]
      /\ DOMAIN req' = Requests /\ req' = [q \in Requests |-> req'[q]]
  BY <1>1
<1>3. ASSUME NEW q \in Requests PROVE Sound(q, req[q])'
  BY <1>1, <1>2, <1>s, SoundStays
<1>4. ASSUME NEW q \in Requests, NEW p \in Providers, draft'[q][p] # Nil
      PROVE  /\ OfPath(q, p) /\ ~Asking(req'[q], p)
             /\ turn[q] = 1 => HasAsked(req'[q], p)
  <2>1. CASE draft[q][p] # Nil
    BY <1>2, <1>4, <2>1 DEF GeocodesInv
  <2>2. CASE draft[q][p] = Nil
    <3>1. q = r /\ HasAsked(v, p) /\ ~Asking(v, p)
      BY <1>4, <2>2
    <3>2. OnPath(r, v) /\ Len(v.asked) \in Nat /\ Len(Path(r)) \in Nat
      <4>1. Path(r) \in Seq(Providers)
        BY PathIs DEF GeocodesInv
      <4> QED
        BY <4>1 DEF Sound, GeocodeRequest
    <3>3. OfPath(r, p)
      BY <3>1, <3>2 DEF OnPath, OfPath, HasAsked
    <3> QED
      BY <1>2, <3>1, <3>3
  <2> QED
    BY <2>1, <2>2
<1>5. order' \in Orders /\ cached' \in [Providers -> GeocodeRow \cup {Nil}]
      /\ turn' \in [Requests -> Nat \ {0}]
      /\ \A q \in Requests : KindOf[q] # "batch" => turn'[q] = 1
  BY <1>s DEF GeocodesInv
<1>6. \A q \in Requests, p \in Providers : (draft[q][p] # Nil)' =>
        /\ OfPath(q, p)' /\ ~Asking(req[q], p)'
        /\ (turn[q] = 1)' => HasAsked(req[q], p)'
  <2>1. ASSUME NEW q \in Requests PROVE Path(q)' = Path(q)
    BY <1>s, PathStays
  <2> QED
    BY <1>4, <1>s, <2>1 DEF HasAsked, OfPath, Asking
<1> QED
  BY <1>2, <1>3, <1>5, <1>6 DEF GeocodesInv

-----------------------------------------------------------------------------
LEMMA GeocodesStart == Geocodes!Init => GeocodesInv
<1> SUFFICES ASSUME Geocodes!Init PROVE GeocodesInv
  OBVIOUS
<1> DEFINE w == Geocodes!Fresh
<1>1. /\ order \in Orders /\ cached = Geocodes!NoRows
      /\ draft = [r \in Requests |-> Geocodes!NoRows]
      /\ req = [r \in Requests |-> w] /\ turn = [r \in Requests |-> 1]
  BY DEF Geocodes!Init
<1>2. Geocodes!NoRows \in [Providers -> GeocodeRow \cup {Nil}]
  BY DEF Geocodes!NoRows
<1>3. ASSUME NEW r \in Requests PROVE Sound(r, w)
  <2>1. Path(r) \in Seq(Providers)
    BY <1>1, PathIs
  <2>2. /\ w \in GeocodeRequest /\ w.pc = "idle" /\ w.asked = <<>>
    BY DEF Geocodes!Fresh, GeocodeRequest
  <2>3. OnPath(r, w)
    BY <2>1, <2>2 DEF OnPath
  <2> QED
    BY <2>2, <2>3 DEF Sound
<1> HIDE DEF w
<1>4. \A r \in Requests, p \in Providers : draft[r][p] = Nil
  BY <1>1 DEF Geocodes!NoRows
<1> QED
  BY <1>1, <1>2, <1>3, <1>4 DEF GeocodesInv

LEMMA SeenIs ==
  ASSUME GeocodesInv, NEW r \in Requests, NEW p \in Providers
  PROVE  /\ Geocodes!Seen(r, p) \in GeocodeRow \cup {Nil}
         /\ \A cell \in GeocodeRow : cell.result \in Answers /\ (cell.linked => cell.result.inside)
  BY DEF GeocodesInv, Geocodes!Seen, GeocodeRow

(* A request that goes on or ends where it is, its path not stepped.       *)
LEMMA EarlyEndIsSound ==
  ASSUME order \in Orders, NEW r \in Requests, Sound(r, req[r]),
         req[r].pc \in {"looking", "asking"},
         NEW ans \in {"outside", "unavailable"},
         KindOf[r] = "batch" => Geocodes!OnPrimary(r)
  PROVE  LET v == Geocodes!Ending(r, req[r], <<>>, ans)
         IN  Sound(r, v) /\ v.asked = req[r].asked /\ v.pc = "commit"
<1> DEFINE w == req[r]
           told == <<>>
<1>1. w \in GeocodeRequest /\ OnPath(r, w) /\ Going(r, w)
  BY DEF Sound
<1>2. told \in Seq(Heard) /\ Len(told) = 0 /\ Inside(told)
  BY DEF Inside
<1>3. ASSUME KindOf[r] = "batch" PROVE w.heard = <<>>
  <2>1. w.asked = <<>>
    BY <1>3 DEF Geocodes!OnPrimary
  <2> HIDE DEF w
  <2>2. w.heard \in Seq(Heard) /\ Len(w.heard) =< 0
    BY <1>1, <2>1 DEF Going, GeocodeRequest
  <2> QED
    BY <2>2, EmptySeq
<1> HIDE DEF w, told
<1> DEFINE v == Geocodes!Ending(r, w, told, ans)
<1>4. Sound(r, v) /\ v.asked = w.asked /\ v.pc = "commit"
  <2>1. ans \in {"none", "ok", "outside", "unavailable"} /\ ans # "none"
    OBVIOUS
  <2>2. KindOf[r] # "batch" => Inside(told)
    BY <1>2
  <2>3. KindOf[r] = "batch" =>
          /\ \A t \in 1..Len(told), i \in 1..Len(w.heard) :
               ~Geocodes!Better(w.heard[i].result, told[t].result)
          /\ w.heard # <<>> => told # <<>>
          /\ ans = "none" => Len(w.asked) = Len(Path(r))
    BY <1>2, <1>3, <2>1
  <2> QED
    BY <1>1, <1>2, <2>1, <2>2, <2>3, EndingIsSound
<1> QED
  BY <1>4 DEF w, told

LEMMA OnwardOf ==
  ASSUME order \in Orders, NEW r \in Requests, Sound(r, req[r]),
         req[r].pc \in {"looking", "asking"}
  PROVE  LET v == Geocodes!Onward(r, req[r])
         IN  /\ Sound(r, v) /\ \A p : HasAsked(req[r], p) => HasAsked(v, p)
             /\ v.pc \in {"looking", "commit"}
<1> DEFINE w == req[r]
<1>1. w \in GeocodeRequest /\ OnPath(r, w) /\ Going(r, w) /\ KindOf[r] # "verify"
  BY DEF Sound
<1> HIDE DEF w
<1>2. Len(w.heard) =< Len(w.asked) + 1
  <2>1. Len(w.heard) \in Nat /\ Len(w.asked) \in Nat /\ Len(w.heard) =< Len(w.asked)
    BY <1>1 DEF GeocodeRequest, Going
  <2> QED
    BY <2>1
<1>3. /\ w.told = <<>> /\ Len(w.todo) # 0 /\ Len(w.todo) = Len(Path(r)) - Len(w.asked)
      /\ \A k \in 1..Len(w.todo) : w.todo[k] = Path(r)[Len(w.asked) + k]
      /\ IF KindOf[r] = "batch" THEN \A i \in 1..Len(w.heard) : w.heard[i].result.rank # 0
                                ELSE Inside(w.heard)
  BY <1>1 DEF Going
<1> DEFINE v == Geocodes!Onward(r, w)
<1>4. /\ Sound(r, v) /\ \A p : HasAsked(w, p) => HasAsked(v, p)
      /\ v.pc \in {"looking", "commit"}
  BY <1>1, <1>2, <1>3, OnwardIsSound
<1> QED
  BY <1>4 DEF w

LEMMA RefusedIsSound ==
  ASSUME order \in Orders, NEW r \in Requests, Sound(r, req[r]),
         req[r].pc \in {"looking", "asking"}, KindOf[r] # "batch"
  PROVE  LET v == Geocodes!Refused(r)
         IN  /\ Sound(r, v) /\ \A p : HasAsked(req[r], p) => HasAsked(v, p)
             /\ v.pc \in {"looking", "commit"}
<1> DEFINE u == Geocodes!Ending(r, req[r], <<>>, "outside")
           v == Geocodes!Onward(r, req[r])
<1>1. Geocodes!Refused(r) = IF KindOf[r] = "single" THEN u ELSE v
  BY DEF Geocodes!Refused
<1>2. Sound(r, u) /\ u.asked = req[r].asked /\ u.pc = "commit"
  BY EarlyEndIsSound
<1>3. /\ Sound(r, v) /\ \A p : HasAsked(req[r], p) => HasAsked(v, p)
      /\ v.pc \in {"looking", "commit"}
  BY OnwardOf
<1> HIDE DEF u, v
<1>4. \A p : HasAsked(req[r], p) => HasAsked(u, p)
  BY <1>2 DEF HasAsked
<1> QED
  BY <1>1, <1>2, <1>3, <1>4

LEMMA GeocodesStep == GeocodesInv /\ Geocodes!Next => GeocodesInv'
<1> SUFFICES ASSUME GeocodesInv, NEW r \in Requests,
                    \/ Geocodes!Start(r) \/ Geocodes!NextVoter(r) \/ Geocodes!Found(r) \/ Geocodes!Miss(r)
                    \/ Geocodes!ProviderError(r) \/ Geocodes!NoMatch(r)
                    \/ Geocodes!Answered(r) \/ Geocodes!Store(r) \/ Geocodes!Commit(r)
                    \/ Geocodes!Abort(r) \/ Geocodes!verify_address(r)
             PROVE  GeocodesInv'
  BY DEF Geocodes!Next
<1> DEFINE w == req[r]
           Same(q) == /\ \A p : HasAsked(w, p) => HasAsked(q, p)
                      /\ q.pc \in {"asking", "storing"} =>
                           \/ w.pc = "asking" /\ q.todo = w.todo
                           \/ draft[r][Head(q.todo)] = Nil
<1>t. /\ order \in Orders /\ Sound(r, w) /\ w \in GeocodeRequest /\ OnPath(r, w)
      /\ cached \in [Providers -> GeocodeRow \cup {Nil}]
      /\ draft \in [Requests -> [Providers -> GeocodeRow \cup {Nil}]]
  BY DEF GeocodesInv, Sound
<1>m. ASSUME NEW v, Geocodes!Move(r, v), Sound(r, v), Same(v), UNCHANGED <<Geocodes!setting, cached, draft>>
      PROVE  GeocodesInv'
  <2>1. ASSUME NEW p \in Providers, draft[r][p] # Nil PROVE ~Asking(v, p)
    <3>1. ~Asking(w, p)
      BY <2>1 DEF GeocodesInv
    <3> QED
      BY <1>m, <2>1, <3>1 DEF Asking
  <2> QED
    BY <1>m, <1>t, <2>1, MoveKeeps
<1>p. Path(r) \in Seq(Providers)
  BY <1>t, PathIs
<1>1. CASE Geocodes!Start(r)
  <2> DEFINE all == Path(r)
             v1 == Geocodes!Ending(r, w, <<>>, "none")
             v2 == [w EXCEPT !.pc = "looking", !.todo = all]
  <2>1. /\ w.pc = "idle" /\ KindOf[r] # "verify" /\ UNCHANGED <<Geocodes!setting, cached, draft>>
        /\ Geocodes!Move(r, IF all = <<>> THEN v1 ELSE v2)
    BY <1>1 DEF Geocodes!Start, Path
  <2>2. all = Path(r)
    OBVIOUS
  <2> HIDE DEF all
  <2>3. w = Geocodes!Fresh
    BY <1>t, <2>1 DEF Sound
  <2>4. /\ w.asked = <<>> /\ w.heard = <<>> /\ w.told = <<>> /\ Len(w.asked) = 0
        /\ Len(w.heard) = 0
    BY <2>3 DEF Geocodes!Fresh
  <2> HIDE DEF w
  <2>5. CASE all = <<>>
    <3> DEFINE told == <<>>
    <3>1. told \in Seq(Heard) /\ Len(told) = 0 /\ Inside(told)
      BY DEF Inside
    <3>2. Len(Path(r)) = 0
      BY <2>2, <2>5
    <3>3. Geocodes!Move(r, v1) /\ v1 = Geocodes!Ending(r, w, told, "none")
      BY <2>1, <2>5
    <3> HIDE DEF told, v1
    <3>4. Sound(r, v1) /\ v1.asked = w.asked /\ v1.pc = "commit"
      <4> DEFINE ans == "none"
      <4>1. ans \in {"none", "ok", "outside", "unavailable"}
        OBVIOUS
      <4>2. KindOf[r] = "batch" =>
              /\ \A t \in 1..Len(told), i \in 1..Len(w.heard) :
                   ~Geocodes!Better(w.heard[i].result, told[t].result)
              /\ w.heard # <<>> => told # <<>>
              /\ ans = "none" => Len(w.asked) = Len(Path(r))
        BY <2>4, <3>1, <3>2
      <4>3. v1 = Geocodes!Ending(r, w, told, ans)
        BY <3>3
      <4> HIDE DEF ans
      <4> QED
        BY <1>t, <3>1, <4>1, <4>2, <4>3, EndingIsSound
    <3>5. Same(v1)
      BY <3>4 DEF HasAsked
    <3> QED
      BY <1>m, <2>1, <3>3, <3>4, <3>5
  <2>6. CASE all # <<>>
    <3>1. /\ v2 \in GeocodeRequest /\ v2.pc = "looking" /\ v2.todo = Path(r)
          /\ v2.asked = <<>> /\ v2.heard = <<>> /\ v2.told = <<>> /\ Len(v2.asked) = 0
          /\ Len(v2.heard) = 0
      BY <1>t, <1>p, <2>2, <2>4 DEF GeocodeRequest
    <3>2. Geocodes!Move(r, v2)
      BY <2>1, <2>6
    <3> HIDE DEF v2
    <3>3. OnPath(r, v2)
      BY <1>p, <3>1 DEF OnPath
    <3>4. Going(r, v2)
      <4>1. Len(v2.todo) # 0 /\ Len(v2.todo) \in Nat
        BY <1>p, <2>2, <2>6, <3>1, EmptySeq
      <4>2. \A k \in 1..Len(v2.todo) : v2.todo[k] = Path(r)[Len(v2.asked) + k]
        BY <3>1
      <4>3. Inside(v2.heard) /\ \A i \in 1..Len(v2.heard) : v2.heard[i].result.rank # 0
        BY <3>1 DEF Inside
      <4> QED
        BY <3>1, <4>1, <4>2, <4>3 DEF Going
    <3>5. Sound(r, v2)
      BY <2>1, <3>1, <3>3, <3>4 DEF Sound
    <3>6. Same(v2)
      BY <2>4, <3>1 DEF HasAsked
    <3> QED
      BY <1>m, <2>1, <3>2, <3>5, <3>6
  <2> QED
    BY <2>5, <2>6
<1>n. CASE Geocodes!NextVoter(r)
  <2> DEFINE v == [Geocodes!Fresh EXCEPT !.pc = "looking", !.todo = Path(r)]
  <2>1. /\ KindOf[r] = "batch" /\ req' = [req EXCEPT ![r] = v]
        /\ turn' = [turn EXCEPT ![r] = @ + 1] /\ UNCHANGED <<order, fallback, cached, draft>>
    BY <1>n DEF Geocodes!NextVoter, Geocodes!Move, Path
  <2>2. Len(Path(r)) # 0
    <3>1. Path(r) \in Seq(Providers) /\ Path(r) # <<>>
      <4>1. \A rest : rest \in Seq(Providers) /\ PrimaryOf[r] \in Providers =>
              <<PrimaryOf[r]>> \o rest # <<>>
        OBVIOUS
      <4>2. PrimaryOf[r] \in Providers /\ <<PrimaryOf[r]>> # <<>>
        BY <2>1, GivenAssumption DEF Geocodes!AnswersAssumption
      <4>3. Geocodes!Remaining(r) \in Seq(Providers)
        BY <1>t, RemainingAre
      <4> QED
        BY <1>p, <2>1, <4>1, <4>2, <4>3 DEF Path, Geocodes!Path
    <3> QED
      BY <3>1, EmptySeq
  <2>3. /\ v \in GeocodeRequest /\ v.pc = "looking" /\ v.todo = Path(r) /\ v.asked = <<>>
        /\ v.heard = <<>> /\ v.told = <<>> /\ Len(v.asked) = 0 /\ Len(v.heard) = 0
    <3> DEFINE fresh == Geocodes!Fresh
    <3>1. /\ fresh \in GeocodeRequest /\ fresh.asked = <<>> /\ fresh.heard = <<>>
          /\ fresh.told = <<>>
      BY DEF GeocodeRequest, Geocodes!Fresh
    <3> HIDE DEF fresh, w
    <3>2. v = [fresh EXCEPT !.pc = "looking", !.todo = Path(r)]
      BY DEF fresh
    <3>3. \A todo \in Seq(Providers) :
            /\ [fresh EXCEPT !.pc = "looking", !.todo = todo] \in GeocodeRequest
            /\ [fresh EXCEPT !.pc = "looking", !.todo = todo].todo = todo
      BY <3>1 DEF GeocodeRequest
    <3> HIDE DEF v
    <3>4. /\ v \in GeocodeRequest /\ v.todo = Path(r)
      BY <1>p, <3>2, <3>3
    <3>5. /\ v.pc = "looking" /\ v.asked = <<>> /\ v.heard = <<>> /\ v.told = <<>>
      BY <3>1, <3>2 DEF GeocodeRequest
    <3> QED
      BY <3>4, <3>5
  <2> HIDE DEF v
  <2>4. OnPath(r, v) /\ Going(r, v)
    BY <1>p, <2>1, <2>2, <2>3 DEF OnPath, Going
  <2>5. Sound(r, v)
    BY <2>1, <2>3, <2>4 DEF Sound
  <2>6. \A q \in Requests : Path(q)' = Path(q)
    BY <2>1, PathStays
  <2>7. ASSUME NEW q \in Requests PROVE Sound(q, req[q])'
    BY <2>1, <2>5, <2>7, SoundStays DEF GeocodesInv
  <2>8. ASSUME NEW q \in Requests, NEW p \in Providers, draft'[q][p] # Nil
        PROVE  /\ OfPath(q, p) /\ ~Asking(req'[q], p)
               /\ (turn'[q] = 1 => HasAsked(req'[q], p))
    <3>1. /\ OfPath(q, p) /\ ~Asking(req[q], p)
          /\ (turn[q] = 1 => HasAsked(req[q], p))
      BY <2>1, <2>8 DEF GeocodesInv
    <3>d. DOMAIN req = Requests /\ DOMAIN turn = Requests
      BY DEF GeocodesInv
    <3>2. turn'[r] # 1
      <4>1. turn \in [Requests -> Nat \ {0}]
        BY DEF GeocodesInv
      <4> QED
        BY <2>1, <4>1
    <3>3. CASE q = r
      <4>1. req'[r] = v /\ OfPath(q, p)
        BY <2>1, <3>1, <3>3, <3>d
      <4> QED
        BY <2>3, <3>2, <3>3, <4>1 DEF Asking
    <3>4. CASE q # r
      <4>1. req'[q] = req[q] /\ turn'[q] = turn[q]
        BY <2>1, <3>4, <3>d
      <4> QED
        BY <3>1, <4>1
    <3> QED
      BY <3>3, <3>4
  <2>9. \A q \in Requests, p \in Providers : (draft[q][p] # Nil)' =>
          /\ OfPath(q, p)' /\ ~Asking(req[q], p)'
          /\ (turn[q] = 1)' => HasAsked(req[q], p)'
    BY <2>6, <2>8 DEF HasAsked, OfPath, Asking
  <2> QED
    BY <1>t, <2>1, <2>7, <2>9 DEF GeocodesInv
<1>c. ASSUME w.pc \in {"looking", "asking", "storing"}
      PROVE  /\ Geocodes!Current(r) \in Providers /\ Going(r, w) /\ KindOf[r] # "verify"
             /\ Geocodes!Seen(r, Geocodes!Current(r)) \in GeocodeRow \cup {Nil}
  <2>1. Going(r, w) /\ KindOf[r] # "verify"
    BY <1>c, <1>t DEF Sound
  <2>2. Head(w.todo) \in Providers
    BY <1>t, <2>1, StepsAlong DEF Going
  <2>3. Geocodes!Current(r) \in Providers
    BY <2>2 DEF Geocodes!Current
  <2> QED
    BY <2>1, <2>3, SeenIs
<1>2. CASE Geocodes!Found(r)
  <2> DEFINE held == Geocodes!Seen(r, Geocodes!Current(r))
             v == IF held.result.inside \/ KindOf[r] = "batch"
                  THEN Geocodes!Take(r, held.result, TRUE) ELSE Geocodes!Refused(r)
  <2>1. /\ w.pc = "looking" /\ held # Nil /\ Geocodes!Move(r, v)
        /\ UNCHANGED <<Geocodes!setting, cached, draft>>
    BY <1>2 DEF Geocodes!Found
  <2>2. held \in GeocodeRow /\ held.result \in Answers
    BY <1>c, <2>1, SeenIs
  <2>3. held.result.inside \in BOOLEAN
    BY <2>2, GivenAssumption DEF Geocodes!AnswersAssumption
  <2> DEFINE result == held.result
  <2> HIDE DEF held
  <2>4. CASE result.inside \/ KindOf[r] = "batch"
    <3> DEFINE u == Geocodes!Take(r, result, TRUE)
    <3>1. v = u
      BY <2>4
    <3>2. Sound(r, u) /\ Same(u)
      BY <1>t, <1>c, <2>1, <2>2, <2>4, TakeIsSound
    <3> HIDE DEF u, v
    <3> QED
      BY <1>m, <2>1, <3>1, <3>2
  <2>5. CASE ~(result.inside \/ KindOf[r] = "batch")
    <3> DEFINE u == Geocodes!Refused(r)
    <3>1. v = u
      BY <2>5
    <3>2. Sound(r, u) /\ Same(u)
      BY <1>t, <2>1, <2>5, RefusedIsSound
    <3> HIDE DEF u, v
    <3> QED
      BY <1>m, <2>1, <3>1, <3>2
  <2> QED
    BY <2>4, <2>5
<1>3. CASE Geocodes!Miss(r)
  <2> DEFINE v == [w EXCEPT !.pc = "asking", !.tries = Geocodes!Attempts(r)]
  <2>1. w.pc = "looking" /\ Geocodes!Move(r, v) /\ UNCHANGED <<Geocodes!setting, cached, draft>>
    BY <1>3 DEF Geocodes!Miss
  <2>s. draft[r][Head(w.todo)] = Nil
    BY <1>3 DEF Geocodes!Miss, Geocodes!Seen, Geocodes!Current
  <2>2. Geocodes!Attempts(r) \in Int
    BY DEF Geocodes!Attempts
  <2>3. Going(r, w) /\ KindOf[r] # "verify"
    BY <1>c, <2>1
  <2> HIDE DEF w
  <2>4. /\ v \in GeocodeRequest /\ v.pc = "asking" /\ v.asked = w.asked /\ v.todo = w.todo
        /\ v.heard = w.heard /\ v.told = w.told
    BY <1>t, <2>2 DEF GeocodeRequest
  <2> HIDE DEF v
  <2>5. OnPath(r, v) /\ Going(r, v) /\ Same(v)
    BY <1>t, <2>3, <2>4, <2>s DEF OnPath, Going, HasAsked
  <2> QED
    BY <1>m, <2>1, <2>3, <2>4, <2>5 DEF Sound
<1>4. CASE Geocodes!ProviderError(r)
  <2> DEFINE v1 == [w EXCEPT !.tries = @ - 1]
             v2 == Geocodes!Ending(r, w, <<>>, "unavailable")
             v3 == Geocodes!Onward(r, w)
             gives == w.tries = 1 /\ (KindOf[r] = "single" \/ Geocodes!OnPrimary(r))
  <2>1. /\ w.pc = "asking" /\ UNCHANGED <<Geocodes!setting, cached, draft>>
        /\ Geocodes!Move(r, CASE w.tries > 1 -> v1 [] gives -> v2 [] OTHER -> v3)
    BY <1>4 DEF Geocodes!ProviderError
  <2>2. Going(r, w) /\ KindOf[r] # "verify" /\ w.tries \in Int
    BY <1>t, <1>c, <2>1 DEF GeocodeRequest
  <2>3. CASE w.tries > 1
    <3>1. Geocodes!Move(r, v1)
      BY <2>1, <2>2, <2>3
    <3> HIDE DEF w
    <3>2. /\ v1 \in GeocodeRequest /\ v1.pc = "asking" /\ v1.asked = w.asked /\ v1.todo = w.todo
          /\ v1.heard = w.heard /\ v1.told = w.told
      <4>1. w \in GeocodeRequest /\ w.tries - 1 \in Int
        BY <1>t, <2>2
      <4> QED
        BY <2>1, <4>1 DEF GeocodeRequest
    <3> HIDE DEF v1
    <3>3. OnPath(r, v1) /\ Going(r, v1) /\ Same(v1)
      BY <1>t, <2>1, <2>2, <3>2 DEF OnPath, Going, HasAsked
    <3> QED
      BY <1>m, <2>1, <2>2, <3>1, <3>2, <3>3 DEF Sound
  <2>4. CASE gives
    <3>1. Geocodes!Move(r, v2)
      BY <2>1, <2>4
    <3>2. KindOf[r] = "batch" => Geocodes!OnPrimary(r)
      BY <2>4
    <3>3. Sound(r, v2) /\ v2.asked = w.asked /\ v2.pc = "commit"
      BY <1>t, <2>1, <3>2, EarlyEndIsSound
    <3> HIDE DEF v2
    <3>4. Same(v2)
      BY <3>3 DEF HasAsked
    <3> QED
      BY <1>m, <2>1, <3>1, <3>3, <3>4
  <2>5. CASE ~(w.tries > 1) /\ ~gives
    <3>1. Geocodes!Move(r, v3)
      BY <2>1, <2>5
    <3>2. Sound(r, v3) /\ Same(v3)
      BY <1>t, <2>1, OnwardOf
    <3> HIDE DEF v3
    <3> QED
      BY <1>m, <2>1, <3>1, <3>2
  <2> QED
    BY <2>3, <2>4, <2>5
<1>5. CASE Geocodes!NoMatch(r)
  <2> DEFINE v == Geocodes!Onward(r, req[r])
  <2>1. w.pc = "asking" /\ Geocodes!Move(r, v) /\ UNCHANGED <<Geocodes!setting, cached, draft>>
    BY <1>5 DEF Geocodes!NoMatch
  <2>2. Sound(r, v) /\ Same(v)
    BY <1>t, <2>1, OnwardOf
  <2> HIDE DEF v
  <2> QED
    BY <1>m, <2>1, <2>2
<1>6. CASE Geocodes!Answered(r)
  <2>1. w.pc = "asking" /\ UNCHANGED <<Geocodes!setting, cached, draft>>
    BY <1>6 DEF Geocodes!Answered
  <2>2. PICK a \in Answers :
          Geocodes!Move(r, IF a.inside \/ KindOf[r] = "batch"
                           THEN [req[r] EXCEPT !.pc = "storing", !.got = a]
                           ELSE Geocodes!Refused(r))
    BY <1>6 DEF Geocodes!Answered
  <2> DEFINE v1 == [w EXCEPT !.pc = "storing", !.got = a]
             v2 == Geocodes!Refused(r)
  <2>3. Going(r, w) /\ KindOf[r] # "verify"
    BY <1>c, <2>1
  <2>4. CASE a.inside \/ KindOf[r] = "batch"
    <3>1. Geocodes!Move(r, v1)
      BY <2>2, <2>4
    <3> HIDE DEF w
    <3>2. /\ v1 \in GeocodeRequest /\ v1.pc = "storing" /\ v1.asked = w.asked
          /\ v1.todo = w.todo /\ v1.heard = w.heard /\ v1.told = w.told /\ v1.got = a
      BY <1>t DEF GeocodeRequest
    <3> HIDE DEF v1
    <3>3. OnPath(r, v1) /\ Going(r, v1) /\ Same(v1)
      BY <1>t, <2>1, <2>3, <3>2 DEF OnPath, Going, HasAsked
    <3> QED
      BY <1>m, <2>1, <2>3, <2>4, <3>1, <3>2, <3>3 DEF Sound
  <2>5. CASE ~(a.inside \/ KindOf[r] = "batch")
    <3>1. Geocodes!Move(r, v2)
      BY <2>2, <2>5
    <3>2. Sound(r, v2) /\ Same(v2)
      BY <1>t, <2>1, <2>5, RefusedIsSound
    <3> HIDE DEF v2
    <3> QED
      BY <1>m, <2>1, <3>1, <3>2
  <2> QED
    BY <2>4, <2>5
<1>7. CASE Geocodes!Store(r)
  <2> DEFINE p == Geocodes!Current(r)
             held == Geocodes!Row(w.got, KindOf[r] = "single")
             v == Geocodes!Take(r, w.got, FALSE)
  <2>1. /\ w.pc = "storing" /\ Geocodes!Move(r, v) /\ UNCHANGED <<Geocodes!setting, cached>>
        /\ draft' = [draft EXCEPT ![r][p] = held]
    BY <1>7 DEF Geocodes!Store
  <2>2. p \in Providers /\ Going(r, w) /\ KindOf[r] # "verify"
    BY <1>c, <2>1
  <2>3. w.got \in Answers /\ (KindOf[r] # "batch" => w.got.inside)
    BY <1>t, <2>1 DEF Sound
  <2>4. held \in GeocodeRow
    BY <2>3 DEF GeocodeRow, Geocodes!Row
  <2>5. Sound(r, v) /\ Same(v) /\ HasAsked(v, p) /\ v.pc \in {"looking", "commit"}
    BY <1>t, <2>2, <2>3, TakeIsSound
  <2> HIDE DEF v, held, p
  <2>6. draft' \in [Requests -> [Providers -> GeocodeRow \cup {Nil}]]
    BY <1>t, <2>1, <2>2, <2>4
  <2>7. \A q \in Requests, n \in Providers :
          draft'[q][n] # Nil => draft[q][n] # Nil \/ (q = r /\ HasAsked(v, n))
    BY <1>t, <2>1, <2>2, <2>5
  <2>8. cached' \in [Providers -> GeocodeRow \cup {Nil}]
    BY <1>t, <2>1
  <2>9. \A n \in Providers : ~Asking(v, n)
    BY <2>5 DEF Asking
  <2> QED
    BY <2>1, <2>5, <2>6, <2>7, <2>8, <2>9, MoveKeeps
<1>8. CASE Geocodes!Commit(r)
  <2> DEFINE v == [w EXCEPT !.pc = "done"]
  <2>1. /\ w.pc = "commit" /\ Geocodes!Move(r, v) /\ UNCHANGED Geocodes!setting
        /\ cached' = [p \in Providers |-> Geocodes!Seen(r, p)]
        /\ draft' = [draft EXCEPT ![r] = Geocodes!NoRows]
    BY <1>8 DEF Geocodes!Commit
  <2>2. cached' \in [Providers -> GeocodeRow \cup {Nil}]
    BY <2>1, SeenIs
  <2>3. /\ draft' \in [Requests -> [Providers -> GeocodeRow \cup {Nil}]]
        /\ \A q \in Requests, p \in Providers : draft'[q][p] # Nil => draft[q][p] # Nil
    BY <1>t, <2>1 DEF Geocodes!NoRows
  <2>4. Over(r, w)
    BY <1>t, <2>1 DEF Sound
  <2> HIDE DEF w
  <2>5. /\ v \in GeocodeRequest /\ v.pc = "done" /\ v.asked = w.asked /\ v.heard = w.heard
        /\ v.told = w.told /\ v.answer = w.answer
    BY <1>t DEF GeocodeRequest
  <2> HIDE DEF v
  <2>6. Sound(r, v) /\ Same(v) /\ \A p \in Providers : ~Asking(v, p)
    BY <1>t, <2>4, <2>5 DEF Sound, OnPath, Over, HasAsked, Asking
  <2> QED
    BY <2>1, <2>2, <2>3, <2>6, MoveKeeps DEF w
<1>9. CASE Geocodes!Abort(r)
  <2> DEFINE v == [w EXCEPT !.pc = "done", !.answer = "aborted", !.todo = <<>>]
  <2>1. /\ Geocodes!Move(r, v) /\ UNCHANGED <<Geocodes!setting, cached>>
        /\ draft' = [draft EXCEPT ![r] = Geocodes!NoRows]
        /\ w.pc = "storing"
    BY <1>9 DEF Geocodes!Abort, Geocodes!Cycle, Geocodes!Waits
  <2>2. /\ draft' \in [Requests -> [Providers -> GeocodeRow \cup {Nil}]]
        /\ \A q \in Requests, p \in Providers : draft'[q][p] # Nil => draft[q][p] # Nil
    BY <1>t, <2>1 DEF Geocodes!NoRows
  <2>3. w.told = <<>>
    BY <1>t, <2>1 DEF Sound, Going
  <2> HIDE DEF w
  <2>4. /\ v \in GeocodeRequest /\ v.pc = "done" /\ v.asked = w.asked
        /\ v.told = <<>> /\ v.answer = "aborted"
    <3>1. <<>> \in Seq(Providers)
      OBVIOUS
    <3> QED
      BY <1>t, <2>3, <3>1 DEF GeocodeRequest
  <2> HIDE DEF v
  <2>5. Sound(r, v) /\ Same(v) /\ \A p \in Providers : ~Asking(v, p)
    BY <1>t, <2>4 DEF Sound, OnPath, Over, HasAsked, Inside, Asking
  <2>6. cached' \in [Providers -> GeocodeRow \cup {Nil}]
    BY <1>t, <2>1
  <2> QED
    BY <2>1, <2>2, <2>5, <2>6, MoveKeeps DEF w
<1>10. CASE Geocodes!verify_address(r)
  <2> DEFINE v1 == [w EXCEPT !.pc = "done"]
             v2(s) == [w EXCEPT !.pc = "done", !.told = <<s>>, !.answer = "ok"]
  <2>1. /\ w.pc = "idle" /\ KindOf[r] = "verify" /\ UNCHANGED <<Geocodes!setting, cached, draft>>
        /\ \/ Geocodes!Move(r, v1)
           \/ \E s \in Geocodes!prefix_search : Geocodes!Move(r, v2(s))
    BY <1>10 DEF Geocodes!verify_address
  <2>2. \A s \in Geocodes!prefix_search : s \in Heard /\ s.result.inside
    <3> SUFFICES ASSUME NEW s \in Geocodes!prefix_search PROVE s \in Heard /\ s.result.inside
      OBVIOUS
    <3>1. PICK p \in Providers : /\ cached[p] # Nil /\ cached[p].linked
                                 /\ s = Geocodes!Of(p, cached[p].result)
      BY DEF Geocodes!prefix_search
    <3>2. cached[p] \in GeocodeRow
      BY <1>t, <3>1
    <3>3. cached[p].result \in Answers /\ cached[p].result.inside
      BY <3>1, <3>2 DEF GeocodeRow
    <3> QED
      BY <3>1, <3>3 DEF Geocodes!Of, Heard
  <2>3. w.told = <<>>
    <3>1. w = Geocodes!Fresh
      BY <1>t, <2>1 DEF Sound
    <3> QED
      BY <3>1 DEF Geocodes!Fresh
  <2> HIDE DEF w
  <2>4. CASE Geocodes!Move(r, v1)
    <3>1. /\ v1 \in GeocodeRequest /\ v1.pc = "done" /\ v1.asked = w.asked /\ v1.told = <<>>
      BY <1>t, <2>3 DEF GeocodeRequest
    <3> HIDE DEF v1
    <3>i. Inside(v1.told)
      BY <3>1 DEF Inside
    <3>2. Sound(r, v1) /\ Same(v1)
      BY <1>t, <2>1, <3>1, <3>i DEF Sound, OnPath, Over, HasAsked
    <3> QED
      BY <1>m, <2>1, <2>4, <3>2
  <2>5. ASSUME NEW s \in Geocodes!prefix_search, Geocodes!Move(r, v2(s)) PROVE GeocodesInv'
    <3> DEFINE told == <<s>>
               v == [w EXCEPT !.pc = "done", !.told = told, !.answer = "ok"]
    <3>1. told \in Seq(Heard) /\ Inside(told) /\ Geocodes!Move(r, v)
      BY <2>2, <2>5 DEF Inside
    <3> HIDE DEF told
    <3>2. /\ v \in GeocodeRequest /\ v.pc = "done" /\ v.asked = w.asked /\ v.told = told
      BY <1>t, <3>1 DEF GeocodeRequest
    <3> HIDE DEF v
    <3>3. Sound(r, v) /\ Same(v)
      BY <1>t, <2>1, <3>1, <3>2 DEF Sound, OnPath, Over, HasAsked
    <3> QED
      BY <1>m, <2>1, <3>1, <3>3
  <2> QED
    BY <2>1, <2>4, <2>5
<1> QED
  BY <1>1, <1>n, <1>2, <1>3, <1>4, <1>5, <1>6, <1>7, <1>8, <1>9, <1>10
-----------------------------------------------------------------------------
(* What a request that has ended told, and what it had heard and asked.    *)
LEMMA GeocodesServe ==
  ASSUME GeocodesInv
  PROVE  Geocodes!ServedInGeorgia /\ Geocodes!BestIsTold
<1>1. ASSUME NEW r \in Requests, KindOf[r] # "batch", NEW t \in Geocodes!Told(r)
      PROVE  t.result.inside
  <2>1. Sound(r, req[r]) /\ req[r] \in GeocodeRequest
    BY DEF GeocodesInv, Sound
  <2>2. Inside(req[r].told)
    <3>1. CASE req[r].pc = "idle"
      <4>1. req[r] = Geocodes!Fresh
        BY <2>1, <3>1 DEF Sound
      <4> QED
        BY <4>1 DEF Geocodes!Fresh, Inside
    <3>2. CASE req[r].pc \in {"looking", "asking", "storing"}
      <4>1. req[r].told = <<>>
        BY <2>1, <3>2 DEF Sound, Going
      <4> QED
        BY <4>1 DEF Inside
    <3>3. CASE req[r].pc \in {"commit", "done"}
      BY <1>1, <2>1, <3>3 DEF Sound, Over
    <3> QED
      BY <2>1, <3>1, <3>2, <3>3 DEF GeocodeRequest
  <2>3. req[r].told \in Seq(Heard)
    BY <2>1 DEF GeocodeRequest
  <2> QED
    BY <1>1, <2>2, <2>3 DEF Inside, Geocodes!Told
<1>2. ASSUME NEW r \in Requests, KindOf[r] = "batch", Geocodes!Ended(r),
             req[r].answer # "aborted"
      PROVE  /\ \A t \in Geocodes!Told(r), i \in DOMAIN req[r].heard :
                  ~Geocodes!Better(req[r].heard[i].result, t.result)
             /\ req[r].heard # <<>> => req[r].told # <<>>
             /\ \A i, k \in DOMAIN req[r].asked : i # k => req[r].asked[i] # req[r].asked[k]
             /\ req[r].answer = "none" => Len(req[r].asked) = Len(Geocodes!Path(r))
  <2> DEFINE w == req[r]
  <2>1. w \in GeocodeRequest /\ OnPath(r, w) /\ Over(r, w)
    BY <1>2 DEF GeocodesInv, Sound, Geocodes!Ended
  <2>2. /\ Path(r) \in Seq(Providers) /\ Distinct(Path(r))
        /\ Path(r) = Geocodes!Path(r)
    BY <1>2, PathIs DEF GeocodesInv, Path
  <2>3. /\ w.told \in Seq(Heard) /\ w.heard \in Seq(Heard) /\ w.asked \in Seq(Providers)
    BY <2>1 DEF GeocodeRequest
  <2>4. Geocodes!Told(r) = {w.told[i] : i \in DOMAIN w.told}
    BY DEF Geocodes!Told
  <2>5. w.answer # "aborted"
    BY <1>2
  <2> HIDE DEF w
  <2>6. \A i, k \in 1..Len(w.asked) : i # k => w.asked[i] # w.asked[k]
    <3>1. \A i \in 1..Len(w.asked) : i \in 1..Len(Path(r)) /\ w.asked[i] = Path(r)[i]
      BY <2>1, <2>2, <2>3 DEF OnPath
    <3> QED
      BY <2>2, <3>1 DEF Distinct
  <2>7. /\ \A t \in 1..Len(w.told), i \in 1..Len(w.heard) :
             ~Geocodes!Better(w.heard[i].result, w.told[t].result)
        /\ w.heard # <<>> => w.told # <<>>
        /\ w.answer = "none" => Len(w.asked) = Len(Path(r))
    BY <1>2, <2>1, <2>5 DEF Over
  <2>8. \A t \in Geocodes!Told(r), i \in DOMAIN w.heard :
          ~Geocodes!Better(w.heard[i].result, t.result)
    <3>1. \A t \in Geocodes!Told(r) : \E i \in 1..Len(w.told) : t = w.told[i]
      BY <2>3, <2>4
    <3>2. DOMAIN w.heard = 1..Len(w.heard)
      BY <2>3
    <3> QED
      BY <2>7, <3>1, <3>2
  <2>9. \A i, k \in DOMAIN w.asked : i # k => w.asked[i] # w.asked[k]
    BY <2>3, <2>6
  <2> QED
    BY <2>2, <2>7, <2>8, <2>9 DEF w
<1> QED
  BY <1>1, <1>2 DEF Geocodes!ServedInGeorgia, Geocodes!BestIsTold

(* A batch that begins where the order begins goes through the providers   *)
(* in their order, as every request does that has more than one.           *)
LEMMA PathInOrder ==
  ASSUME order \in Orders, NEW r \in Requests, KindOf[r] # "single",
         KindOf[r] = "batch" => r \in fallback /\ P # <<>> /\ PrimaryOf[r] = Head(P)
  PROVE  IsPart(Path(r), P, 1..Len(P))
<1>1. P \in Seq(Providers) /\ Distinct(P) /\ Len(P) \in Nat
  BY ConfiguredAre
<1>2. CASE KindOf[r] # "batch"
  <2>1. Path(r) = P
    BY <1>2 DEF Path, Geocodes!Path, P
  <2> DEFINE h == [k \in 1..Len(P) |-> k]
  <2>2. h \in [1..Len(P) -> 1..Len(P)] /\ \A k \in 1..Len(P) : h[k] = k
    OBVIOUS
  <2> HIDE DEF h
  <2> QED
    BY <2>1, <2>2 DEF IsPart
<1>3. CASE KindOf[r] = "batch"
  <2> DEFINE rest == Geocodes!Remaining(r)
             I == {i \in DOMAIN P : P[i] # PrimaryOf[r]}
  <2>1. P # <<>> /\ PrimaryOf[r] = P[1] /\ 1 \in 1..Len(P)
    BY <1>1, <1>3, EmptySeq
  <2>2. I \in SUBSET (2..Len(P)) /\ I \in SUBSET (1..Len(P))
    BY <1>1, <2>1
  <2>4. Path(r) = <<P[1]>> \o rest
    BY <1>3, <2>1 DEF Path, Geocodes!Path
  <2>5. rest \in Seq(Providers) /\ IsPart(rest, P, I)
    BY RemainingAre
  <2> HIDE DEF I, rest
  <2>6. PICK h \in [1..Len(rest) -> I] :
          /\ \A k \in 1..Len(rest) : rest[k] = P[h[k]]
          /\ \A k, m \in 1..Len(rest) : k < m => h[k] < h[m]
    BY <2>5 DEF IsPart
  <2> DEFINE n == Len(rest)
             g == [k \in 1..(n + 1) |-> IF k = 1 THEN 1 ELSE h[k - 1]]
  <2>7. n \in Nat /\ P[1] \in Providers
    BY <1>1, <2>1, <2>5
  <2>8. /\ Len(Path(r)) = n + 1 /\ Path(r)[1] = P[1]
        /\ \A k \in 2..(n + 1) : Path(r)[k] = rest[k - 1]
    BY <2>4, <2>5, <2>7
  <2>9. \A k \in 2..(n + 1) : k - 1 \in 1..n /\ h[k - 1] \in 2..Len(P) /\ h[k - 1] \in 1..Len(P)
    <3>1. \A k \in 1..n : h[k] \in I
      BY <2>6
    <3>2. \A k \in 2..(n + 1) : k - 1 \in 1..n
      BY <2>7
    <3> QED
      BY <2>2, <3>1, <3>2
  <2>10. /\ g \in [1..(n + 1) -> 1..Len(P)] /\ g[1] = 1
         /\ \A k \in 2..(n + 1) : g[k] = h[k - 1]
    <3>1. \A k \in 1..(n + 1) : k = 1 \/ k \in 2..(n + 1)
      BY <2>7
    <3> QED
      BY <2>1, <2>7, <2>9, <3>1
  <2> HIDE DEF g, n
  <2>11. \A k \in 1..(n + 1) : Path(r)[k] = P[g[k]]
    <3>1. \A k \in 1..(n + 1) : k = 1 \/ k \in 2..(n + 1)
      BY <2>7
    <3>2. \A k \in 2..(n + 1) : rest[k - 1] = P[h[k - 1]]
      BY <2>6, <2>9 DEF n
    <3> QED
      BY <2>8, <2>10, <3>1, <3>2
  <2>12. ASSUME NEW k \in 1..(n + 1), NEW m \in 1..(n + 1), k < m PROVE g[k] < g[m]
    <3>1. m \in 2..(n + 1) /\ g[m] = h[m - 1] /\ g[m] \in 2..Len(P)
      BY <2>7, <2>9, <2>10, <2>12
    <3>2. CASE k = 1
      BY <1>1, <2>10, <3>1, <3>2
    <3>3. CASE k # 1
      <4>1. k \in 2..(n + 1) /\ k - 1 \in 1..n /\ m - 1 \in 1..n /\ k - 1 < m - 1
        BY <2>7, <2>12, <3>1, <3>3
      <4> QED
        BY <2>6, <2>10, <3>1, <4>1 DEF n
    <3> QED
      BY <3>2, <3>3
  <2> QED
    BY <2>8, <2>10, <2>11, <2>12 DEF IsPart
<1> QED
  BY <1>2, <1>3

(* The members of a cycle wait at providers of their paths, and one of     *)
(* them at the last: who holds that row has passed it.                     *)
LEMMA GeocodesAreOrdered == GeocodesInv => Geocodes!OneOrder
<1> SUFFICES ASSUME GeocodesInv, NEW S \in (SUBSET Requests) \ {{}}, Geocodes!Cycle(S),
                    \A r \in S : ~Geocodes!OutOfOrder(r)
             PROVE  FALSE
  BY DEF Geocodes!OneOrder
<1>s. S \subseteq Requests /\ \E r : r \in S
  <2>1. S # {}
    OBVIOUS
  <2> QED
    BY <2>1
<1>1. order \in Orders /\ P \in Seq(Providers) /\ Distinct(P) /\ Len(P) \in Nat
  BY ConfiguredAre DEF GeocodesInv
<1> DEFINE Here(r) == Path(r)[Len(req[r].asked) + 1]
<1>2. ASSUME NEW r \in S
      PROVE  /\ req[r].asked \in Seq(Providers)
             /\ Len(req[r].asked) + 1 \in 1..Len(Path(r))
             /\ Geocodes!Current(r) = Here(r)
             /\ \A i \in 1..Len(req[r].asked) : req[r].asked[i] = Path(r)[i]
             /\ Geocodes!Current(r) \in Providers
             /\ Len(Path(r)) = 1 => req[r].asked = <<>>
  <2> DEFINE w == req[r]
  <2>1. w.pc = "storing" /\ r \in Requests
    BY <1>2 DEF Geocodes!Cycle, Geocodes!Waits
  <2>2. w \in GeocodeRequest /\ OnPath(r, w) /\ Going(r, w)
    BY <2>1 DEF GeocodesInv, Sound
  <2>3. Path(r) \in Seq(Providers)
    BY <1>1, <2>1, PathIs
  <2>4. Geocodes!Current(r) = Head(w.todo)
    BY DEF Geocodes!Current
  <2> HIDE DEF w
  <2>5. /\ w.asked \in Seq(Providers) /\ w.todo \in Seq(Providers)
        /\ Len(w.asked) \in Nat /\ Len(w.todo) \in Nat /\ Len(Path(r)) \in Nat
    BY <2>2, <2>3 DEF GeocodeRequest
  <2>6. Len(w.todo) # 0 /\ Len(w.todo) = Len(Path(r)) - Len(w.asked)
    BY <2>2 DEF Going
  <2>7. 1 \in 1..Len(w.todo) /\ Len(w.asked) + 1 \in 1..Len(Path(r))
    BY <2>5, <2>6
  <2>8. Head(w.todo) = w.todo[1] /\ w.todo[1] = Path(r)[Len(w.asked) + 1]
    <3>1. w.todo[1] = Path(r)[Len(w.asked) + 1]
      BY <2>2, <2>7 DEF Going
    <3> QED
      BY <2>5, <3>1
  <2>9. w.todo[1] \in Providers
    BY <2>5, <2>7
  <2>10. Len(Path(r)) = 1 => w.asked = <<>>
    BY <2>5, <2>7, EmptySeq
  <2>11. \A i \in 1..Len(w.asked) : w.asked[i] = Path(r)[i]
    BY <2>2 DEF OnPath
  <2> QED
    BY <2>4, <2>5, <2>7, <2>8, <2>9, <2>10, <2>11 DEF w
<1>4. ASSUME NEW r \in S
      PROVE  /\ KindOf[r] # "single" /\ IsPart(Path(r), P, 1..Len(P))
             /\ \A p \in Providers : draft[r][p] # Nil => HasAsked(req[r], p)
  <2>1. PICK q \in S : r \in Geocodes!Waits(q)
    BY <1>4 DEF Geocodes!Cycle
  <2> DEFINE p == Geocodes!Current(q)
  <2>2. draft[r][p] # Nil /\ r \in Requests
    BY <2>1 DEF Geocodes!Waits
  <2>3. OfPath(r, p) /\ ~Asking(req[r], p) /\ p \in Providers
    BY <1>2, <2>2 DEF GeocodesInv
  <2>4. req[r].pc = "storing" /\ Head(req[r].todo) # p
    BY <2>3, <1>4 DEF Geocodes!Cycle, Geocodes!Waits, Asking
  <2>5. Len(Path(r)) # 1
    <3>1. SUFFICES ASSUME Len(Path(r)) = 1 PROVE FALSE
      OBVIOUS
    <3>2. p = Path(r)[1]
      BY <2>3, <3>1 DEF OfPath
    <3>3. Geocodes!Current(r) = Path(r)[1]
      BY <1>2, <1>4, <3>1
    <3> QED
      BY <2>4, <3>2, <3>3 DEF Geocodes!Current
  <2>6. KindOf[r] # "single" /\ (KindOf[r] = "batch" => r \in fallback)
    BY <1>1, <2>2, <2>5, PathIs
  <2>7. KindOf[r] = "batch" => P # <<>> /\ PrimaryOf[r] = Head(P) /\ ~(turn[r] > 1)
    BY <1>4, <2>6 DEF Geocodes!OutOfOrder, P
  <2>8. turn[r] = 1
    <3>1. CASE KindOf[r] = "batch"
      <4>1. turn[r] \in Nat \ {0}
        BY <2>2 DEF GeocodesInv
      <4> QED
        BY <2>7, <3>1, <4>1
    <3>2. CASE KindOf[r] # "batch"
      BY <2>2, <3>2 DEF GeocodesInv
    <3> QED
      BY <3>1, <3>2
  <2>9. \A n \in Providers : draft[r][n] # Nil => HasAsked(req[r], n)
    BY <2>2, <2>8 DEF GeocodesInv
  <2> QED
    BY <1>1, <2>2, <2>6, <2>7, <2>9, PathInOrder
<1>3. ASSUME NEW r \in S
      PROVE  \E q \in S \ {r} : /\ draft[q][Geocodes!Current(r)] # Nil
                                /\ HasAsked(req[q], Geocodes!Current(r))
  <2>1. PICK q \in S : q \in Geocodes!Waits(r)
    BY <1>3 DEF Geocodes!Cycle
  <2>2. q # r /\ draft[q][Geocodes!Current(r)] # Nil
    BY <2>1 DEF Geocodes!Waits
  <2>3. Geocodes!Current(r) \in Providers
    BY <1>2, <1>3
  <2> QED
    BY <1>4, <2>1, <2>2, <2>3
<1>5. ASSUME NEW r \in S PROVE \E k \in 1..Len(P) : P[k] = Geocodes!Current(r)
  <2>1. PICK h \in [1..Len(Path(r)) -> 1..Len(P)] : \A n \in 1..Len(Path(r)) : Path(r)[n] = P[h[n]]
    BY <1>4, <1>5 DEF IsPart
  <2> DEFINE n == Len(req[r].asked) + 1
  <2>2. n \in 1..Len(Path(r)) /\ Path(r)[n] = Geocodes!Current(r)
    BY <1>2, <1>5
  <2> HIDE DEF n
  <2> QED
    BY <2>1, <2>2
<1> DEFINE back == {Len(P) - k : k \in {m \in 1..Len(P) : \E r \in S : P[m] = Geocodes!Current(r)}}
<1>6. back \in SUBSET Nat /\ back # {}
  <2>1. \A k \in 1..Len(P) : Len(P) - k \in Nat
    BY <1>1
  <2>2. PICK r : r \in S
    BY <1>s
  <2>3. PICK k \in 1..Len(P) : P[k] = Geocodes!Current(r)
    BY <1>5, <2>2
  <2>4. Len(P) - k \in back
    BY <2>2, <2>3
  <2> QED
    BY <2>1, <2>4
<1>7. PICK x \in back : \A y \in back : x =< y
  <2> HIDE DEF back
  <2> QED
    BY <1>6, LeastNatural
<1>8. PICK k \in 1..Len(P), r \in S : P[k] = Geocodes!Current(r) /\ x = Len(P) - k
  BY <1>7
<1>9. PICK q \in S : HasAsked(req[q], Geocodes!Current(r))
  BY <1>3
<1>10. PICK i \in 1..Len(req[q].asked) : req[q].asked[i] = Geocodes!Current(r)
  BY <1>9 DEF HasAsked
<1>11. PICK h \in [1..Len(Path(q)) -> 1..Len(P)] :
         /\ \A n \in 1..Len(Path(q)) : Path(q)[n] = P[h[n]]
         /\ \A n, m \in 1..Len(Path(q)) : n < m => h[n] < h[m]
  BY <1>4 DEF IsPart
<1> DEFINE j == Len(req[q].asked) + 1
<1>12. i \in 1..Len(Path(q)) /\ j \in 1..Len(Path(q)) /\ i < j
  BY <1>2, <1>10
<1>13. Path(q)[i] = P[k] /\ Path(q)[j] = Geocodes!Current(q)
  BY <1>2, <1>8, <1>10
<1> HIDE DEF j
<1>14. /\ P[h[i]] = P[k] /\ P[h[j]] = Geocodes!Current(q) /\ h[i] < h[j]
       /\ h[i] \in 1..Len(P) /\ h[j] \in 1..Len(P)
  BY <1>11, <1>12, <1>13
<1>15. h[i] = k
  BY <1>1, <1>14 DEF Distinct
<1>16. Len(P) - h[j] \in back
  BY <1>14
<1> HIDE DEF back
<1>17. Len(P) - k =< Len(P) - h[j]
  BY <1>7, <1>8, <1>16
<1> QED
  BY <1>1, <1>14, <1>15, <1>17
-----------------------------------------------------------------------------
(* The three parts of the publishing's invariant hold together, and they   *)
(* give what it promises.                                                  *)
PublishingInv == DatasetTypes /\ SafeInv /\ DescribeInv

LEMMA PublishingStart == NilAssumption /\ Datasets!Init => PublishingInv
  BY DatasetTypesInit, SafeInit, DescribeInit DEF PublishingInv

LEMMA PublishingStep ==
  ASSUME NilAssumption, PublishingInv, [Datasets!Next]_datasets
  PROVE  PublishingInv'
<1>a. Datasets!PublishingAssumption
  BY GivenAssumption
<1>1. DatasetTypes'
  BY <1>a, DatasetTypesNext DEF PublishingInv
<1>2. SafeInv'
  BY <1>a, <1>1, SafeNext DEF PublishingInv
<1>3. DescribeInv'
  BY <1>a, DescribeNext DEF PublishingInv
<1> QED
  BY <1>1, <1>2, <1>3 DEF PublishingInv

LEMMA ManifestsAreKept == PublishingInv => Datasets!PublishedHold
<1> USE GivenAssumption
<1>1. PublishingInv => Datasets!RedirectIsAnswer
  <2> SUFFICES ASSUME DatasetTypes, SafeInv,
                      NEW type \in Datasets!Types \cup {Nil},
                      NEW place \in Datasets!Places \cup {Nil}, NEW name,
                      name = Datasets!Redirect(cache.data, type, place), name # Nil
               PROVE  {cell[1] : cell \in store[name]}
                        \subseteq {cell[1] : cell \in Datasets!Answer(type, place)}
    BY DEF Datasets!RedirectIsAnswer, PublishingInv
  <2>1. /\ name = IF type = Nil THEN Combined ELSE type
        /\ cache.data # Nil /\ place = Nil /\ name \in DOMAIN cache.data
    BY DEF Datasets!Redirect
  <2>2. name \in DOMAIN store
    BY <2>1 DEF SafeInv, Datasets!FilesExist
  <2>3. GoodFile(name, store[name])
    BY <2>2 DEF SafeInv, FilesInv
  <2>4. ASSUME NEW cell \in store[name]
        PROVE  \E x \in Datasets!Answer(type, place) : x[1] = cell[1]
    <3>1. cell[1] \in Boundaries /\ table[cell[1]] > 0 /\ (type = Nil \/ TypeOf[cell[1]] = type)
      BY <2>1, <2>3 DEF GoodFile, Known, Datasets!PublishingAssumption, Datasets!Types
    <3> DEFINE for == {b \in Boundaries :
                         (type = Nil \/ TypeOf[b] = type) /\ (place = Nil \/ PlaceOf[b] = place)}
    <3>2. cell[1] \in for /\ for \in SUBSET Boundaries
      BY <2>1, <3>1
    <3>3. Datasets!Answer(type, place) = Datasets!Rows(for)
      BY DEF Datasets!Answer
    <3> HIDE DEF for
    <3> QED
      BY <3>1, <3>2, <3>3, RowsAre
  <2> QED
    BY <2>4
<1>2. DescribeInv => Datasets!ManifestDescribes
  <2> SUFFICES ASSUME DescribeInv, torn = "no", \A c \in Commands : ~Datasets!Running(c)
               PROVE  manifest = IF store = Datasets!Empty THEN Nil ELSE store
    BY DEF Datasets!ManifestDescribes
  <2> QED
    BY DEF DescribeInv, InStep, Listed
<1> QED
  BY <1>1, <1>2 DEF PublishingInv, Datasets!PublishedHold, SafeInv

LEMMA GeocodesStay == GeocodesInv /\ UNCHANGED geocodes => GeocodesInv'
<1> SUFFICES ASSUME GeocodesInv, UNCHANGED <<order, fallback, turn, cached, draft, req>>
             PROVE  GeocodesInv'
  BY DEF geocodes
<1>1. ASSUME NEW r \in Requests PROVE Sound(r, req[r])'
  BY SoundStays DEF GeocodesInv
<1>2. \A r \in Requests : Path(r)' = Path(r)
  BY PathStays
<1>3. \A r \in Requests, p \in Providers :
        /\ OfPath(r, p)' <=> OfPath(r, p)
        /\ Asking(req[r], p)' <=> Asking(req[r], p)
        /\ HasAsked(req[r], p)' <=> HasAsked(req[r], p)
  BY <1>2 DEF HasAsked, OfPath, Asking
<1> QED
  BY <1>1, <1>3 DEF GeocodesInv

-----------------------------------------------------------------------------
(* Whatever boundary imports, publish commands, readers, restarts and      *)
(* losses do to each other: a manifest that is up or cached names files    *)
(* that are there, a redirected reader gets boundaries the database has    *)
(* for him, and unless commands overlapped or broke off the manifest       *)
(* describes every file (services/publish_service.py, lib/publisher). An   *)
(* export that can be downloaded is whole, and shows what its query would  *)
(* have read at one moment since the job was asked for                     *)
(* (services/export_service.py).                                           *)
THEOREM PublishedAlwaysHold ==
  ASSUME NilAssumption
  PROVE  AnswersSpec => []PublishedHold
<1> DEFINE Inv == /\ part = "datasets" => PublishingInv
                  /\ part = "files" => ExportsInv
<1>1. AnswersInit => Inv
  BY PublishingStart, ExportsInit DEF AnswersInit
<1>2. Inv /\ [AnswersNext]_<<part, vars, given>> => Inv'
  <2> SUFFICES ASSUME Inv, [AnswersNext]_<<part, vars, given>> PROVE Inv'
    OBVIOUS
  <2>1. part' = part
    BY DEF AnswersNext
  <2>2. CASE part = "datasets"
    <3>1. [Datasets!Next]_datasets
      BY <2>2 DEF AnswersNext, given
    <3> QED
      BY <2>1, <2>2, <3>1, PublishingStep
  <2>3. CASE part = "files"
    <3>1. [Files!Next]_exports
      BY <2>3 DEF AnswersNext, given
    <3> QED
      BY <2>1, <2>3, <3>1, ExportsNext
  <2> QED
    BY <2>1, <2>2, <2>3
<1>3. Inv => PublishedHold
  BY ManifestsAreKept, ExportsAre DEF PublishedHold
<1> QED
  BY <1>1, <1>2, <1>3, PTL DEF AnswersSpec

(* What is given out agrees with the rows it was read from. Geocodes: what *)
(* the public endpoints tell lies in Georgia, a batch voter is told the    *)
(* best that was heard, and requests that lock each other out have a batch *)
(* among them that falls back from another provider than the first, or is  *)
(* at a later voter of the address (services/geocoding_service.py).        *)
(* Elections: an answer kept for a day has the results of a finalization   *)
(* that was there when it was begun, its counties are not behind its       *)
(* statewide numbers, and the categories offered are those whose lists are *)
(* not empty (api/v1/elections.py, services/election_service.py). Maps: no *)
(* vote for a precinct on record is lost or counted twice, and ids come    *)
(* before names (services/precinct_metadata_service.py).                   *)
THEOREM AnswersAlwaysHold == AnswersSpec => []AnswersHold
<1> DEFINE Inv == /\ part = "geocodes" => GeocodesInv
                  /\ part = "results" => ElectionsInv
                  /\ part = "maps" => MapsInv
<1>1. AnswersInit => Inv
  BY GeocodesStart, ElectionsInit, MapsInit DEF AnswersInit
<1>2. Inv /\ [AnswersNext]_<<part, vars, given>> => Inv'
  <2> SUFFICES ASSUME Inv, [AnswersNext]_<<part, vars, given>> PROVE Inv'
    OBVIOUS
  <2>1. part' = part
    BY DEF AnswersNext
  <2>2. CASE part = "geocodes"
    <3>1. Geocodes!Next \/ UNCHANGED geocodes
      BY <2>2 DEF AnswersNext, given
    <3> QED
      BY <2>1, <2>2, <3>1, GeocodesStep, GeocodesStay
  <2>3. CASE part = "results"
    <3>1. [Results!Next]_ballots
      BY <2>3 DEF AnswersNext, given
    <3> QED
      BY <2>1, <2>3, <3>1, ElectionsNext
  <2>4. CASE part = "maps"
    <3>1. [Maps!Next]_maps
      BY <2>4 DEF AnswersNext, given
    <3> QED
      BY <2>1, <2>4, <3>1, MapsNext
  <2> QED
    BY <2>1, <2>2, <2>3, <2>4
<1>3. Inv => AnswersHold
  <2>1. GeocodesInv => Geocodes!GeocodesHold
    BY GeocodesServe, GeocodesAreOrdered DEF Geocodes!GeocodesHold
  <2>2. MapsInv => Maps!MapsHold
    BY DEF MapsInv
  <2> QED
    BY <2>1, <2>2, ElectionsAre, GivenAssumption DEF AnswersHold
<1> QED
  BY <1>1, <1>2, <1>3, PTL DEF AnswersSpec
================================================================================
