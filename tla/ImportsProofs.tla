----------------------------- MODULE ImportsProofs -----------------------------
(***************************************************************************)
(* For any files, and any number of imports at once: what the tables hold  *)
(* after absentee ballots, candidates, boundaries and voter history were   *)
(* imported.                                                               *)
(***************************************************************************)
EXTENDS ImportedRecords, FiniteSetTheorems, SequenceTheorems, WellFoundedInduction, TLAPS

(* A set of natural numbers that is not empty has a least element.         *)
LEMMA LeastNatural ==
  ASSUME NEW S \in SUBSET Nat, S # {}
  PROVE  \E x \in S : \A y \in S : x =< y
<1>1. \E x \in S : \A y \in S : ~(<<y, x>> \in OpToRel(<, Nat))
  BY NatLessThanWellFounded, WFMin, Zenon
<1>2. \A x, y \in Nat : <<y, x>> \in OpToRel(<, Nat) <=> y < x
  BY DEF OpToRel
<1>3. \E x \in S : \A y \in S : ~(y < x)
  BY <1>1, <1>2, Zenon
<1> QED
  BY <1>3

(* And one that is bounded, a greatest.                                    *)
LEMMA GreatestNatural ==
  ASSUME NEW S \in SUBSET Nat, S # {}, NEW b \in Nat, \A x \in S : x =< b
  PROVE  \E x \in S : \A y \in S : y =< x
<1> DEFINE T == {b - x : x \in S}
<1>1. T \in SUBSET Nat /\ T # {}
  <2>1. \A x \in S : b - x \in Nat
    OBVIOUS
  <2> QED
    BY <2>1
<1> HIDE DEF T
<1>2. PICK t \in T : \A y \in T : t =< y
  BY <1>1, LeastNatural
<1>3. PICK x \in S : t = b - x
  BY <1>2 DEF T
<1>4. ASSUME NEW y \in S PROVE y =< x
  <2>1. b - y \in T
    BY DEF T
  <2> QED
    BY <2>1, <1>2, <1>3
<1> QED
  BY <1>4

-----------------------------------------------------------------------------
(* Absentee ballots.                                                       *)
BallotStatus == {Nil, "running", "completed", "failed"}
BallotJob ==
  [status : BallotStatus, file : BallotFiles \cup {<<>>}, offset : Nat, at : Nat, fresh : Nat,
   changed : Nat, invalid : Nat, inserted : Nat \cup {Nil}, updated : Nat \cup {Nil},
   failed : Nat \cup {Nil}]

BallotTypes ==
  /\ DOMAIN ballot \subseteq 1..MaxBallots
  /\ DOMAIN entered = Intakes /\ \A i \in Intakes : DOMAIN entered[i] \subseteq 1..MaxBallots
  /\ intake \in [Intakes -> BallotJob]
  /\ \A i \in Intakes : /\ intake[i].status # Nil => intake[i].file \in BallotFiles
                        /\ intake[i].offset =< Len(intake[i].file)
                        /\ intake[i].status = Nil => intake[i].offset = 0

(* An import that is in a chunk.                                           *)
InChunk(i) == Absentee!Running(i) /\ Absentee!Unread(i)
Says(r, c) == r.key = c.key /\ r.dated = c.dated /\ r.data = c.data

(* No two rows of one key, committed or not, whoever wrote them.           *)
OneKey ==
  /\ \A m, n \in DOMAIN ballot : Absentee!SameKey(ballot[m], ballot[n]) => m = n
  /\ \A i \in Intakes :
       /\ \A m, n \in DOMAIN entered[i] :
            Absentee!SameKey(entered[i][m], entered[i][n]) => m = n
       /\ \A m \in DOMAIN entered[i], n \in DOMAIN ballot :
            Absentee!SameKey(entered[i][m], ballot[n]) => m = n
       /\ \A n \in DOMAIN entered[i] :
            n \in DOMAIN ballot => /\ ballot[n].dated /\ entered[i][n].dated
                                   /\ ballot[n].key = entered[i][n].key
  /\ \A i, j \in Intakes : i # j =>
       /\ \A n \in DOMAIN entered[i] : n \notin DOMAIN entered[j]
       /\ \A m \in DOMAIN entered[i], n \in DOMAIN entered[j] :
            ~Absentee!SameKey(entered[i][m], entered[j][n])

(* What an import has written is what the records of its chunk up to its   *)
(* place say, the last of each key.                                        *)
SaidBy(i, n) ==
  \E k \in Absentee!Valid(Absentee!Chunk(i)) :
    k < intake[i].at /\ Says(entered[i][n], Absentee!Chunk(i)[k])
SaidAgain(i, k) ==
  \E m \in Absentee!Dated(Absentee!Chunk(i)) :
    k < m /\ m < intake[i].at /\ Absentee!Chunk(i)[m].key = Absentee!Chunk(i)[k].key
WrittenAs(i, k) ==
  \E n \in DOMAIN entered[i] :
    /\ entered[i][n].key = Absentee!Chunk(i)[k].key
    /\ entered[i][n].dated = Absentee!Chunk(i)[k].dated
    /\ Absentee!Chunk(i)[k].dated =>
         entered[i][n].data = Absentee!Chunk(i)[k].data \/ SaidAgain(i, k)
EntriesOf(i) ==
  /\ \A n \in DOMAIN entered[i] : InChunk(i) /\ entered[i][n].of = i /\ SaidBy(i, n)
  /\ InChunk(i) =>
       \A k \in Absentee!Valid(Absentee!Chunk(i)) : k < intake[i].at => WrittenAs(i, k)
Entries == \A i \in Intakes : EntriesOf(i)

(* What an import has counted, of the chunks before and of the one it is in. *)
Counted(i) ==
  Cardinality(Absentee!Places(intake[i].file, intake[i].offset))
    + IF Absentee!Unread(i)
      THEN Cardinality({k \in Absentee!Valid(Absentee!Chunk(i)) : k < intake[i].at}) ELSE 0
CountsKept ==
  \A i \in Intakes :
    /\ Absentee!Running(i) =>
         intake[i].fresh + intake[i].changed + intake[i].invalid = Counted(i)
    /\ intake[i].status = "completed" =>
         intake[i].inserted \in Nat /\ intake[i].updated \in Nat /\ intake[i].failed \in Nat

LatestThere ==
  \A k \in DOMAIN latest : \E n \in DOMAIN ballot :
    ballot[n].dated /\ ballot[n].key = k /\ ballot[n].data = latest[k]
TotalThere ==
  /\ stats \in [total : Nat \cup {Nil}, counties : Nat \cup {Nil}]
  /\ stats.total # Nil => stats.total =< Cardinality(DOMAIN ballot)
  /\ stats.counties # Nil => stats.total # Nil

BallotsInv ==
  /\ BallotTypes /\ OneKey /\ Entries /\ CountsKept /\ LatestThere /\ TotalThere
  /\ Absentee!AbsenteeHold

(* What the assumption says of the files and of records.                    *)
LEMMA BallotFacts ==
  /\ Statement \in Nat \ {0} /\ MaxBallots \in Nat /\ Nil \notin {"running", "completed", "failed"}
  /\ BallotFiles \subseteq Seq(Seq(Applications))
  /\ \A r \in Applications : {r.dated, r.ok} \subseteq BOOLEAN
BY ImportsAssumption DEF Absentee!AbsenteeAssumption

(* The instance's cardinality is that of the library.                       *)
LEMMA BallotCards == \A S : Absentee!Cardinality(S) = Cardinality(S)
BY DEF Absentee!Cardinality, Cardinality, Absentee!IsFiniteSet, IsFiniteSet

(* Over(f, g) is f where f has a value, and g elsewhere.                    *)
LEMMA BallotOver ==
  ASSUME NEW f, NEW g
  PROVE  /\ DOMAIN Absentee!Over(f, g) = DOMAIN f \cup DOMAIN g
         /\ \A x \in DOMAIN f : Absentee!Over(f, g)[x] = f[x]
         /\ \A x \in DOMAIN g : x \notin DOMAIN f => Absentee!Over(f, g)[x] = g[x]
BY DEF Absentee!Over

(* What the chunk in hand is.                                              *)
LEMMA ChunkIs ==
  ASSUME BallotTypes, NEW i \in Intakes, InChunk(i)
  PROVE  /\ intake[i].file \in BallotFiles /\ intake[i].file \in Seq(Seq(Applications))
         /\ intake[i].offset \in Nat /\ intake[i].offset + 1 \in 1..Len(intake[i].file)
         /\ Absentee!Chunk(i) = intake[i].file[intake[i].offset + 1]
         /\ Absentee!Chunk(i) \in Seq(Applications)
         /\ \A k \in DOMAIN Absentee!Chunk(i) :
              {Absentee!Chunk(i)[k].dated, Absentee!Chunk(i)[k].ok} \subseteq BOOLEAN
<1>1. intake[i] \in BallotJob /\ intake[i].status = "running"
  BY DEF BallotTypes, InChunk, Absentee!Running
<1>2. intake[i].file \in BallotFiles
  BY <1>1, BallotFacts DEF BallotTypes
<1>3. intake[i].file \in Seq(Seq(Applications))
  BY <1>2, BallotFacts
<1>4. intake[i].offset \in Nat /\ Len(intake[i].file) \in Nat
  BY <1>1, <1>3 DEF BallotJob
<1>5. intake[i].offset + 1 \in 1..Len(intake[i].file)
  BY <1>4 DEF InChunk, Absentee!Unread
<1>6. Absentee!Chunk(i) \in Seq(Applications)
  BY <1>3, <1>5 DEF Absentee!Chunk
<1>7. ASSUME NEW k \in DOMAIN Absentee!Chunk(i)
      PROVE  {Absentee!Chunk(i)[k].dated, Absentee!Chunk(i)[k].ok} \subseteq BOOLEAN
  <2>1. Absentee!Chunk(i)[k] \in Applications
    BY <1>6
  <2> QED
    BY <2>1, BallotFacts
<1> QED
  BY <1>2, <1>3, <1>4, <1>5, <1>6, <1>7 DEF Absentee!Chunk

(* The records of a chunk that are valid, and those that are not, are parts *)
(* of it.                                                                   *)
LEMMA ValidIs ==
  ASSUME BallotTypes, NEW i \in Intakes, InChunk(i)
  PROVE  /\ Absentee!Valid(Absentee!Chunk(i)) \subseteq 1..Len(Absentee!Chunk(i))
         /\ Absentee!Dated(Absentee!Chunk(i)) \subseteq Absentee!Valid(Absentee!Chunk(i))
         /\ IsFiniteSet(DOMAIN Absentee!Chunk(i))
         /\ IsFiniteSet(Absentee!Valid(Absentee!Chunk(i)))
<1>1. Absentee!Chunk(i) \in Seq(Applications)
  BY ChunkIs
<1>2. Absentee!Valid(Absentee!Chunk(i)) \subseteq 1..Len(Absentee!Chunk(i))
  BY <1>1 DEF Absentee!Valid
<1>3. IsFiniteSet(1..Len(Absentee!Chunk(i)))
  BY <1>1, FS_Interval
<1> QED
  BY <1>1, <1>2, <1>3, FS_Subset DEF Absentee!Dated

(* The places of n + 1 chunks are those of n and of the next.              *)
LEMMA PlacesNext ==
  ASSUME NEW f \in Seq(Seq(Applications)), NEW n \in Nat, n =< Len(f)
  PROVE  /\ IsFiniteSet(Absentee!Places(f, n)) /\ Cardinality(Absentee!Places(f, n)) \in Nat
         /\ n < Len(f) => Cardinality(Absentee!Places(f, n + 1))
                            = Cardinality(Absentee!Places(f, n)) + Len(f[n + 1])
<1>1. ASSUME NEW m \in 1..Len(f)
      PROVE  /\ IsFiniteSet({m} \X DOMAIN f[m])
             /\ Cardinality({m} \X DOMAIN f[m]) = Len(f[m])
  <2>1. f[m] \in Seq(Applications)
    OBVIOUS
  <2>2. DOMAIN f[m] = 1..Len(f[m]) /\ Len(f[m]) \in Nat
    BY <2>1
  <2> DEFINE D == DOMAIN f[m]
             L == Len(f[m])
             E == {m}
  <2>3. IsFiniteSet(1..L) /\ Cardinality(1..L) = L
    BY ONLY <2>2, FS_Interval, SMTT(30)
  <2>4. IsFiniteSet(E) /\ Cardinality(E) = 1
    BY FS_Singleton
  <2>5. IsFiniteSet(D) /\ Cardinality(D) = L /\ L \in Nat
    BY <2>2, <2>3
  <2> HIDE DEF D, L, E
  <2>6. Cardinality(E \X D) = 1 * L /\ IsFiniteSet(E \X D)
    BY <2>4, <2>5, FS_Product
  <2> QED
    BY <2>5, <2>6 DEF D, L, E
<1>2. Len(f) \in Nat
  OBVIOUS
<1>3. IsFiniteSet(Absentee!Places(f, n))
  <2> DEFINE S == {{m} \X DOMAIN f[m] : m \in 1..n}
  <2>1. \A T \in S : IsFiniteSet(T)
    <3>1. \A m \in 1..n : m \in 1..Len(f)
      BY <1>2
    <3> QED
      BY <1>1, <3>1
  <2>2. IsFiniteSet(1..n)
    BY FS_Interval
  <2>3. IsFiniteSet(S)
    <3> DEFINE h == [m \in 1..n |-> {m} \X DOMAIN f[m]]
    <3>1. h \in Surjection(1..n, S)
      BY DEF Surjection
    <3> QED
      BY <3>1, <2>2, FS_Surjection
  <2> QED
    BY <2>1, <2>3, FS_UNION DEF Absentee!Places
<1>4. ASSUME n < Len(f)
      PROVE  Cardinality(Absentee!Places(f, n + 1))
               = Cardinality(Absentee!Places(f, n)) + Len(f[n + 1])
  <2> DEFINE T == {n + 1} \X DOMAIN f[n + 1]
  <2>1. n + 1 \in 1..Len(f)
    BY <1>2, <1>4
  <2>2. Absentee!Places(f, n + 1) = Absentee!Places(f, n) \cup T
    <3>1. 1..(n + 1) = (1..n) \cup {n + 1}
      OBVIOUS
    <3> QED
      BY <3>1 DEF Absentee!Places
  <2>3. Absentee!Places(f, n) \cap T = {}
    <3> SUFFICES ASSUME NEW p \in Absentee!Places(f, n), p \in T PROVE FALSE
      OBVIOUS
    <3>1. PICK m \in 1..n : p \in {m} \X DOMAIN f[m]
      BY DEF Absentee!Places
    <3>2. p[1] = m /\ p[1] = n + 1
      BY <3>1
    <3> QED
      BY <3>1, <3>2
  <2>4. IsFiniteSet(T) /\ Cardinality(T) = Len(f[n + 1])
    BY <1>1, <2>1
  <2> HIDE DEF T
  <2>5. Cardinality(Absentee!Places(f, n) \cup T)
          = Cardinality(Absentee!Places(f, n)) + Cardinality(T)
              - Cardinality(Absentee!Places(f, n) \cap T)
    BY <1>3, <2>4, FS_Union
  <2>6. Cardinality(Absentee!Places(f, n)) \in Nat /\ Cardinality(T) \in Nat
    BY <1>3, <2>4, FS_CardinalityType
  <2>7. Cardinality({}) = 0
    BY FS_EmptySet
  <2> QED
    <3>1. Cardinality(Absentee!Places(f, n) \cap T) = 0
      BY <2>3, <2>7, Zenon
    <3>2. Cardinality(Absentee!Places(f, n + 1)) = Cardinality(Absentee!Places(f, n) \cup T)
      BY <2>2, Zenon
    <3>3. Cardinality(Absentee!Places(f, n)) + Cardinality(T) - 0
            = Cardinality(Absentee!Places(f, n)) + Cardinality(T)
      BY <2>6
    <3>4. Cardinality(T) = Len(f[n + 1])
      BY <2>4
    <3> QED
      BY <2>5, <3>1, <3>2, <3>3, <3>4, Zenon
<1> QED
  BY <1>3, <1>4, FS_CardinalityType

(* No import has begun.                                                     *)
LEMMA BallotsInit == Absentee!Init => BallotsInv
<1> SUFFICES ASSUME Absentee!Init PROVE BallotsInv
  OBVIOUS
<1> USE DEF Absentee!Init
<1>1. Absentee!NoImport \in BallotJob /\ Absentee!NoImport.status = Nil
  BY DEF Absentee!NoImport, BallotJob, BallotStatus
<1>2. \A i \in Intakes : intake[i] = Absentee!NoImport /\ entered[i] = Absentee!Empty
  OBVIOUS
<1>3. DOMAIN Absentee!Empty = {}
  BY DEF Absentee!Empty
<1>4. \A i \in Intakes : ~Absentee!Running(i)
  BY <1>1, <1>2, BallotFacts DEF Absentee!Running
<1>5. \A i \in Intakes : intake[i].offset = 0 /\ intake[i].file = <<>>
  BY <1>2 DEF Absentee!NoImport
<1>6. BallotTypes
  BY <1>1, <1>2, <1>3, <1>5 DEF BallotTypes
<1>7. OneKey /\ Entries
  BY <1>2, <1>3, <1>4 DEF OneKey, Entries, EntriesOf, InChunk
<1>8. CountsKept /\ \A i \in Intakes : intake[i].status # "completed"
  BY <1>1, <1>2, <1>4, BallotFacts DEF CountsKept
<1>9. LatestThere /\ TotalThere
  BY <1>3 DEF LatestThere, TotalThere
<1>10. Absentee!AbsenteeHold
  <2>1. Absentee!LatestCommitted
    BY <1>3 DEF Absentee!LatestCommitted
  <2>2. Absentee!CheckpointTells
    BY <1>3, <1>5 DEF Absentee!CheckpointTells, Absentee!Before
  <2>3. Absentee!CountsAddUp /\ Absentee!StatsCover
    BY <1>8 DEF Absentee!CountsAddUp, Absentee!StatsCover
  <2> QED
    BY <2>1, <2>2, <2>3 DEF Absentee!AbsenteeHold
<1> QED
  BY <1>6, <1>7, <1>8, <1>9, <1>10 DEF BallotsInv

-----------------------------------------------------------------------------
(* An import that sets its job leaves the jobs of the others alone.        *)
LEMMA BallotFrame ==
  ASSUME BallotTypes, NEW i \in Intakes, NEW new, Absentee!Set(i, new)
  PROVE  /\ DOMAIN intake' = Intakes /\ intake'[i] = new
         /\ \A j \in Intakes \ {i} : intake'[j] = intake[j]
BY DEF BallotTypes, Absentee!Set

(* What is said of an import whose job does not change does not change.    *)
LEMMA SameJob ==
  ASSUME NEW j \in Intakes, intake'[j] = intake[j]
  PROVE  /\ Absentee!Running(j)' <=> Absentee!Running(j)
         /\ Absentee!Unread(j)' <=> Absentee!Unread(j)
         /\ InChunk(j)' <=> InChunk(j)
         /\ Absentee!Chunk(j)' = Absentee!Chunk(j)
         /\ Absentee!Before(j)' = Absentee!Before(j)
         /\ Counted(j)' = Counted(j)
BY DEF Absentee!Running, Absentee!Unread, InChunk, Absentee!Chunk, Absentee!Before, Counted

(* What holds of the rows while they stay.                                 *)
LEMMA BallotsRest ==
  ASSUME BallotsInv, UNCHANGED <<ballot, latest, stats>>, Absentee!CountsAddUp',
         \A j \in Intakes : Absentee!Before(j)' = Absentee!Before(j)
  PROVE  LatestThere' /\ TotalThere' /\ Absentee!AbsenteeHold'
<1> USE DEF BallotsInv, Absentee!AbsenteeHold
<1>1. LatestThere' /\ TotalThere' /\ Absentee!StatsCover'
  BY DEF LatestThere, TotalThere, Absentee!StatsCover
<1>2. Absentee!LatestCommitted'
  BY DEF Absentee!LatestCommitted, Absentee!SameKey
<1>3. Absentee!CheckpointTells'
  BY DEF Absentee!CheckpointTells
<1> QED
  BY <1>1, <1>2, <1>3

(* An import that has written nothing and whose file and checkpoint stay.  *)
LEMMA BallotsReset ==
  ASSUME BallotsInv, NEW i \in Intakes, NEW new \in BallotJob, Absentee!Set(i, new),
         new.file = intake[i].file, new.offset = intake[i].offset, new.status # Nil,
         intake[i].status # Nil, new.status # "completed", ~InChunk(i)', ~Absentee!Running(i)',
         entered' = [entered EXCEPT ![i] = Absentee!Empty], UNCHANGED <<ballot, latest, stats>>
  PROVE  BallotsInv'
<1> USE DEF BallotsInv
<1>1. /\ DOMAIN intake' = Intakes /\ intake'[i] = new
      /\ \A j \in Intakes \ {i} : intake'[j] = intake[j]
  BY BallotFrame
<1>2. /\ DOMAIN entered' = Intakes /\ DOMAIN entered'[i] = {}
      /\ \A j \in Intakes \ {i} : entered'[j] = entered[j]
  BY DEF BallotTypes, Absentee!Empty
<1>3. BallotTypes'
  <2>1. intake' \in [Intakes -> BallotJob]
    BY <1>1 DEF BallotTypes, Absentee!Set
  <2> QED
    BY <1>1, <1>2, <2>1 DEF BallotTypes
<1>4. OneKey'
  BY <1>2 DEF OneKey, Absentee!SameKey
<1>5. Entries'
  <2>1. EntriesOf(i)'
    BY <1>2 DEF EntriesOf
  <2>2. ASSUME NEW j \in Intakes \ {i} PROVE EntriesOf(j)'
    <3>1. EntriesOf(j)
      BY DEF Entries
    <3> QED
      BY <1>1, <1>2, <3>1, SameJob DEF EntriesOf, SaidBy, SaidAgain, WrittenAs
  <2> QED
    BY <2>1, <2>2 DEF Entries
<1>6. CountsKept'
  BY <1>1, SameJob DEF CountsKept
<1>7. \A j \in Intakes : Absentee!Before(j)' = Absentee!Before(j)
  BY <1>1, SameJob DEF Absentee!Before
<1>8. Absentee!CountsAddUp'
  BY <1>1 DEF Absentee!AbsenteeHold, Absentee!CountsAddUp
<1> QED
  BY <1>3, <1>4, <1>5, <1>6, <1>7, <1>8, BallotsRest

(* An import fails or dies (absentee_service): what its transaction wrote   *)
(* is gone.                                                                 *)
LEMMA BallotsGone ==
  ASSUME BallotsInv, NEW i \in Intakes, Absentee!Fail(i) \/ Absentee!Die(i)
  PROVE  BallotsInv'
<1>1. intake[i] \in BallotJob /\ intake[i].status = "running"
  BY DEF BallotsInv, BallotTypes, Absentee!Fail, Absentee!Die, Absentee!Running
<1>2. CASE Absentee!Fail(i)
  <2> DEFINE new == [intake[i] EXCEPT !.status = "failed"]
  <2>1. new \in BallotJob /\ new.status = "failed"
    BY <1>1 DEF BallotJob, BallotStatus
  <2>2. new.file = intake[i].file /\ new.offset = intake[i].offset
    BY <1>1 DEF BallotJob
  <2>3. intake'[i] = new
    BY <1>2, BallotFrame DEF Absentee!Fail, BallotsInv
  <2>4. ~InChunk(i)' /\ ~Absentee!Running(i)'
    BY <2>1, <2>3 DEF InChunk, Absentee!Running
  <2>5. new.status # Nil /\ intake[i].status # Nil
    BY <1>1, <2>1, BallotFacts
  <2> HIDE DEF new
  <2>6. Absentee!Set(i, new)
    BY <1>2 DEF Absentee!Fail, new
  <2> QED
    BY <1>2, <2>1, <2>2, <2>4, <2>5, <2>6, BallotsReset DEF Absentee!Fail
<1>3. CASE Absentee!Die(i)
  <2> DEFINE new == [intake[i] EXCEPT !.at = 0]
  <2>1. new \in BallotJob /\ new.status = "running" /\ new.at = 0
    BY <1>1 DEF BallotJob, BallotStatus
  <2>2. new.file = intake[i].file /\ new.offset = intake[i].offset
    BY <1>1 DEF BallotJob
  <2>3. intake'[i] = new
    BY <1>3, BallotFrame DEF Absentee!Die, BallotsInv
  <2>4. ~InChunk(i)' /\ ~Absentee!Running(i)'
    BY <2>1, <2>3 DEF InChunk, Absentee!Running
  <2>5. new.status # Nil /\ intake[i].status # Nil
    BY <1>1, <2>1, BallotFacts
  <2> HIDE DEF new
  <2>6. Absentee!Set(i, new)
    BY <1>3 DEF Absentee!Die, new
  <2> QED
    BY <1>3, <2>1, <2>2, <2>4, <2>5, <2>6, BallotsReset DEF Absentee!Die
<1> QED
  BY <1>2, <1>3

(* An import whose job changes while nothing is written: it begins, or     *)
(* completes.                                                              *)
LEMMA BallotsSame ==
  ASSUME BallotsInv, NEW i \in Intakes, NEW new \in BallotJob, Absentee!Set(i, new),
         ~InChunk(i), new.status # Nil, new.file \in BallotFiles, new.offset =< Len(new.file),
         EntriesOf(i)', UNCHANGED <<ballot, entered, latest, stats>>
  PROVE  /\ BallotTypes' /\ OneKey' /\ Entries'
         /\ \A j \in Intakes \ {i} : Absentee!Before(j)' = Absentee!Before(j)
<1> USE DEF BallotsInv
<1>1. /\ DOMAIN intake' = Intakes /\ intake'[i] = new
      /\ \A j \in Intakes \ {i} : intake'[j] = intake[j]
  BY BallotFrame
<1>2. BallotTypes'
  <2>1. intake' \in [Intakes -> BallotJob]
    BY DEF BallotTypes, Absentee!Set
  <2> QED
    BY <1>1, <2>1 DEF BallotTypes
<1>3. OneKey'
  BY DEF OneKey, Absentee!SameKey
<1>4. ASSUME NEW j \in Intakes \ {i} PROVE EntriesOf(j)'
  <2>1. EntriesOf(j)
    BY DEF Entries
  <2> QED
    BY <1>1, <2>1, SameJob DEF EntriesOf, SaidBy, SaidAgain, WrittenAs
<1> QED
  BY <1>1, <1>2, <1>3, <1>4, SameJob DEF Entries

(* An import's job is created with its counts at zero.                      *)
LEMMA BallotsBegin ==
  ASSUME BallotsInv, NEW i \in Intakes, Absentee!Begin(i)
  PROVE  BallotsInv'
<1> USE DEF BallotsInv
<1>1. PICK f \in BallotFiles :
        Absentee!Set(i, [Absentee!NoImport EXCEPT !.status = "running", !.file = f])
  BY DEF Absentee!Begin
<1> DEFINE new == [Absentee!NoImport EXCEPT !.status = "running", !.file = f]
<1>2. /\ new \in BallotJob /\ new.status = "running" /\ new.file = f /\ new.offset = 0
      /\ new.at = 1 /\ new.fresh = 0 /\ new.changed = 0 /\ new.invalid = 0
  BY DEF Absentee!NoImport, BallotJob, BallotStatus
<1>3. Absentee!Set(i, new)
  BY <1>1
<1> HIDE DEF new
<1>4. /\ DOMAIN intake' = Intakes /\ intake'[i] = new
      /\ \A j \in Intakes \ {i} : intake'[j] = intake[j]
  BY <1>3, BallotFrame
<1>5. f \in Seq(Seq(Applications)) /\ Len(f) \in Nat
  BY BallotFacts
<1>6. ~InChunk(i) /\ ~Absentee!Running(i) /\ intake[i].offset = 0 /\ DOMAIN entered[i] = {}
  <2>1. intake[i].status = Nil
    BY DEF Absentee!Begin
  <2>2. ~Absentee!Running(i)
    BY <2>1, BallotFacts DEF Absentee!Running
  <2> QED
    BY <2>1, <2>2 DEF InChunk, BallotTypes, Entries, EntriesOf
<1>7. EntriesOf(i)'
  <2>1. UNCHANGED entered
    BY DEF Absentee!Begin
  <2>2. ASSUME InChunk(i)', NEW k \in Absentee!Valid(Absentee!Chunk(i))', k < 1 PROVE FALSE
    <3>1. f[1] \in Seq(Applications) /\ Absentee!Chunk(i)' = f[1]
      BY <1>2, <1>4, <1>5, <2>2 DEF InChunk, Absentee!Unread, Absentee!Chunk
    <3>2. k \in 1..Len(f[1])
      BY <3>1 DEF Absentee!Valid
    <3> QED
      BY <2>2, <3>2
  <2> QED
    BY <1>2, <1>4, <1>6, <2>1, <2>2 DEF EntriesOf
<1>8. /\ BallotTypes' /\ OneKey' /\ Entries'
      /\ \A j \in Intakes \ {i} : Absentee!Before(j)' = Absentee!Before(j)
  BY <1>2, <1>3, <1>5, <1>6, <1>7, BallotFacts, BallotsSame DEF Absentee!Begin
<1>9. CountsKept'
  <2>1. Counted(i)' = 0
    <3>1. Absentee!Places(f, 0) = {}
      BY DEF Absentee!Places
    <3>2. ASSUME Absentee!Unread(i)'
          PROVE  {k \in Absentee!Valid(Absentee!Chunk(i)') : k < 1} = {}
      <4>1. f[1] \in Seq(Applications) /\ Absentee!Chunk(i)' = f[1]
        BY <1>2, <1>4, <1>5, <3>2 DEF Absentee!Unread, Absentee!Chunk
      <4> QED
        BY <4>1 DEF Absentee!Valid
    <3>3. Cardinality({}) = 0
      BY FS_EmptySet
    <3> QED
      BY <1>2, <1>4, <3>1, <3>2, <3>3 DEF Counted
  <2>2. ASSUME NEW j \in Intakes \ {i}
        PROVE  /\ Absentee!Running(j)' => intake'[j].fresh + intake'[j].changed + intake'[j].invalid = Counted(j)'
               /\ intake'[j].status = "completed" =>
                    intake'[j].inserted \in Nat /\ intake'[j].updated \in Nat /\ intake'[j].failed \in Nat
    BY <1>4, SameJob DEF CountsKept
  <2> QED
    BY <1>2, <1>4, <2>1, <2>2 DEF CountsKept
<1>10. Absentee!Before(i)' = Absentee!Before(i)
  <2>1. Absentee!Before(i) = {}
    BY <1>6 DEF Absentee!Before
  <2>2. Absentee!Before(i)' = {}
    BY <1>2, <1>4 DEF Absentee!Before
  <2> QED
    BY <2>1, <2>2
<1>11. Absentee!CountsAddUp'
  BY <1>2, <1>4 DEF Absentee!AbsenteeHold, Absentee!CountsAddUp
<1> QED
  BY <1>8, <1>9, <1>10, <1>11, BallotsRest DEF Absentee!Begin

(* An import that has read its file completes its job with the counts so    *)
(* far.                                                                     *)
LEMMA BallotsComplete ==
  ASSUME BallotsInv, NEW i \in Intakes, Absentee!Complete(i)
  PROVE  BallotsInv'
<1> USE DEF BallotsInv
<1> DEFINE new == [intake[i] EXCEPT !.status = "completed", !.inserted = intake[i].fresh,
                                    !.updated = intake[i].changed, !.failed = intake[i].invalid]
<1>1. /\ intake[i] \in BallotJob /\ intake[i].status = "running" /\ intake[i].file \in BallotFiles
      /\ Absentee!Running(i) /\ ~Absentee!Unread(i) /\ intake[i].offset =< Len(intake[i].file)
  <2>1. intake[i] \in BallotJob /\ intake[i].status = "running"
    BY DEF BallotTypes, Absentee!Complete, Absentee!Running
  <2> QED
    BY <2>1, BallotFacts DEF BallotTypes, Absentee!Complete
<1>2. /\ new \in BallotJob /\ new.status = "completed" /\ new.file = intake[i].file
      /\ new.offset = intake[i].offset /\ new.inserted = intake[i].fresh
      /\ new.updated = intake[i].changed /\ new.failed = intake[i].invalid
  BY <1>1 DEF BallotJob, BallotStatus
<1>3. Absentee!Set(i, new)
  BY DEF Absentee!Complete
<1> HIDE DEF new
<1>4. /\ DOMAIN intake' = Intakes /\ intake'[i] = new
      /\ \A j \in Intakes \ {i} : intake'[j] = intake[j]
  BY <1>3, BallotFrame
<1>5. ~InChunk(i) /\ ~InChunk(i)'
  BY <1>1, <1>2, <1>4 DEF InChunk, Absentee!Running
<1>6. UNCHANGED <<ballot, entered, latest, stats>>
  BY DEF Absentee!Complete
<1>7. EntriesOf(i)'
  BY <1>5, <1>6 DEF Entries, EntriesOf
<1>8. /\ BallotTypes' /\ OneKey' /\ Entries'
      /\ \A j \in Intakes \ {i} : Absentee!Before(j)' = Absentee!Before(j)
  BY <1>1, <1>2, <1>3, <1>5, <1>6, <1>7, BallotFacts, BallotsSame
<1>9. CountsKept'
  <2>1. new.inserted \in Nat /\ new.updated \in Nat /\ new.failed \in Nat
    BY <1>1, <1>2 DEF BallotJob
  <2> QED
    BY <1>2, <1>4, <2>1, SameJob DEF CountsKept, Absentee!Running
<1>10. Absentee!Before(i)' = Absentee!Before(i)
  BY <1>2, <1>4 DEF Absentee!Before
<1>11. Absentee!CountsAddUp'
  <2>1. intake[i].file \in Seq(Seq(Applications))
    BY <1>1, BallotFacts
  <2>2. intake[i].offset \in Nat /\ Len(intake[i].file) \in Nat
    BY <1>1, <2>1 DEF BallotJob
  <2>3. intake[i].offset = Len(intake[i].file)
    BY <1>1, <2>2 DEF Absentee!Unread
  <2>4. /\ intake[i].fresh \in Nat /\ intake[i].changed \in Nat /\ intake[i].invalid \in Nat
        /\ intake[i].fresh + intake[i].changed + intake[i].invalid = Counted(i)
    BY <1>1 DEF CountsKept, BallotJob
  <2>5. Cardinality(Absentee!Places(intake[i].file, intake[i].offset)) \in Nat
    BY <2>1, <2>2, <2>3, PlacesNext
  <2>6. Counted(i) = Cardinality(Absentee!Places(intake[i].file, Len(intake[i].file)))
    BY <1>1, <2>3, <2>5 DEF Counted
  <2> QED
    BY <1>2, <1>4, <2>4, <2>6, BallotCards DEF Absentee!AbsenteeHold, Absentee!CountsAddUp
<1> QED
  BY <1>6, <1>8, <1>9, <1>10, <1>11, BallotsRest

(* The rows are finitely many.                                              *)
LEMMA BallotsFinite ==
  ASSUME BallotTypes
  PROVE  IsFiniteSet(DOMAIN ballot) /\ Cardinality(DOMAIN ballot) \in Nat
<1>1. IsFiniteSet(1..MaxBallots)
  BY BallotFacts, FS_Interval
<1>2. DOMAIN ballot \subseteq 1..MaxBallots
  BY DEF BallotTypes
<1>3. IsFiniteSet(DOMAIN ballot)
  BY <1>1, <1>2, FS_Subset
<1> QED
  BY <1>3, FS_CardinalityType

(* The statistics are read, one statement after the other, as they are at   *)
(* the time (get_absentee_stats).                                           *)
LEMMA BallotsCount ==
  ASSUME BallotsInv, Absentee!CountTotal \/ Absentee!CountCounties
  PROVE  BallotsInv'
<1> USE DEF BallotsInv, Absentee!CountTotal, Absentee!CountCounties
<1> DEFINE size == Cardinality(DOMAIN ballot)
<1>1. size \in Nat
  BY BallotsFinite
<1>2. UNCHANGED <<ballot, entered, intake, latest>>
  OBVIOUS
<1> HIDE DEF size
<1>3. TotalThere' /\ Absentee!StatsCover'
  <2>1. CASE Absentee!CountTotal
    <3>1. stats' = [stats EXCEPT !.total = size] /\ stats.counties = Nil
      BY <2>1, BallotCards DEF TotalThere, size
    <3> QED
      BY <1>1, <1>2, <3>1 DEF TotalThere, Absentee!StatsCover, size
  <2>2. CASE Absentee!CountCounties
    <3>1. stats' = [stats EXCEPT !.counties = size] /\ stats.total # Nil
      BY <2>2, BallotCards DEF TotalThere, size
    <3>2. stats.total =< size
      BY <3>1 DEF TotalThere, size
    <3> QED
      BY <1>1, <1>2, <3>1, <3>2 DEF TotalThere, Absentee!StatsCover, size
  <2> QED
    BY <2>1, <2>2
<1>4. BallotTypes' /\ OneKey' /\ LatestThere'
  BY <1>2 DEF BallotTypes, OneKey, LatestThere, Absentee!SameKey
<1>5. Entries' /\ CountsKept'
  BY <1>2, SameJob DEF Entries, EntriesOf, SaidBy, SaidAgain, WrittenAs, CountsKept
<1>6. Absentee!LatestCommitted' /\ Absentee!CheckpointTells' /\ Absentee!CountsAddUp'
  BY <1>2, SameJob DEF Absentee!AbsenteeHold, Absentee!LatestCommitted, Absentee!SameKey,
     Absentee!CheckpointTells, Absentee!CountsAddUp
<1> QED
  BY <1>3, <1>4, <1>5, <1>6 DEF Absentee!AbsenteeHold

-----------------------------------------------------------------------------
(* The row an upsert writes fits with all there is.                        *)
Fits(i, n, row) ==
  /\ n \in 1..MaxBallots /\ row.of = i
  /\ \A m \in DOMAIN entered[i] : Absentee!SameKey(entered[i][m], row) => m = n
  /\ \A m \in DOMAIN ballot : Absentee!SameKey(ballot[m], row) => m = n
  /\ n \in DOMAIN ballot => row.dated /\ ballot[n].dated /\ ballot[n].key = row.key
  /\ n \in DOMAIN entered[i] =>
       row.dated /\ entered[i][n].dated /\ entered[i][n].key = row.key
  /\ \A j \in Intakes \ {i} :
       /\ n \notin DOMAIN entered[j]
       /\ \A m \in DOMAIN entered[j] : ~Absentee!SameKey(entered[j][m], row)

(* A row that a statement writes is free: no other transaction holds it or  *)
(* its key.                                                                 *)
LEMMA UpsertFits ==
  ASSUME BallotTypes, OneKey, NEW i \in Intakes, NEW n \in 1..MaxBallots, NEW r, NEW row,
         row.key = r.key, row.dated = r.dated, row.of = i,
         ~Absentee!Waits(i, r),
         IF Absentee!Conflicts(i, r) = {} THEN Absentee!NextRow(n)
                                          ELSE n \in Absentee!Conflicts(i, r)
  PROVE  Fits(i, n, row)
<1> USE DEF Absentee!SameKey
<1> DEFINE view == Absentee!View(i)
<1>1. /\ DOMAIN view = DOMAIN entered[i] \cup DOMAIN ballot
      /\ \A m \in DOMAIN entered[i] : view[m] = entered[i][m]
      /\ \A m \in DOMAIN ballot : m \notin DOMAIN entered[i] => view[m] = ballot[m]
  BY DEF Absentee!View, Absentee!Over
<1>2. \A m : m \in Absentee!Conflicts(i, r) <=> m \in DOMAIN view /\ Absentee!SameKey(view[m], row)
  BY DEF Absentee!Conflicts
<1>3. \A j \in Intakes \ {i} : \A m \in DOMAIN entered[j] : ~Absentee!SameKey(entered[j][m], row)
  BY DEF Absentee!Waits
<1> HIDE DEF view
<1>4. CASE Absentee!Conflicts(i, r) = {}
  <2>1. n \notin Absentee!Taken
    BY <1>4 DEF Absentee!NextRow
  <2>2. n \notin DOMAIN ballot /\ \A j \in Intakes : n \notin DOMAIN entered[j]
    BY <2>1 DEF Absentee!Taken
  <2>3. \A m \in DOMAIN view : ~Absentee!SameKey(view[m], row)
    BY <1>2, <1>4
  <2>4. \A m \in DOMAIN entered[i] : ~Absentee!SameKey(entered[i][m], row)
    BY <1>1, <2>3
  <2>5. \A m \in DOMAIN ballot : ~Absentee!SameKey(ballot[m], row)
    <3> SUFFICES ASSUME NEW m \in DOMAIN ballot, Absentee!SameKey(ballot[m], row) PROVE FALSE
      OBVIOUS
    <3>1. CASE m \in DOMAIN entered[i]
      BY <1>1, <2>4, <3>1 DEF OneKey
    <3>2. CASE m \notin DOMAIN entered[i]
      BY <1>1, <2>3, <3>2
    <3> QED
      BY <3>1, <3>2
  <2> QED
    BY <1>3, <2>2, <2>4, <2>5 DEF Fits
<1>5. CASE Absentee!Conflicts(i, r) # {}
  <2>1. n \in DOMAIN view /\ Absentee!SameKey(view[n], row)
    BY <1>2, <1>5
  <2>2. n \in DOMAIN entered[i] => Absentee!SameKey(entered[i][n], row)
    BY <1>1, <2>1
  <2>3. n \in DOMAIN ballot => Absentee!SameKey(ballot[n], row)
    <3> SUFFICES ASSUME n \in DOMAIN ballot PROVE Absentee!SameKey(ballot[n], row)
      OBVIOUS
    <3>1. CASE n \in DOMAIN entered[i]
      BY <2>2, <3>1 DEF OneKey
    <3>2. CASE n \notin DOMAIN entered[i]
      BY <1>1, <2>1, <3>2
    <3> QED
      BY <3>1, <3>2
  <2>4. \A m \in DOMAIN entered[i] : Absentee!SameKey(entered[i][m], row) => m = n
    BY <1>1, <2>1, <2>2, <2>3 DEF OneKey
  <2>5. \A m \in DOMAIN ballot : Absentee!SameKey(ballot[m], row) => m = n
    BY <1>1, <2>1, <2>2, <2>3 DEF OneKey
  <2>6. ASSUME NEW j \in Intakes \ {i}, n \in DOMAIN entered[j] PROVE FALSE
    <3>1. n \notin DOMAIN entered[i]
      BY <2>6 DEF OneKey
    <3>2. n \in DOMAIN ballot
      BY <1>1, <2>1, <3>1
    <3>3. Absentee!SameKey(entered[j][n], row)
      BY <2>3, <2>6, <3>2 DEF OneKey
    <3> QED
      BY <1>3, <3>3, <2>6
  <2> QED
    BY <1>3, <2>2, <2>3, <2>4, <2>5, <2>6 DEF Fits
<1> QED
  BY <1>4, <1>5

(* A statement of an import's chunk (_upsert_absentee_batch), with what its *)
(* conflicts update.                                                        *)
LEMMA BallotsUpsert ==
  ASSUME BallotsInv, NEW i \in Intakes, Absentee!Upsert(i)
  PROVE  BallotsInv'
<1> USE DEF BallotsInv
<1>1. InChunk(i) /\ Absentee!Running(i) /\ Absentee!Unread(i)
  BY DEF Absentee!Upsert, InChunk
<1> DEFINE c == Absentee!Chunk(i)
           valid == Absentee!Valid(c)
           at == intake[i].at
<1>2. PICK k \in Absentee!Left(i), n \in 1..MaxBallots :
        LET r == c[k]
            row == [key |-> r.key, dated |-> r.dated, data |-> r.data, of |-> i]
            old == Absentee!Conflicts(i, r)
        IN  /\ \A m \in Absentee!Left(i) : k =< m
            /\ ~Absentee!Waits(i, r)
            /\ IF old = {} THEN Absentee!NextRow(n) ELSE n \in old
            /\ LET wr == IF old = {} THEN row
                         ELSE Absentee!OnConflict(Absentee!View(i)[n], row)
               IN  entered' = [entered EXCEPT ![i] = Absentee!Over([m \in {n} |-> wr], @)]
            /\ Absentee!Set(i, [intake[i] EXCEPT !.at = k + 1,
                                  !.fresh = IF old = {} THEN @ + 1 ELSE @,
                                  !.changed = IF old = {} THEN @ ELSE @ + 1])
  BY DEF Absentee!Upsert
<1> DEFINE r == c[k]
           row == [key |-> r.key, dated |-> r.dated, data |-> r.data, of |-> i]
           old == Absentee!Conflicts(i, r)
           new == [intake[i] EXCEPT !.at = k + 1, !.fresh = IF old = {} THEN @ + 1 ELSE @,
                                    !.changed = IF old = {} THEN @ ELSE @ + 1]
<1>3. Fits(i, n, row)
  <2>1. row.key = r.key /\ row.dated = r.dated /\ row.of = i
    OBVIOUS
  <2>2. ~Absentee!Waits(i, r) /\ IF old = {} THEN Absentee!NextRow(n) ELSE n \in old
    BY <1>2
  <2> HIDE DEF row, r
  <2> QED
    BY <2>1, <2>2, UpsertFits
<1>4. /\ DOMAIN entered' = Intakes
      /\ DOMAIN entered'[i] = {n} \cup DOMAIN entered[i]
      /\ entered'[i][n] = row
      /\ \A m \in DOMAIN entered[i] : m # n => entered'[i][m] = entered[i][m]
      /\ \A j \in Intakes \ {i} : entered'[j] = entered[j]
  <2>1. entered' = [entered EXCEPT ![i] = Absentee!Over([m \in {n} |-> row], entered[i])]
    BY <1>2 DEF Absentee!OnConflict
  <2>2. DOMAIN entered = Intakes
    BY DEF BallotTypes
  <2>3. entered'[i] = Absentee!Over([m \in {n} |-> row], entered[i])
    BY <2>1, <2>2
  <2>4. \A j \in Intakes \ {i} : entered'[j] = entered[j]
    BY <2>1, <2>2
  <2>5. DOMAIN entered' = Intakes
    BY <2>1, <2>2
  <2> QED
    BY <2>3, <2>4, <2>5 DEF Absentee!Over
<1>5. /\ row.key = c[k].key /\ row.dated = c[k].dated /\ row.data = c[k].data /\ row.of = i
  OBVIOUS
<1> HIDE DEF row
<1>6. /\ k \in valid /\ at =< k /\ \A m \in valid : at =< m => k =< m
  BY <1>2 DEF Absentee!Left
<1>7. /\ valid \subseteq Nat /\ IsFiniteSet(valid) /\ Absentee!Dated(c) \subseteq valid
      /\ intake[i] \in BallotJob /\ at \in Nat /\ at > 0 /\ k \in Nat
      /\ intake[i].status = "running"
  <2>1. valid \subseteq 1..Len(c) /\ IsFiniteSet(valid) /\ Absentee!Dated(c) \subseteq valid
    BY <1>1, ValidIs
  <2>2. c \in Seq(Applications)
    BY <1>1, ChunkIs
  <2>3. valid \subseteq Nat
    BY <2>1, <2>2
  <2>4. intake[i] \in BallotJob
    BY DEF BallotTypes
  <2> QED
    BY <2>1, <2>3, <2>4, <1>1, <1>6 DEF BallotJob, Absentee!Running
<1>8. /\ new \in BallotJob /\ new.status = intake[i].status /\ new.file = intake[i].file
      /\ new.offset = intake[i].offset /\ new.at = k + 1
      /\ new.fresh + new.changed = intake[i].fresh + intake[i].changed + 1
      /\ new.invalid = intake[i].invalid /\ new.inserted = intake[i].inserted
      /\ new.updated = intake[i].updated /\ new.failed = intake[i].failed
  <2> DEFINE inserts == IF old = {} THEN intake[i].fresh + 1 ELSE intake[i].fresh
             updates == IF old = {} THEN intake[i].changed ELSE intake[i].changed + 1
             after   == k + 1
  <2>1. intake[i].fresh \in Nat /\ intake[i].changed \in Nat
    BY <1>7 DEF BallotJob
  <2>2. /\ inserts \in Nat /\ updates \in Nat /\ after \in Nat
        /\ inserts + updates = intake[i].fresh + intake[i].changed + 1
    <3> HIDE DEF old
    <3> QED
      BY <1>7, <2>1
  <2>3. new = [intake[i] EXCEPT !.at = after, !.fresh = inserts, !.changed = updates]
    <3> HIDE DEF old, r, c
    <3>1. CASE old = {}
      BY <3>1
    <3>2. CASE old # {}
      BY <3>2
    <3> QED
      BY <3>1, <3>2
  <2>4. after = k + 1
    OBVIOUS
  <2> HIDE DEF old, r, c, inserts, updates, after, new
  <2>5. new.fresh = inserts /\ new.changed = updates /\ new.at = after
    BY <1>7, <2>3 DEF BallotJob
  <2>6. new \in BallotJob
    BY <1>7, <2>2, <2>3 DEF BallotJob
  <2>7. /\ new.status = intake[i].status /\ new.file = intake[i].file
        /\ new.offset = intake[i].offset
        /\ new.invalid = intake[i].invalid /\ new.inserted = intake[i].inserted
        /\ new.updated = intake[i].updated /\ new.failed = intake[i].failed
    BY <1>7, <2>3 DEF BallotJob
  <2> QED
    BY <2>2, <2>4, <2>5, <2>6, <2>7
<1>9. Absentee!Set(i, new)
  BY <1>2
<1> HIDE DEF new, old, r
<1>10. /\ DOMAIN intake' = Intakes /\ intake'[i] = new
       /\ \A j \in Intakes \ {i} : intake'[j] = intake[j]
  BY <1>9, BallotFrame
<1>11. UNCHANGED <<ballot, latest, stats>>
  BY DEF Absentee!Upsert
<1>12. /\ InChunk(i)' /\ Absentee!Running(i)' /\ Absentee!Unread(i)'
       /\ Absentee!Chunk(i)' = c /\ Absentee!Before(i)' = Absentee!Before(i)
  BY <1>1, <1>7, <1>8, <1>10, SMTT(30) DEF InChunk, Absentee!Running, Absentee!Unread, Absentee!Chunk,
     Absentee!Before
<1>13. BallotTypes'
  <2>1. intake' \in [Intakes -> BallotJob]
    BY <1>8, <1>9 DEF BallotTypes, Absentee!Set
  <2>2. \A j \in Intakes : DOMAIN entered'[j] \subseteq 1..MaxBallots
    BY <1>4 DEF BallotTypes
  <2> QED
    BY <1>4, <1>8, <1>10, <1>11, <2>1, <2>2 DEF BallotTypes
<1>14. OneKey'
  <2> USE DEF Absentee!SameKey
  <2>1. \A m, p \in DOMAIN ballot : Absentee!SameKey(ballot[m], ballot[p]) => m = p
    BY DEF OneKey
  <2>2. /\ \A m, p \in DOMAIN entered'[i] :
             Absentee!SameKey(entered'[i][m], entered'[i][p]) => m = p
        /\ \A m \in DOMAIN entered'[i], p \in DOMAIN ballot :
             Absentee!SameKey(entered'[i][m], ballot[p]) => m = p
        /\ \A m \in DOMAIN entered'[i] :
             m \in DOMAIN ballot => /\ ballot[m].dated /\ entered'[i][m].dated
                                    /\ ballot[m].key = entered'[i][m].key
    BY <1>3, <1>4 DEF OneKey, Fits
  <2>3. ASSUME NEW j \in Intakes \ {i}
        PROVE  /\ \A m \in DOMAIN entered'[i] : m \notin DOMAIN entered[j]
               /\ \A m \in DOMAIN entered'[i], p \in DOMAIN entered[j] :
                    /\ ~Absentee!SameKey(entered'[i][m], entered[j][p])
                    /\ ~Absentee!SameKey(entered[j][p], entered'[i][m])
    BY <1>3, <1>4 DEF OneKey, Fits
  <2>4. ASSUME NEW j \in Intakes \ {i}
        PROVE  \A p \in DOMAIN entered[j] : p \notin DOMAIN entered'[i]
    BY <2>3
  <2> QED
    BY <1>4, <1>11, <2>1, <2>2, <2>3, <2>4 DEF OneKey
<1>15. Entries'
  <2>1. \A m \in DOMAIN entered'[i] : entered'[i][m].of = i /\ SaidBy(i, m)'
    <3> SUFFICES ASSUME NEW m \in DOMAIN entered'[i]
                 PROVE  entered'[i][m].of = i /\ SaidBy(i, m)'
      OBVIOUS
    <3>1. CASE m = n
      <4>1. k < new.at
        BY <1>7, <1>8
      <4> QED
        BY <1>4, <1>5, <1>6, <1>10, <1>12, <3>1, <4>1 DEF SaidBy, Says
    <3>2. CASE m # n
      <4>1. entered'[i][m] = entered[i][m] /\ entered[i][m].of = i /\ SaidBy(i, m)
        BY <1>4, <3>2 DEF Entries, EntriesOf
      <4>2. PICK p \in valid : p < at /\ Says(entered[i][m], c[p])
        BY <4>1 DEF SaidBy
      <4>3. p < new.at
        BY <1>6, <1>7, <1>8, <4>2
      <4> QED
        BY <1>10, <1>12, <4>1, <4>2, <4>3 DEF SaidBy
    <3> QED
      BY <3>1, <3>2
  <2>2. ASSUME NEW p \in valid, p < new.at PROVE WrittenAs(i, p)'
    <3>1. CASE p = k
      BY <1>4, <1>5, <1>12, <3>1 DEF WrittenAs
    <3>2. CASE p # k
      <4>1. p < at
        BY <1>6, <1>7, <1>8, <2>2, <3>2
      <4>2. WrittenAs(i, p)
        BY <1>1, <4>1 DEF Entries, EntriesOf
      <4>3. PICK m \in DOMAIN entered[i] :
              /\ entered[i][m].key = c[p].key /\ entered[i][m].dated = c[p].dated
              /\ c[p].dated => entered[i][m].data = c[p].data \/ SaidAgain(i, p)
        BY <4>2 DEF WrittenAs
      <4>4. SaidAgain(i, p) => SaidAgain(i, p)'
        <5> SUFFICES ASSUME SaidAgain(i, p) PROVE SaidAgain(i, p)'
          OBVIOUS
        <5>1. PICK q \in Absentee!Dated(c) : p < q /\ q < at /\ c[q].key = c[p].key
          BY DEF SaidAgain
        <5>2. q < new.at
          BY <1>6, <1>7, <1>8, <5>1
        <5> QED
          BY <1>10, <1>12, <5>1, <5>2 DEF SaidAgain
      <4>5. CASE m # n
        BY <1>4, <1>12, <4>3, <4>4, <4>5 DEF WrittenAs
      <4>6. CASE m = n
        <5>1. row.dated /\ entered[i][n].dated /\ entered[i][n].key = row.key
          BY <1>3, <4>6 DEF Fits
        <5>2. k \in Absentee!Dated(c)
          BY <1>5, <1>6, <5>1 DEF Absentee!Dated
        <5>3. p < k /\ k < new.at
          BY <1>6, <1>7, <1>8, <4>1
        <5>4. SaidAgain(i, p)'
          BY <1>5, <1>10, <1>12, <4>3, <4>6, <5>1, <5>2, <5>3 DEF SaidAgain
        <5>5. n \in DOMAIN entered'[i] /\ entered'[i][n].key = c[p].key /\ entered'[i][n].dated = c[p].dated
          BY <1>4, <4>3, <4>6, <5>1
        <5> QED
          BY <1>12, <5>4, <5>5 DEF WrittenAs
      <4> QED
        BY <4>5, <4>6
    <3> QED
      BY <3>1, <3>2
  <2>3. EntriesOf(i)'
    BY <1>10, <1>12, <2>1, <2>2 DEF EntriesOf
  <2>4. ASSUME NEW j \in Intakes \ {i} PROVE EntriesOf(j)'
    <3>1. EntriesOf(j)
      BY DEF Entries
    <3> QED
      BY <1>4, <1>10, <3>1, SameJob DEF EntriesOf, SaidBy, SaidAgain, WrittenAs
  <2> QED
    BY <2>3, <2>4 DEF Entries
<1>16. CountsKept'
  <2> DEFINE past == {p \in valid : p < at}
  <2>1. {p \in valid : p < new.at} = past \cup {k} /\ k \notin past
    BY <1>6, <1>7, <1>8
  <2>2. IsFiniteSet(past)
    BY <1>7, FS_Subset
  <2> HIDE DEF past
  <2>3. Cardinality(past \cup {k}) = Cardinality(past) + 1 /\ Cardinality(past) \in Nat
    BY <2>1, <2>2, FS_AddElement, FS_CardinalityType
  <2>4. Counted(i) = Cardinality(Absentee!Places(intake[i].file, intake[i].offset)) + Cardinality(past)
    BY <1>1 DEF Counted, past
  <2>5. Counted(i)' = Cardinality(Absentee!Places(intake[i].file, intake[i].offset))
                        + Cardinality(past \cup {k})
    BY <1>8, <1>10, <1>12, <2>1 DEF Counted
  <2>6. Cardinality(Absentee!Places(intake[i].file, intake[i].offset)) \in Nat
    <3>1. /\ intake[i].file \in Seq(Seq(Applications)) /\ intake[i].offset \in Nat
          /\ intake[i].offset + 1 \in 1..Len(intake[i].file)
      BY <1>1, ChunkIs
    <3>2. intake[i].offset =< Len(intake[i].file)
      BY <3>1
    <3> QED
      BY <3>1, <3>2, PlacesNext
  <2>7. intake[i].fresh + intake[i].changed + intake[i].invalid = Counted(i)
    BY <1>1 DEF CountsKept
  <2>8. /\ new.fresh \in Nat /\ new.changed \in Nat /\ new.invalid \in Nat
        /\ intake[i].fresh \in Nat /\ intake[i].changed \in Nat
    BY <1>7, <1>8 DEF BallotJob
  <2>9. new.fresh + new.changed + new.invalid = Counted(i)'
    BY <1>8, <2>3, <2>4, <2>5, <2>6, <2>7, <2>8
  <2> QED
    BY <1>7, <1>8, <1>10, <1>12, <2>9, SameJob DEF CountsKept
<1>17. \A j \in Intakes : Absentee!Before(j)' = Absentee!Before(j)
  BY <1>10, <1>12, SameJob
<1>18. Absentee!CountsAddUp'
  BY <1>7, <1>8, <1>10 DEF Absentee!AbsenteeHold, Absentee!CountsAddUp
<1> QED
  BY <1>11, <1>13, <1>14, <1>15, <1>16, <1>17, <1>18, BallotsRest

(* A commit leaves each row as the import has written it, the others as    *)
(* they were.                                                              *)
LEMMA BallotsCommit ==
  ASSUME BallotsInv, NEW i \in Intakes, Absentee!CommitChunk(i)
  PROVE  BallotsInv'
<1> USE DEF BallotsInv
<1> DEFINE c == Absentee!Chunk(i)
           valid == Absentee!Valid(c)
           at == intake[i].at
           new == [intake[i] EXCEPT !.offset = @ + 1, !.at = 1,
                     !.invalid = @ + Absentee!Cardinality((DOMAIN c) \ valid)]
           bad == Cardinality((DOMAIN c) \ valid)
<1>1. InChunk(i) /\ Absentee!Running(i) /\ Absentee!Unread(i) /\ Absentee!Left(i) = {}
  BY DEF Absentee!CommitChunk, InChunk
<1>2. /\ intake[i].file \in BallotFiles /\ intake[i].file \in Seq(Seq(Applications))
      /\ intake[i].offset \in Nat /\ intake[i].offset + 1 \in 1..Len(intake[i].file)
      /\ c = intake[i].file[intake[i].offset + 1] /\ c \in Seq(Applications)
  BY <1>1, ChunkIs
<1>3. /\ valid \subseteq 1..Len(c) /\ Absentee!Dated(c) \subseteq valid
      /\ IsFiniteSet(DOMAIN c) /\ IsFiniteSet(valid) /\ DOMAIN c = 1..Len(c) /\ Len(c) \in Nat
  BY <1>1, <1>2, ValidIs, SMTT(30)
<1>4. bad \in Nat /\ Cardinality(valid) \in Nat /\ Cardinality(valid) + bad = Len(c)
  <2>1. IsFiniteSet((DOMAIN c) \ valid)
    BY <1>3, FS_Subset
  <2>2. ((DOMAIN c) \ valid) \cup valid = DOMAIN c /\ ((DOMAIN c) \ valid) \cap valid = {}
    BY <1>3
  <2>3. Cardinality(DOMAIN c) = Len(c)
    BY <1>3, FS_Interval
  <2>4. Cardinality({}) = 0
    BY FS_EmptySet
  <2> DEFINE V == valid
             W == (DOMAIN c) \ valid
  <2>5. V \cup W = DOMAIN c /\ V \cap W = {} /\ IsFiniteSet(V) /\ IsFiniteSet(W) /\ bad = Cardinality(W)
    BY <1>3, <2>1, <2>2
  <2> HIDE DEF V, W, bad
  <2>6. /\ Cardinality(V \cup W) = Cardinality(V) + Cardinality(W) - Cardinality(V \cap W)
        /\ Cardinality(V) \in Nat /\ Cardinality(W) \in Nat
    BY <2>5, FS_Union, FS_CardinalityType
  <2>7. Cardinality(V \cup W) = Len(c) /\ Cardinality(V \cap W) = 0
    BY <2>3, <2>4, <2>5, Zenon
  <2>8. Cardinality(V) + bad = Len(c) /\ bad \in Nat
    BY <1>3, <2>5, <2>6, <2>7
  <2> QED
    BY <2>6, <2>8 DEF V
<1>5. /\ intake[i] \in BallotJob /\ intake[i].status = "running" /\ at \in Nat
      /\ intake[i].invalid \in Nat
  BY <1>1 DEF BallotTypes, BallotJob, Absentee!Running
<1>6. /\ new \in BallotJob /\ new.status = intake[i].status /\ new.file = intake[i].file
      /\ new.offset = intake[i].offset + 1 /\ new.at = 1 /\ new.invalid = intake[i].invalid + bad
      /\ new.fresh = intake[i].fresh /\ new.changed = intake[i].changed
      /\ new.inserted = intake[i].inserted /\ new.updated = intake[i].updated
      /\ new.failed = intake[i].failed
  <2>1. new = [intake[i] EXCEPT !.offset = intake[i].offset + 1, !.at = 1, !.invalid = intake[i].invalid + bad]
    BY BallotCards
  <2> DEFINE here  == intake[i].offset + 1
             wrong == intake[i].invalid + bad
  <2> HIDE DEF c, valid, new, bad
  <2>2. here \in Nat /\ wrong \in Nat
    <3>1. intake[i].offset \in Nat
      BY <1>2, Zenon
    <3>2. bad \in Nat
      BY <1>4, Zenon
    <3>3. intake[i].invalid \in Nat
      BY <1>5, Zenon
    <3>4. \A p, q \in Nat : p + q \in Nat
      OBVIOUS
    <3> QED
      BY <3>1, <3>2, <3>3, <3>4
  <2> HIDE DEF here, wrong
  <2>3. new = [intake[i] EXCEPT !.offset = here, !.at = 1, !.invalid = wrong] /\ {here, wrong} \subseteq Nat
    BY <2>1, <2>2 DEF here, wrong
  <2>4. new \in BallotJob
    BY <1>5, <2>3 DEF BallotJob
  <2>5. /\ new.status = intake[i].status /\ new.file = intake[i].file
        /\ new.offset = here /\ new.at = 1 /\ new.invalid = wrong
        /\ new.fresh = intake[i].fresh /\ new.changed = intake[i].changed
        /\ new.inserted = intake[i].inserted /\ new.updated = intake[i].updated
        /\ new.failed = intake[i].failed
    BY <1>5, <2>3 DEF BallotJob
  <2> QED
    BY <2>4, <2>5 DEF here, wrong
<1>7. Absentee!Set(i, new)
  BY DEF Absentee!CommitChunk
<1> HIDE DEF new, bad
<1>8. /\ DOMAIN intake' = Intakes /\ intake'[i] = new
      /\ \A j \in Intakes \ {i} : intake'[j] = intake[j]
  BY <1>7, BallotFrame
<1>9. /\ DOMAIN entered' = Intakes /\ DOMAIN entered'[i] = {}
      /\ \A j \in Intakes \ {i} : entered'[j] = entered[j]
  BY DEF BallotTypes, Absentee!Empty, Absentee!CommitChunk
<1>10. /\ DOMAIN ballot' = DOMAIN entered[i] \cup DOMAIN ballot
       /\ \A n \in DOMAIN entered[i] : ballot'[n] = entered[i][n]
       /\ \A n \in DOMAIN ballot : n \notin DOMAIN entered[i] => ballot'[n] = ballot[n]
  <2>1. ballot' = Absentee!Over(entered[i], ballot)
    BY DEF Absentee!CommitChunk, Absentee!View
  <2> QED
    BY <2>1 DEF Absentee!Over
<1>11. \A n \in DOMAIN ballot : n \in DOMAIN entered[i] =>
         ballot[n].dated /\ entered[i][n].dated /\ ballot[n].key = entered[i][n].key
  BY DEF OneKey
<1>12. /\ \A k \in valid : k < at /\ WrittenAs(i, k)
       /\ \A n \in DOMAIN entered[i] : entered[i][n].of = i /\ SaidBy(i, n)
  <2>1. \A k \in valid : k < at
    BY <1>1, <1>3, <1>5 DEF Absentee!Left
  <2> QED
    BY <1>1, <2>1 DEF Entries, EntriesOf
<1>13. /\ intake[i].offset + 1 =< Len(intake[i].file) /\ Len(intake[i].file) \in Nat
  BY <1>2
<1>14. BallotTypes'
  <2>1. intake' \in [Intakes -> BallotJob]
    BY <1>6, <1>7 DEF BallotTypes, Absentee!Set
  <2>2. \A j \in Intakes : DOMAIN entered'[j] \subseteq 1..MaxBallots
    BY <1>9 DEF BallotTypes
  <2>3. DOMAIN ballot' \subseteq 1..MaxBallots
    BY <1>10 DEF BallotTypes
  <2>4. new.status # Nil /\ new.file \in BallotFiles /\ new.offset =< Len(new.file)
    BY <1>2, <1>5, <1>6, <1>13, BallotFacts
  <2> QED
    BY <1>8, <1>9, <2>1, <2>2, <2>3, <2>4 DEF BallotTypes
<1>15. OneKey'
  <2> USE DEF Absentee!SameKey
  <2>1. \A m, n \in DOMAIN ballot' : Absentee!SameKey(ballot'[m], ballot'[n]) => m = n
    BY <1>10, <1>11 DEF OneKey
  <2>2. ASSUME NEW j \in Intakes \ {i}
        PROVE  /\ \A m \in DOMAIN entered[j], n \in DOMAIN ballot' :
                    Absentee!SameKey(entered[j][m], ballot'[n]) => m = n
               /\ \A n \in DOMAIN entered[j] :
                    n \in DOMAIN ballot' => /\ ballot'[n].dated /\ entered[j][n].dated
                                            /\ ballot'[n].key = entered[j][n].key
    BY <1>10 DEF OneKey
  <2> QED
    BY <1>9, <2>1, <2>2 DEF OneKey
<1>16. Entries'
  <2>1. EntriesOf(i)'
    <3>1. ASSUME InChunk(i)', NEW p \in Absentee!Valid(Absentee!Chunk(i))', p < 1 PROVE FALSE
      <4>1. new.offset \in Nat /\ new.offset + 1 =< Len(new.file) /\ new.file \in Seq(Seq(Applications))
        BY <1>2, <1>6, <1>8, <1>13, <3>1 DEF InChunk, Absentee!Unread
      <4>2. Absentee!Chunk(i)' \in Seq(Applications)
        BY <1>8, <4>1 DEF Absentee!Chunk
      <4>3. p \in 1..Len(Absentee!Chunk(i)')
        BY <4>2 DEF Absentee!Valid
      <4> QED
        BY <3>1, <4>3
    <3> QED
      BY <1>6, <1>8, <1>9, <3>1 DEF EntriesOf
  <2>2. ASSUME NEW j \in Intakes \ {i} PROVE EntriesOf(j)'
    <3>1. EntriesOf(j)
      BY DEF Entries
    <3> QED
      BY <1>8, <1>9, <3>1, SameJob DEF EntriesOf, SaidBy, SaidAgain, WrittenAs
  <2> QED
    BY <2>1, <2>2 DEF Entries
<1>17. CountsKept'
  <2> DEFINE before == Cardinality(Absentee!Places(intake[i].file, intake[i].offset))
             after  == Cardinality(Absentee!Places(intake[i].file, intake[i].offset + 1))
  <2>1. after = before + Len(c) /\ before \in Nat
    <3>1. intake[i].offset < Len(intake[i].file) /\ intake[i].offset =< Len(intake[i].file)
      BY <1>2, <1>13
    <3> QED
      BY <1>2, <3>1, PlacesNext
  <2>2. Counted(i) = before + Cardinality(valid)
    <3>1. {k \in valid : k < at} = valid
      BY <1>12
    <3> QED
      BY <1>1, <3>1 DEF Counted
  <2>3. Counted(i)' = after
    <3>1. ASSUME Absentee!Unread(i)'
          PROVE  Cardinality({p \in Absentee!Valid(Absentee!Chunk(i)') : p < 1}) = 0
      <4>1. new.offset \in Nat /\ new.offset + 1 =< Len(new.file) /\ new.file \in Seq(Seq(Applications))
        BY <1>2, <1>6, <1>8, <1>13, <3>1 DEF Absentee!Unread
      <4>2. Absentee!Chunk(i)' \in Seq(Applications)
        BY <1>8, <4>1 DEF Absentee!Chunk
      <4>3. {p \in Absentee!Valid(Absentee!Chunk(i)') : p < 1} = {}
        BY <4>2 DEF Absentee!Valid
      <4> QED
        BY <4>3, FS_EmptySet
    <3>2. Counted(i)' = after + IF Absentee!Unread(i)'
               THEN Cardinality({p \in Absentee!Valid(Absentee!Chunk(i)') : p < 1}) ELSE 0
      BY <1>6, <1>8 DEF Counted
    <3>3. after \in Nat
      BY <1>3, <2>1
    <3> HIDE DEF after
    <3> QED
      BY <3>1, <3>2, <3>3
  <2>4. intake[i].fresh + intake[i].changed + intake[i].invalid = Counted(i)
    BY <1>1 DEF CountsKept
  <2>5. intake[i].fresh \in Nat /\ intake[i].changed \in Nat
    BY <1>5 DEF BallotJob
  <2> DEFINE right == Cardinality(valid)
             size  == Len(c)
  <2>6. right \in Nat /\ bad \in Nat /\ right + bad = size /\ after = before + size /\ Counted(i) = before + right
    BY <1>4, <2>1, <2>2
  <2>7. /\ new.fresh = intake[i].fresh /\ new.changed = intake[i].changed
        /\ new.invalid = intake[i].invalid + bad
    BY <1>6
  <2> HIDE DEF before, after, right, size, new
  <2>8. intake[i].fresh + intake[i].changed + (intake[i].invalid + bad) = after
    <3>1. \A p, q, v, b, w, x \in Nat : p + q + v = b + w => p + q + (v + x) = b + (w + x)
      OBVIOUS
    <3>2. intake[i].fresh + intake[i].changed + intake[i].invalid = before + right
      BY <2>4, <2>6
    <3>3. before \in Nat /\ intake[i].invalid \in Nat
      BY <1>5, <2>1
    <3> QED
      BY <2>5, <2>6, <3>1, <3>2, <3>3
  <2>9. new.fresh + new.changed + new.invalid = Counted(i)'
    BY <2>3, <2>7, <2>8
  <2> QED
    BY <1>5, <1>6, <1>8, <2>9, SameJob DEF CountsKept
<1>18. /\ \A j \in Intakes \ {i} : Absentee!Before(j)' = Absentee!Before(j)
       /\ Absentee!Before(i)' = Absentee!Before(i) \cup {c[k] : k \in valid}
  <2>1. 1..(intake[i].offset + 1) = (1..intake[i].offset) \cup {intake[i].offset + 1}
    BY <1>2
  <2>2. Absentee!Before(i)' = UNION {{intake[i].file[d][k] : k \in Absentee!Valid(intake[i].file[d])}
                                       : d \in 1..(intake[i].offset + 1)}
    BY <1>6, <1>8 DEF Absentee!Before
  <2>3. Absentee!Before(i)' = Absentee!Before(i) \cup {c[k] : k \in valid}
    <3> DEFINE said(d) == {intake[i].file[d][k] : k \in Absentee!Valid(intake[i].file[d])}
    <3>1. Absentee!Before(i) = UNION {said(d) : d \in 1..intake[i].offset}
      BY DEF Absentee!Before
    <3>2. said(intake[i].offset + 1) = {c[k] : k \in valid}
      BY <1>2
    <3> HIDE DEF said
    <3>3. UNION {said(d) : d \in (1..intake[i].offset) \cup {intake[i].offset + 1}}
            = (UNION {said(d) : d \in 1..intake[i].offset}) \cup said(intake[i].offset + 1)
      OBVIOUS
    <3>4. Absentee!Before(i)' = UNION {said(d) : d \in 1..(intake[i].offset + 1)}
      BY <2>2 DEF said
    <3> QED
      BY <2>1, <3>1, <3>2, <3>3, <3>4
  <2> QED
    BY <1>8, <2>3, SameJob
<1>19. Absentee!CheckpointTells'
  <2>1. ASSUME NEW j \in Intakes, NEW r \in Absentee!Before(j)
        PROVE  \E n \in DOMAIN ballot' : ballot'[n].key = r.key /\ ballot'[n].dated = r.dated
    <3>1. PICK n \in DOMAIN ballot : ballot[n].key = r.key /\ ballot[n].dated = r.dated
      BY DEF Absentee!AbsenteeHold, Absentee!CheckpointTells
    <3>2. CASE n \in DOMAIN entered[i]
      <4>1. ballot'[n].key = ballot[n].key /\ n \in DOMAIN ballot' /\ ballot'[n].dated /\ ballot[n].dated
        BY <1>10, <1>11, <3>1, <3>2
      <4>2. r.dated \in BOOLEAN
        <5>1. PICK d \in 1..intake[j].offset : \E k \in Absentee!Valid(intake[j].file[d]) : r = intake[j].file[d][k]
          BY DEF Absentee!Before
        <5>2. /\ intake[j].file \in BallotFiles \cup {<<>>} /\ intake[j].offset \in Nat
              /\ intake[j].offset =< Len(intake[j].file)
          BY DEF BallotTypes, BallotJob
        <5>3. intake[j].file \in Seq(Seq(Applications))
          BY <5>2, BallotFacts
        <5>4. d \in 1..Len(intake[j].file)
          BY <5>2, <5>3
        <5>5. intake[j].file[d] \in Seq(Applications)
          BY <5>3, <5>4
        <5>6. r \in Applications
          BY <5>1, <5>5 DEF Absentee!Valid
        <5> QED
          BY <5>6, BallotFacts
      <4>3. ballot'[n].dated \in BOOLEAN
        <5>1. PICK k \in valid : ballot'[n].dated = c[k].dated
          BY <1>10, <1>12, <3>2 DEF SaidBy, Says
        <5> QED
          BY <1>1, <1>3, <5>1, ChunkIs
      <4> QED
        BY <3>1, <4>1, <4>2, <4>3
    <3>3. CASE n \notin DOMAIN entered[i]
      BY <1>10, <3>1, <3>3
    <3> QED
      BY <3>2, <3>3
  <2>2. ASSUME NEW k \in valid
        PROVE  \E n \in DOMAIN ballot' : ballot'[n].key = c[k].key /\ ballot'[n].dated = c[k].dated
    BY <1>10, <1>12 DEF WrittenAs
  <2>3. ASSUME NEW n \in DOMAIN ballot', NEW j \in Intakes, ballot'[n].of = j
        PROVE  \E r \in Absentee!Before(j)' :
                 ballot'[n].key = r.key /\ ballot'[n].dated = r.dated /\ ballot'[n].data = r.data
    <3>1. CASE n \in DOMAIN entered[i]
      <4>1. ballot'[n] = entered[i][n] /\ j = i /\ SaidBy(i, n)
        BY <1>10, <1>12, <2>3, <3>1
      <4> QED
        BY <1>18, <4>1 DEF SaidBy, Says
    <3>2. CASE n \notin DOMAIN entered[i]
      <4>1. n \in DOMAIN ballot /\ ballot'[n] = ballot[n]
        BY <1>10, <3>2
      <4>2. \E r \in Absentee!Before(j) :
              ballot[n].key = r.key /\ ballot[n].dated = r.dated /\ ballot[n].data = r.data
        BY <2>3, <4>1 DEF Absentee!AbsenteeHold, Absentee!CheckpointTells
      <4> QED
        BY <1>18, <4>1, <4>2
    <3> QED
      BY <3>1, <3>2
  <2>4. ASSUME NEW j \in Intakes, NEW r \in Absentee!Before(j)'
        PROVE  \E n \in DOMAIN ballot' : ballot'[n].key = r.key /\ ballot'[n].dated = r.dated
    BY <1>18, <2>1, <2>2
  <2> QED
    BY <2>3, <2>4 DEF Absentee!CheckpointTells
<1>20. LatestThere'
  <2> DEFINE keys == {c[k].key : k \in Absentee!Dated(c)}
  <2>1. latest' = Absentee!Over([key \in keys |-> c[Absentee!Newest(c, key)].data], latest)
    BY DEF Absentee!CommitChunk
  <2>2. /\ DOMAIN latest' = keys \cup DOMAIN latest
        /\ \A key \in keys : latest'[key] = c[Absentee!Newest(c, key)].data
        /\ \A key \in DOMAIN latest : key \notin keys => latest'[key] = latest[key]
    <3> HIDE DEF keys
    <3> QED
      BY <2>1 DEF Absentee!Over
  <2>3. ASSUME NEW key \in keys
        PROVE  \E n \in DOMAIN ballot' :
                 ballot'[n].dated /\ ballot'[n].key = key /\ ballot'[n].data = latest'[key]
    <3> DEFINE said == {k \in Absentee!Dated(c) : c[k].key = key}
               k0 == Absentee!Newest(c, key)
    <3>1. said # {} /\ said \in SUBSET Nat /\ \A k \in said : k =< Len(c)
      <4>1. \A k \in Absentee!Dated(c) : k \in Nat /\ k =< Len(c)
        BY <1>3
      <4> QED
        BY <4>1
    <3>2. \E k \in said : \A m \in said : m =< k
      <4> HIDE DEF said
      <4> QED
        BY <1>3, <3>1, GreatestNatural
    <3>3. /\ k0 \in Absentee!Dated(c) /\ c[k0].key = key
          /\ \A m \in Absentee!Dated(c) : c[m].key = key => m =< k0
      <4>1. \E k : /\ k \in Absentee!Dated(c) /\ c[k].key = key
                   /\ \A m \in Absentee!Dated(c) : c[m].key = key => m =< k
        BY <3>2
      <4> QED
        BY <4>1 DEF Absentee!Newest
    <3> HIDE DEF k0
    <3>4. c[k0].dated /\ k0 \in valid /\ k0 \in Nat
      BY <1>3, <3>3 DEF Absentee!Dated
    <3>5. ~SaidAgain(i, k0)
      <4> SUFFICES ASSUME SaidAgain(i, k0) PROVE FALSE
        OBVIOUS
      <4>1. PICK m \in Absentee!Dated(c) : k0 < m /\ c[m].key = key
        BY <3>3 DEF SaidAgain
      <4>2. m \in Nat /\ m =< k0
        BY <1>3, <3>3, <4>1
      <4> QED
        BY <3>4, <4>1, <4>2
    <3>6. PICK n \in DOMAIN entered[i] :
            /\ entered[i][n].key = c[k0].key /\ entered[i][n].dated = c[k0].dated
            /\ entered[i][n].data = c[k0].data
      BY <1>12, <3>4, <3>5 DEF WrittenAs
    <3>7. latest'[key] = c[k0].data
      BY <2>2 DEF k0
    <3>8. n \in DOMAIN ballot' /\ ballot'[n] = entered[i][n]
      BY <1>10
    <3> QED
      BY <3>3, <3>4, <3>6, <3>7, <3>8
  <2>4. ASSUME NEW key \in DOMAIN latest, key \notin keys
        PROVE  \E n \in DOMAIN ballot' :
                 ballot'[n].dated /\ ballot'[n].key = key /\ ballot'[n].data = latest'[key]
    <3>1. PICK n \in DOMAIN ballot : ballot[n].dated /\ ballot[n].key = key /\ ballot[n].data = latest[key]
      BY DEF LatestThere
    <3>2. n \notin DOMAIN entered[i]
      <4> SUFFICES ASSUME n \in DOMAIN entered[i] PROVE FALSE
        OBVIOUS
      <4>1. entered[i][n].dated /\ entered[i][n].key = key
        BY <1>11, <3>1
      <4>2. PICK k \in valid : c[k].key = key /\ c[k].dated
        BY <1>12, <4>1 DEF SaidBy, Says
      <4>3. k \in Absentee!Dated(c)
        BY <4>2 DEF Absentee!Dated
      <4> QED
        BY <2>4, <4>2, <4>3
    <3> QED
      BY <1>10, <2>2, <2>4, <3>1, <3>2
  <2> QED
    BY <2>2, <2>3, <2>4 DEF LatestThere
<1>21. TotalThere' /\ Absentee!StatsCover'
  <2>1. UNCHANGED stats
    BY DEF Absentee!CommitChunk
  <2>2. Cardinality(DOMAIN ballot) =< Cardinality(DOMAIN ballot') /\ Cardinality(DOMAIN ballot) \in Nat
        /\ Cardinality(DOMAIN ballot') \in Nat
    <3>1. DOMAIN ballot \subseteq DOMAIN ballot'
      BY <1>10
    <3>2. IsFiniteSet(DOMAIN ballot')
      <4>1. IsFiniteSet(1..MaxBallots)
        BY BallotFacts, FS_Interval
      <4>2. DOMAIN ballot' \subseteq 1..MaxBallots
        BY <1>14 DEF BallotTypes
      <4> QED
        BY <4>1, <4>2, FS_Subset
    <3> QED
      BY <3>1, <3>2, FS_Subset, FS_CardinalityType, BallotsFinite
  <2>3. stats.total # Nil => stats.total =< Cardinality(DOMAIN ballot')
    <3> SUFFICES ASSUME stats.total # Nil PROVE stats.total =< Cardinality(DOMAIN ballot')
      OBVIOUS
    <3>1. stats.total \in Nat /\ stats.total =< Cardinality(DOMAIN ballot)
      BY DEF TotalThere
    <3> QED
      BY <2>2, <3>1
  <2> QED
    BY <2>1, <2>3 DEF TotalThere, Absentee!AbsenteeHold, Absentee!StatsCover
<1>22. Absentee!LatestCommitted'
  BY <1>15, <1>20 DEF OneKey, LatestThere, Absentee!LatestCommitted
<1>23. Absentee!CountsAddUp'
  <2>1. ASSUME NEW j \in Intakes, intake'[j].status = "completed" PROVE j # i
    BY <1>5, <1>6, <1>8, <2>1
  <2> QED
    BY <1>8, <2>1 DEF Absentee!AbsenteeHold, Absentee!CountsAddUp
<1> QED
  BY <1>14, <1>15, <1>16, <1>17, <1>19, <1>20, <1>21, <1>22, <1>23 DEF Absentee!AbsenteeHold
-----------------------------------------------------------------------------
(* Every step of the imports keeps the invariant.                           *)
LEMMA BallotsStep == BallotsInv /\ [Absentee!Next]_ballots => BallotsInv'
<1> SUFFICES ASSUME BallotsInv, [Absentee!Next]_ballots PROVE BallotsInv'
  OBVIOUS
<1>1. CASE Absentee!CountTotal \/ Absentee!CountCounties
  BY <1>1, BallotsCount
<1>2. ASSUME NEW i \in Intakes,
             \/ Absentee!Begin(i) \/ Absentee!Upsert(i) \/ Absentee!CommitChunk(i)
             \/ Absentee!Complete(i) \/ Absentee!Fail(i) \/ Absentee!Die(i)
      PROVE  BallotsInv'
  BY <1>2, BallotsBegin, BallotsUpsert, BallotsCommit, BallotsComplete, BallotsGone
<1>3. CASE UNCHANGED ballots
  <2>1. UNCHANGED <<ballot, entered, intake, latest, stats>>
    BY <1>3 DEF ballots
  <2>2. BallotTypes' /\ OneKey' /\ LatestThere' /\ TotalThere'
    BY <2>1 DEF BallotsInv, BallotTypes, OneKey, LatestThere, TotalThere, Absentee!SameKey
  <2>3. Entries' /\ CountsKept'
    BY <2>1, SameJob DEF BallotsInv, Entries, EntriesOf, SaidBy, SaidAgain, WrittenAs, CountsKept
  <2>4. Absentee!AbsenteeHold'
    BY <2>1, SameJob DEF BallotsInv, Absentee!AbsenteeHold, Absentee!LatestCommitted, Absentee!SameKey,
       Absentee!CheckpointTells, Absentee!CountsAddUp, Absentee!StatsCover
  <2> QED
    BY <2>2, <2>3, <2>4 DEF BallotsInv
<1> QED
  BY <1>1, <1>2, <1>3 DEF Absentee!Next

(* A dated application has one row, with the data committed last, a job's   *)
(* rows are those of the chunks before its checkpoint, and its counts and   *)
(* the statistics add up (process_absentee_import, get_absentee_stats).     *)
THEOREM AbsenteeTheorem == ImportsSpec => []AbsenteeHold
<1> DEFINE Inv == part = "absentee" => BallotsInv
<1>1. ImportsInit => Inv
  BY BallotsInit DEF ImportsInit
<1>2. Inv /\ [ImportsNext]_<<part, vars, imported>> => Inv'
  <2> SUFFICES ASSUME Inv, [ImportsNext]_<<part, vars, imported>>, part' = "absentee" PROVE BallotsInv'
    OBVIOUS
  <2>1. part = "absentee" /\ [Absentee!Next]_ballots
    BY DEF ImportsNext, imported
  <2> QED
    BY <2>1, BallotsStep
<1>3. Inv => AbsenteeHold
  BY DEF BallotsInv, AbsenteeHold
<1> QED
  BY <1>1, <1>2, <1>3, PTL DEF ImportsSpec

-----------------------------------------------------------------------------
(* Candidates.  Line(j, x, n): a record of the chunk that is being read.   *)
LoadFields == {"status", "pc", "offset", "pos", "cache", "kept", "wrote", "lost",
               "total", "good", "errors"}
Line(j, x, n) == Lists[j][x.offset + 1][n]

LoadTypes(j, x) ==
  /\ DOMAIN x = LoadFields
  /\ x.offset \in Nat /\ x.offset =< Len(Lists[j]) /\ x.pos \in Nat \ {0}
  /\ x.total \in Nat /\ x.good \in Nat /\ x.errors \in Nat
  /\ x.offset < Len(Lists[j]) => x.pos - 1 =< Len(Lists[j][x.offset + 1])
  /\ x.offset = Len(Lists[j]) => x.pos = 1
  /\ DOMAIN x.kept \subseteq 1 .. (x.pos - 1)
  /\ x.pc \in {"resolve", "create"} => x.offset < Len(Lists[j])
  /\ x.pc = "create" => /\ x.pos =< Len(Lists[j][x.offset + 1])
                        /\ Roster!Valid(Line(j, x, x.pos)) /\ Roster!Key(Line(j, x, x.pos)) \notin DOMAIN x.cache
  /\ x.pc = "final" \/ x.status = "completed" => x.offset = Len(Lists[j])
  /\ x.status \in {"none", "pending"} => x.offset = 0
  /\ x.pc # "idle" => x.status = "running"

(* What is kept of the chunk, and what was written of those before, is of  *)
(* the election that was found for the contest at the record's place.      *)
CacheFits(x) ==
  \A g \in DOMAIN x.cache : x.cache[g] \in Roster!Elections /\ x.cache[g][1] = g[1]
KeptFits(j, x) ==
  \A n \in DOMAIN x.kept :
    /\ Roster!Valid(Line(j, x, n)) /\ Roster!Key(Line(j, x, n)) \in DOMAIN x.cache
    /\ x.kept[n] = x.cache[Roster!Key(Line(j, x, n))]
WroteFits(j, x) ==
  \A p \in DOMAIN x.wrote :
    /\ p \in Roster!Places(j, x.offset) /\ Roster!Key(Roster!At(j, p)) \in DOMAIN x.cache
    /\ x.wrote[p] = x.cache[Roster!Key(Roster!At(j, p))]

(* Every record read is counted, but those that are named again.           *)
Repeated(j, x) == Roster!Again(j) \cap Roster!Places(j, x.offset)
CountsFit(j, x) ==
  /\ x.total = Cardinality(Roster!Places(j, x.offset))
  /\ x.good + x.errors + Cardinality(DOMAIN x.kept) =< x.total + (x.pos - 1)
  /\ x.total + (x.pos - 1) =<
       x.good + x.errors + Cardinality(DOMAIN x.kept) + Cardinality(Repeated(j, x))
LoadFits(j, x) ==
  LoadTypes(j, x) /\ CacheFits(x) /\ KeptFits(j, x) /\ WroteFits(j, x) /\ CountsFit(j, x)

RosterTypes ==
  /\ DOMAIN loading = Loads /\ DOMAIN fresh = Loads
  /\ contested \subseteq Roster!Elections /\ gone \subseteq Roster!Elections /\ IsFiniteSet(gone)
  /\ \A j \in Loads : fresh[j] \subseteq Roster!Elections
  /\ DOMAIN candidate \subseteq Roster!Candidates
  /\ \A c \in DOMAIN candidate : DOMAIN candidate[c] = {"filing", "by"}
(* A candidacy is of the election of its candidate's row.                  *)
CandidaciesFit ==
  \A p \in DOMAIN candidacy :
    p \in Roster!Candidates \X Roster!Elections /\ p[2] = p[1][1] /\ candidacy[p].by \in Loads
OfImports == \A c \in DOMAIN candidate : candidate[c].by # Roster!None => <<c, c[1]>> \in DOMAIN candidacy

(* The records that stand for a candidate in what is written; the last one *)
(* of them wins.                                                           *)
Stands(j, w, c) == {p \in DOMAIN w : w[p] = c[1] /\ Roster!At(j, p).who = c[2]}
Wins(row, c, w) ==
  \E q \in Stands(row.by, w, c) :
    /\ \A r \in Stands(row.by, w, c) : Roster!UpTo(r, q)
    /\ row.filing = Roster!Filing(Roster!At(row.by, q))
WinsHold == \A p \in DOMAIN candidacy : Wins(candidacy[p], p[1], loading[candidacy[p].by].wrote)

RosterInv ==
  /\ RosterTypes /\ CandidaciesFit /\ OfImports /\ WinsHold
  /\ \A j \in Loads : LoadFits(j, loading[j])

(* The last record wins.                                                   *)
LEMMA WinsIs == Roster!LastRecordWins <=> WinsHold
BY DEF Roster!LastRecordWins, Roster!Naming, WinsHold, Wins, Stands

(* The instance's cardinality is that of the library.                       *)
LEMMA RosterCards == \A S : Roster!Cardinality(S) = Cardinality(S)
BY DEF Roster!Cardinality, Cardinality, Roster!IsFiniteSet, IsFiniteSet

(* What the assumption says of the files, their chunks and records.         *)
LEMMA ListFacts ==
  ASSUME NEW j \in Loads
  PROVE  /\ Lists[j] \in Seq(Seq(Lines)) /\ Len(Lists[j]) \in Nat
         /\ DOMAIN Lists[j] = 1 .. Len(Lists[j])
         /\ \A c \in 1 .. Len(Lists[j]) :
              /\ Lists[j][c] \in Seq(Lines) /\ Len(Lists[j][c]) \in Nat
              /\ DOMAIN Lists[j][c] = 1 .. Len(Lists[j][c])
              /\ \A n \in 1 .. Len(Lists[j][c]) : Lists[j][c][n] \in Lines
         /\ \A r \in Lines : Roster!Valid(r) => r.contest \in Races /\ r.form \in Forms /\ r.who \in People
         /\ Roster!None \notin Loads
<1>1. /\ Lists \in [Loads -> Seq(Seq(Lines))] /\ Roster!None \notin Loads
      /\ \A r \in Lines : Roster!Valid(r) => r.contest \in Races /\ r.form \in Forms /\ r.who \in People
  BY ImportsAssumption DEF Roster!CandidateAssumption
<1>2. Lists[j] \in Seq(Seq(Lines))
  BY <1>1
<1>3. Len(Lists[j]) \in Nat /\ DOMAIN Lists[j] = 1 .. Len(Lists[j])
      /\ \A c \in 1 .. Len(Lists[j]) : Lists[j][c] \in Seq(Lines)
  BY <1>2
<1>4. \A s \in Seq(Lines) : /\ Len(s) \in Nat /\ DOMAIN s = 1 .. Len(s)
                            /\ \A n \in 1 .. Len(s) : s[n] \in Lines
  OBVIOUS
<1> QED
  BY <1>1, <1>2, <1>3, <1>4

(* A part of a chunk is not larger than the chunk.                          *)
LEMMA PartOf ==
  ASSUME NEW S, NEW n \in Int, S \subseteq 1 .. n
  PROVE  IsFiniteSet(S) /\ Cardinality(S) \in Nat
<1>1. IsFiniteSet(1 .. n)
  BY FS_Interval
<1>2. IsFiniteSet(S)
  BY <1>1, FS_Subset
<1> QED
  BY <1>2, FS_CardinalityType

(* A record more is read: the sums by which it is counted.                  *)
LEMMA CountGoes ==
  \A a, b, e, p, t, g \in Nat :
    g + e + a =< t + (p - 1) /\ t + (p - 1) =< g + e + a + b =>
      /\ g + (e + 1) + a =< t + ((p + 1) - 1) /\ t + ((p + 1) - 1) =< g + (e + 1) + a + b
      /\ g + e + (a + 1) =< t + ((p + 1) - 1) /\ t + ((p + 1) - 1) =< g + e + (a + 1) + b
OBVIOUS

(* The places of the first chunks, counted.                                *)
LEMMA PlacesGrow ==
  ASSUME NEW j \in Loads, NEW c \in Nat, c < Len(Lists[j])
  PROVE  /\ Roster!Places(j, c + 1) = Roster!Places(j, c) \cup ({c + 1} \X DOMAIN Lists[j][c + 1])
         /\ Roster!Places(j, c) \cap ({c + 1} \X DOMAIN Lists[j][c + 1]) = {}
<1>1. 1 .. (c + 1) = (1 .. c) \cup {c + 1} /\ c + 1 \notin 1 .. c
  OBVIOUS
<1> QED
  BY <1>1 DEF Roster!Places

(* The records of the first chunks are finitely many.                       *)
LEMMA PlacesFinite ==
  ASSUME NEW j \in Loads, NEW c \in Nat, c =< Len(Lists[j])
  PROVE  IsFiniteSet(Roster!Places(j, c))
<1>1. \A i \in 1 .. c : IsFiniteSet({i} \X DOMAIN Lists[j][i])
  <2> SUFFICES ASSUME NEW i \in 1 .. c PROVE IsFiniteSet({i} \X DOMAIN Lists[j][i])
    OBVIOUS
  <2>1. IsFiniteSet(DOMAIN Lists[j][i])
    <3>1. i \in 1 .. Len(Lists[j])
      BY ListFacts
    <3>2. Len(Lists[j][i]) \in Nat /\ DOMAIN Lists[j][i] = 1 .. Len(Lists[j][i])
      BY <3>1, ListFacts
    <3> DEFINE n == Len(Lists[j][i])
    <3>3. n \in Int /\ DOMAIN Lists[j][i] = 1 .. n /\ 1 \in Int
      BY <3>2
    <3> HIDE DEF n
    <3>4. IsFiniteSet(1 .. n)
      BY <3>3, FS_Interval
    <3> QED
      BY <3>3, <3>4
  <2> QED
    BY <2>1, FS_Singleton, FS_Product
<1>2. IsFiniteSet({{i} \X DOMAIN Lists[j][i] : i \in 1 .. c})
  <2>1. IsFiniteSet(1 .. c)
    BY FS_Interval
  <2> DEFINE f == [i \in 1 .. c |-> {i} \X DOMAIN Lists[j][i]]
             T == {{i} \X DOMAIN Lists[j][i] : i \in 1 .. c}
  <2>2. f \in Surjection(1 .. c, T)
    BY DEF Surjection
  <2> QED
    BY <2>1, <2>2, FS_Surjection
<1> QED
  BY <1>1, <1>2, FS_UNION DEF Roster!Places

(* No job has begun.                                                        *)
LEMMA RosterInit == Roster!Init => RosterInv
<1> SUFFICES ASSUME Roster!Init PROVE RosterInv
  OBVIOUS
<1>1. /\ DOMAIN loading = Loads /\ DOMAIN fresh = Loads /\ \A j \in Loads : fresh[j] = {}
      /\ DOMAIN candidate = {} /\ DOMAIN candidacy = {} /\ \A j \in Loads : loading[j] = Roster!NoJob
      /\ gone = {}
  BY DEF Roster!Init
<1>2. contested \subseteq Roster!Elections
  <2>1. (CHOOSE f \in Forms : TRUE) \in Forms
    BY ImportsAssumption DEF Roster!CandidateAssumption
  <2> QED
    BY <2>1 DEF Roster!Init, Roster!Elections
<1>3. RosterTypes /\ CandidaciesFit /\ OfImports /\ WinsHold
  BY <1>1, <1>2, FS_EmptySet DEF RosterTypes, CandidaciesFit, OfImports, WinsHold
<1>4. ASSUME NEW j \in Loads PROVE LoadFits(j, Roster!NoJob)
  <2> DEFINE x == Roster!NoJob
  <2>1. /\ DOMAIN x = LoadFields /\ x.offset = 0 /\ x.pos = 1 /\ x.total = 0 /\ x.good = 0 /\ x.errors = 0
        /\ DOMAIN x.kept = {} /\ DOMAIN x.wrote = {} /\ DOMAIN x.cache = {} /\ x.pc = "idle"
        /\ x.status = "none"
    BY DEF Roster!NoJob, LoadFields
  <2> HIDE DEF x
  <2>2. 1 .. (x.pos - 1) = {}
    BY <2>1
  <2>3. LoadTypes(j, x) 
    <3>1. Len(Lists[j]) \in Nat /\ (0 < Len(Lists[j]) => Len(Lists[j][1]) \in Nat)
      BY ListFacts
    <3> QED
      BY <2>1, <3>1 DEF LoadTypes
  <2>4. CacheFits(x) /\ KeptFits(j, x) /\ WroteFits(j, x)
    BY <2>1 DEF CacheFits, KeptFits, WroteFits
  <2>5. CountsFit(j, x)
    <3>1. Roster!Places(j, 0) = {}
      BY DEF Roster!Places
    <3> QED
      BY <2>1, <3>1, FS_EmptySet DEF CountsFit, Repeated
  <2> QED
    BY <2>3, <2>4, <2>5 DEF LoadFits, x
<1> QED
  BY <1>1, <1>3, <1>4 DEF RosterInv

(* A job that only moves on, within its chunk.                             *)
LEMMA LoadMoves ==
  ASSUME RosterInv, NEW j \in Loads, NEW y, loading' = [loading EXCEPT ![j] = y],
         UNCHANGED <<contested, gone, candidate, candidacy>>,
         DOMAIN fresh' = Loads, \A k \in Loads : fresh'[k] \subseteq Roster!Elections,
         y.wrote = loading[j].wrote, LoadFits(j, y)
  PROVE  RosterInv'
<1> USE DEF RosterInv
<1>1. DOMAIN loading' = Loads /\ loading'[j] = y /\ \A k \in Loads \ {j} : loading'[k] = loading[k]
  BY DEF RosterTypes
<1>2. RosterTypes'
  BY <1>1 DEF RosterTypes
<1>3. CandidaciesFit'
  BY <1>1 DEF CandidaciesFit
<1>4. OfImports'
  BY DEF OfImports
<1>5. WinsHold'
  <2>1. \A k \in Loads : loading'[k].wrote = loading[k].wrote
    BY <1>1
  <2> QED
    BY <2>1 DEF WinsHold, CandidaciesFit
<1>6. ASSUME NEW k \in Loads PROVE LoadFits(k, loading[k])' 
  BY <1>1
<1> QED
  BY <1>2, <1>3, <1>4, <1>5, <1>6

(* Steps that leave the counts, and what is read, alone.                   *)
LEMMA LoadTurns ==
  ASSUME NEW j \in Loads, NEW x, NEW y, LoadFits(j, x), DOMAIN y = LoadFields,
         y.offset = x.offset, y.pos = x.pos, y.cache = x.cache, y.kept = x.kept, y.wrote = x.wrote,
         y.total = x.total, y.good = x.good, y.errors = x.errors,
         y.pc \in {"resolve", "create"} => y.offset < Len(Lists[j]),
         y.pc = "create" =>
           /\ y.pos =< Len(Lists[j][y.offset + 1])
           /\ Roster!Valid(Line(j, y, y.pos)) /\ Roster!Key(Line(j, y, y.pos)) \notin DOMAIN y.cache,
         y.pc = "final" \/ y.status = "completed" => y.offset = Len(Lists[j]),
         y.status \in {"none", "pending"} => y.offset = 0, y.pc # "idle" => y.status = "running"
  PROVE  LoadFits(j, y)
<1>1. \A n : Line(j, y, n) = Line(j, x, n)
  BY DEF Line
<1>2. LoadTypes(j, y)
  BY <1>1 DEF LoadFits, LoadTypes
<1>3. CacheFits(y) /\ KeptFits(j, y)
  BY <1>1 DEF LoadFits, CacheFits, KeptFits
<1>4. WroteFits(j, y)
  BY DEF LoadFits, WroteFits
<1>5. CountsFit(j, y)
  BY DEF LoadFits, CountsFit, Repeated
<1> QED
  BY <1>2, <1>3, <1>4, <1>5 DEF LoadFits

(* The record is an error.                                                 *)
LEMMA LoadErrs ==
  ASSUME RosterInv, NEW j \in Loads, NEW y, DOMAIN y = LoadFields,
         loading[j].pc \in {"resolve", "create"},
         loading[j].pos =< Len(Lists[j][loading[j].offset + 1]),
         y.offset = loading[j].offset, y.pos = loading[j].pos + 1, y.cache = loading[j].cache,
         y.kept = loading[j].kept, y.wrote = loading[j].wrote, y.total = loading[j].total, y.good = loading[j].good,
         y.errors = loading[j].errors + 1, y.pc = "resolve", y.status = loading[j].status
  PROVE  LoadFits(j, y)
<1> DEFINE x == loading[j]
<1>0. LoadFits(j, x)
  BY DEF RosterInv
<1>1. \A n : Line(j, y, n) = Line(j, x, n)
  BY DEF Line
<1>2. /\ x.pos \in Nat \ {0} /\ x.offset \in Nat /\ x.total \in Nat /\ x.good \in Nat
      /\ x.errors \in Nat /\ DOMAIN x.kept \subseteq 1 .. (x.pos - 1) /\ x.offset < Len(Lists[j])
      /\ x.offset =< Len(Lists[j])
  BY <1>0 DEF LoadFits, LoadTypes
<1>3. Len(Lists[j][x.offset + 1]) \in Nat /\ Len(Lists[j]) \in Nat
  <2>1. Len(Lists[j]) \in Nat
    BY ListFacts
  <2>2. \A m, n \in Nat : m < n => m + 1 \in 1 .. n
    OBVIOUS
  <2>3. x.offset + 1 \in 1 .. Len(Lists[j])
    BY <1>2, <2>1, <2>2
  <2> QED
    BY <2>1, <2>3, ListFacts
<1>4. 1 .. (y.pos - 1) = (1 .. (x.pos - 1)) \cup {x.pos}
  BY <1>2
<1>5. LoadTypes(j, y)
  <2>1. DOMAIN y.kept \subseteq 1 .. (y.pos - 1)
    BY <1>2, <1>4
  <2>2. y.pos - 1 =< Len(Lists[j][y.offset + 1]) /\ y.pos \in Nat \ {0} /\ y.errors \in Nat
    <3>1. x.pos =< Len(Lists[j][x.offset + 1]) /\ y.pos = x.pos + 1 /\ y.offset = x.offset
          /\ y.errors = x.errors + 1
      BY DEF x
    <3> HIDE DEF x
    <3>2. y.pos \in Nat \ {0} /\ y.errors \in Nat /\ y.pos - 1 = x.pos
      <4>1. \A n \in Nat : n + 1 \in Nat \ {0} /\ n + 1 \in Nat /\ (n + 1) - 1 = n
        OBVIOUS
      <4>2. x.pos \in Nat /\ x.errors \in Nat
        BY <1>2
      <4> QED
        BY <3>1, <4>1, <4>2
    <3> QED
      BY <3>1, <3>2
  <2>3. y.offset # Len(Lists[j])
    BY <1>2, <1>3
  <2>4. /\ (y.status = "completed" => y.offset = Len(Lists[j]))
        /\ (y.status \in {"none", "pending"} => y.offset = 0) /\ y.status = "running"
    BY <1>0 DEF LoadFits, LoadTypes
  <2> QED
    BY <1>2, <2>1, <2>2, <2>3, <2>4 DEF LoadTypes
<1>6. CacheFits(y) /\ KeptFits(j, y)
  BY <1>0, <1>1 DEF LoadFits, CacheFits, KeptFits
<1>7. WroteFits(j, y)
  BY <1>0 DEF LoadFits, WroteFits
<1>8. CountsFit(j, y)
  <2> DEFINE a == Cardinality(DOMAIN x.kept)
             b == Cardinality(Repeated(j, x))
             e == x.errors
             p == x.pos
             t == x.total
             g == x.good
  <2>1. a \in Nat
    <3>1. x.pos - 1 \in Int
      BY <1>2
    <3> QED
      BY <1>2, <3>1, PartOf
  <2>2. b \in Nat
    BY <1>2, PlacesFinite, FS_Subset, FS_CardinalityType DEF Repeated
  <2>3. /\ t = Cardinality(Roster!Places(j, x.offset))
        /\ g + e + a =< t + (p - 1) /\ t + (p - 1) =< g + e + a + b
    BY <1>0 DEF LoadFits, CountsFit
  <2>4. e \in Nat /\ p \in Nat /\ t \in Nat /\ g \in Nat
    BY <1>2
  <2>5. Repeated(j, y) = Repeated(j, x)
    BY DEF Repeated
  <2> HIDE DEF a, b, e, p, t, g
  <2>6. g + (e + 1) + a =< t + ((p + 1) - 1) /\ t + ((p + 1) - 1) =< g + (e + 1) + a + b
    BY <2>1, <2>2, <2>3, <2>4, CountGoes
  <2> QED
    BY <2>3, <2>5, <2>6 DEF CountsFit, a, b, e, p, t, g
<1> QED
  BY <1>5, <1>6, <1>7, <1>8 DEF LoadFits

(* The record is kept with the election of its contest.                    *)
LEMMA LoadKeeps ==
  ASSUME RosterInv, NEW j \in Loads, NEW e \in Roster!Elections, Roster!Keep(j, e),
         loading[j].pc \in {"resolve", "create"},
         loading[j].pos =< Len(Lists[j][loading[j].offset + 1]),
         Roster!Valid(Line(j, loading[j], loading[j].pos)),
         e[1] = Line(j, loading[j], loading[j].pos).contest,
         NEW key, key = Roster!Key(Line(j, loading[j], loading[j].pos)),
         key \in DOMAIN loading[j].cache => loading[j].cache[key] = e,
         UNCHANGED <<contested, gone, candidate, candidacy>>,
         DOMAIN fresh' = Loads, \A k \in Loads : fresh'[k] \subseteq Roster!Elections
  PROVE  RosterInv'
<1> DEFINE x     == loading[j]
           here  == x.pos
           keptNow  == Roster!Over([n \in {here} |-> e], x.kept)
           cacheNow == Roster!Over([c \in {key} |-> e], x.cache)
           y     == [x EXCEPT !.kept = keptNow, !.cache = cacheNow, !.pos = here + 1, !.pc = "resolve"]
<1>0. LoadFits(j, x) /\ x.pc \in {"resolve", "create"}
  BY DEF RosterInv
<1>1. /\ x.pos \in Nat \ {0} /\ x.offset \in Nat /\ x.total \in Nat /\ x.good \in Nat
      /\ x.errors \in Nat /\ DOMAIN x.kept \subseteq 1 .. (x.pos - 1) /\ x.offset < Len(Lists[j])
      /\ x.offset =< Len(Lists[j]) /\ DOMAIN x = LoadFields
  BY <1>0 DEF LoadFits, LoadTypes
<1>2. loading' = [loading EXCEPT ![j] = y]
  <2>1. Roster!Key(Roster!Record(j)) = key
    BY DEF Roster!Record, Roster!Chunk, Line
  <2> QED
    BY <1>1, <2>1 DEF Roster!Keep, RosterInv, RosterTypes, LoadFields
<1>3. /\ DOMAIN y = LoadFields /\ y.offset = x.offset /\ y.total = x.total /\ y.good = x.good
      /\ y.errors = x.errors /\ y.pc = "resolve" /\ y.status = x.status
      /\ y.pos = here + 1 /\ y.kept = keptNow /\ y.cache = cacheNow /\ y.wrote = x.wrote
  BY <1>1 DEF LoadFields
<1>4. /\ DOMAIN keptNow = {here} \cup DOMAIN x.kept /\ keptNow[here] = e
      /\ here \notin DOMAIN x.kept /\ \A n \in DOMAIN x.kept : keptNow[n] = x.kept[n]
  <2>1. here \notin DOMAIN x.kept
    BY <1>1
  <2> QED
    BY <2>1 DEF Roster!Over
<1>5. /\ DOMAIN cacheNow = {key} \cup DOMAIN x.cache /\ cacheNow[key] = e
      /\ \A g \in DOMAIN x.cache : cacheNow[g] = x.cache[g]
  BY DEF Roster!Over
<1> HIDE DEF y, keptNow, cacheNow
<1>6. \A n : Line(j, y, n) = Line(j, x, n)
  BY <1>3 DEF Line
<1>7. Len(Lists[j][x.offset + 1]) \in Nat /\ Len(Lists[j]) \in Nat
  <2>1. x.offset + 1 \in 1 .. Len(Lists[j])
    BY <1>1, ListFacts
  <2> QED
    BY <2>1, ListFacts
<1>8. 1 .. (y.pos - 1) = (1 .. (here - 1)) \cup {here}
  BY <1>1, <1>3
<1>9. LoadTypes(j, y)
  <2>1. DOMAIN y.kept \subseteq 1 .. (y.pos - 1)
    BY <1>1, <1>3, <1>4, <1>8
  <2>2. y.pos - 1 =< Len(Lists[j][y.offset + 1]) /\ y.pos \in Nat \ {0}
    BY <1>1, <1>3
  <2>3. y.offset # Len(Lists[j])
    BY <1>1, <1>3, <1>7
  <2>4. /\ (y.status = "completed" => y.offset = Len(Lists[j]))
        /\ (y.status \in {"none", "pending"} => y.offset = 0) /\ y.status = "running"
    BY <1>0, <1>3 DEF LoadFits, LoadTypes
  <2> QED
    BY <1>1, <1>3, <2>1, <2>2, <2>3, <2>4 DEF LoadTypes
<1>10. CacheFits(y)
  <2>1. e[1] = key[1]
    BY DEF Roster!Key
  <2> QED
    BY <1>0, <1>3, <1>5, <2>1 DEF LoadFits, CacheFits
<1>11. KeptFits(j, y)
  BY <1>0, <1>3, <1>4, <1>5, <1>6 DEF LoadFits, KeptFits
<1>12. WroteFits(j, y)
  BY <1>0, <1>3, <1>5 DEF LoadFits, WroteFits
<1>13. CountsFit(j, y)
  <2> DEFINE a == Cardinality(DOMAIN x.kept)
             b == Cardinality(Repeated(j, x))
             f == x.errors
             p == x.pos
             t == x.total
             g == x.good
  <2>1. IsFiniteSet(DOMAIN x.kept) /\ a \in Nat
    <3>1. x.pos - 1 \in Int
      BY <1>1
    <3> QED
      BY <1>1, <3>1, PartOf
  <2>2. b \in Nat
    BY <1>1, PlacesFinite, FS_Subset, FS_CardinalityType DEF Repeated
  <2>3. /\ t = Cardinality(Roster!Places(j, x.offset))
        /\ g + f + a =< t + (p - 1) /\ t + (p - 1) =< g + f + a + b
    BY <1>0 DEF LoadFits, CountsFit
  <2>4. f \in Nat /\ p \in Nat /\ t \in Nat /\ g \in Nat
    BY <1>1
  <2>5. Repeated(j, y) = Repeated(j, x)
    BY <1>3 DEF Repeated
  <2>6. Cardinality(DOMAIN keptNow) = a + 1
    <3>1. DOMAIN keptNow = DOMAIN x.kept \cup {here}
      BY <1>4
    <3> QED
      BY <1>4, <2>1, <3>1, FS_AddElement
  <2> HIDE DEF a, b, f, p, t, g
  <2>7. g + f + (a + 1) =< t + ((p + 1) - 1) /\ t + ((p + 1) - 1) =< g + f + (a + 1) + b
    BY <2>1, <2>2, <2>3, <2>4, CountGoes
  <2> QED
    BY <1>3, <2>3, <2>5, <2>6, <2>7 DEF CountsFit, b, f, p, t, g
<1>14. LoadFits(j, y)
  BY <1>9, <1>10, <1>11, <1>12, <1>13 DEF LoadFits
<1> QED
  BY <1>2, <1>3, <1>5, <1>14, LoadMoves

(* A job is created, starts, completes or fails.                            *)
LEMMA LoadTurning ==
  ASSUME RosterInv, NEW j \in Loads,
         Roster!CreateJob(j) \/ Roster!StartJob(j) \/ Roster!Finish(j) \/ Roster!Fail(j)
  PROVE  RosterInv'
<1> DEFINE x  == loading[j]
           y1 == [x EXCEPT !.status = "pending"]
           y2 == [x EXCEPT !.status = "running", !.pc = IF Lists[j] = <<>> THEN "final" ELSE "resolve"]
           y3 == [x EXCEPT !.status = "completed", !.pc = "idle"]
           y4 == [x EXCEPT !.status = "failed", !.pc = "idle"]
<1>1. /\ UNCHANGED <<contested, gone, candidate, candidacy>> /\ DOMAIN fresh' = Loads
      /\ \A k \in Loads : fresh'[k] \subseteq Roster!Elections
  BY DEF Roster!CreateJob, Roster!StartJob, Roster!Finish, Roster!Fail, RosterInv, RosterTypes
<1>2. LoadFits(j, x)
  BY DEF RosterInv
<1>3. LoadTypes(j, x) /\ DOMAIN x = LoadFields
  BY <1>2 DEF LoadFits, LoadTypes
<1>4. CASE Roster!CreateJob(j)
  <2> DEFINE y == y1
  <2>1. loading' = [loading EXCEPT ![j] = y] /\ x.status = "none"
    BY <1>4 DEF Roster!CreateJob, RosterInv, RosterTypes
  <2>2. /\ DOMAIN y = LoadFields /\ y.status = "pending" /\ y.pc = x.pc /\ y.offset = x.offset
        /\ y.pos = x.pos /\ y.cache = x.cache /\ y.kept = x.kept /\ y.wrote = x.wrote /\ y.total = x.total
        /\ y.good = x.good /\ y.errors = x.errors
    BY <1>3 DEF LoadFields
  <2> HIDE DEF y
  <2>3. LoadFits(j, y)
    <3>1. \A n : Line(j, y, n) = Line(j, x, n)
      BY <2>2 DEF Line
    <3>2. x.offset = 0 /\ x.pc = "idle"
      BY <1>3, <2>1 DEF LoadTypes
    <3>3. x.pc \in {"resolve", "create"} => x.offset < Len(Lists[j])
      BY <1>3 DEF LoadTypes
    <3>4. x.pc = "create" =>
            /\ x.pos =< Len(Lists[j][x.offset + 1])
            /\ Roster!Valid(Line(j, x, x.pos)) /\ Roster!Key(Line(j, x, x.pos)) \notin DOMAIN x.cache
      BY <1>3 DEF LoadTypes
    <3> HIDE DEF x
    <3> QED
      BY <1>2, <2>2, <3>1, <3>2, <3>3, <3>4, LoadTurns
  <2> QED
    BY <1>1, <2>1, <2>2, <2>3, LoadMoves
<1>5. CASE Roster!StartJob(j)
  <2> DEFINE y == y2
  <2>1. loading' = [loading EXCEPT ![j] = y] /\ x.status = "pending"
    BY <1>5 DEF Roster!StartJob, RosterInv, RosterTypes
  <2>2. /\ DOMAIN y = LoadFields /\ y.status = "running" /\ y.offset = x.offset
        /\ y.pc = IF Lists[j] = <<>> THEN "final" ELSE "resolve"
        /\ y.pos = x.pos /\ y.cache = x.cache /\ y.kept = x.kept /\ y.wrote = x.wrote /\ y.total = x.total
        /\ y.good = x.good /\ y.errors = x.errors
    BY <1>3 DEF LoadFields
  <2> HIDE DEF y
  <2>3. LoadFits(j, y)
    <3>1. x.offset = 0
      BY <1>3, <2>1 DEF LoadTypes
    <3>2. Lists[j] = <<>> => Len(Lists[j]) = 0
      OBVIOUS
    <3>3. Lists[j] # <<>> => 0 < Len(Lists[j])
      BY ListFacts
    <3> HIDE DEF x
    <3> QED
      BY <1>2, <2>2, <3>1, <3>2, <3>3, LoadTurns
  <2> QED
    BY <1>1, <2>1, <2>2, <2>3, LoadMoves
<1>6. CASE Roster!Finish(j)
  <2> DEFINE y == y3
  <2>1. loading' = [loading EXCEPT ![j] = y] /\ x.pc = "final"
    BY <1>6 DEF Roster!Finish, RosterInv, RosterTypes
  <2>2. /\ DOMAIN y = LoadFields /\ y.status = "completed" /\ y.offset = x.offset /\ y.pc = "idle"
        /\ y.pos = x.pos /\ y.cache = x.cache /\ y.kept = x.kept /\ y.wrote = x.wrote /\ y.total = x.total
        /\ y.good = x.good /\ y.errors = x.errors
    BY <1>3 DEF LoadFields
  <2> HIDE DEF y
  <2>3. LoadFits(j, y)
    <3>1. x.offset = Len(Lists[j])
      BY <1>3, <2>1 DEF LoadTypes
    <3> HIDE DEF x
    <3> QED
      BY <1>2, <2>2, <3>1, LoadTurns
  <2> QED
    BY <1>1, <2>1, <2>2, <2>3, LoadMoves
<1>7. CASE Roster!Fail(j)
  <2> DEFINE y == y4
  <2>1. loading' = [loading EXCEPT ![j] = y]
    BY <1>7 DEF Roster!Fail, RosterInv, RosterTypes
  <2>2. /\ DOMAIN y = LoadFields /\ y.status = "failed" /\ y.offset = x.offset /\ y.pc = "idle"
        /\ y.pos = x.pos /\ y.cache = x.cache /\ y.kept = x.kept /\ y.wrote = x.wrote /\ y.total = x.total
        /\ y.good = x.good /\ y.errors = x.errors
    BY <1>3 DEF LoadFields
  <2> HIDE DEF y
  <2>3. LoadFits(j, y)
    <3> HIDE DEF x
    <3> QED
      BY <1>2, <2>2, LoadTurns
  <2> QED
    BY <1>1, <2>1, <2>2, <2>3, LoadMoves
<1> QED
  BY <1>4, <1>5, <1>6, <1>7

(* What a record is read as.                                               *)
LEMMA ReadIs ==
  ASSUME RosterInv, NEW j \in Loads
  PROVE  /\ Roster!Record(j) = Line(j, loading[j], loading[j].pos)
         /\ Roster!Reading(j) => /\ loading[j].pc = "resolve" /\ loading[j].offset < Len(Lists[j])
                                 /\ loading[j].pos =< Len(Lists[j][loading[j].offset + 1])
         /\ loading[j].pc = "create" =>
              /\ loading[j].pos =< Len(Lists[j][loading[j].offset + 1])
              /\ loading[j].offset < Len(Lists[j])
              /\ Roster!Valid(Line(j, loading[j], loading[j].pos))
              /\ Roster!Key(Line(j, loading[j], loading[j].pos)) \notin DOMAIN loading[j].cache
         /\ Roster!Reading(j) \/ loading[j].pc = "create" =>
              Line(j, loading[j], loading[j].pos) \in Lines
         /\ DOMAIN loading[j] = LoadFields
<1> DEFINE x == loading[j]
<1>1. LoadTypes(j, x)
  BY DEF RosterInv, LoadFits
<1>2. Roster!Record(j) = Line(j, x, x.pos)
  BY DEF Roster!Record, Roster!Chunk, Line
<1>3. Roster!Reading(j) => /\ x.pc = "resolve" /\ x.offset < Len(Lists[j])
                           /\ x.pos =< Len(Lists[j][x.offset + 1])
  BY <1>1 DEF Roster!Reading, Roster!Chunk, LoadTypes
<1>4. x.pc = "create" =>
              /\ x.pos =< Len(Lists[j][x.offset + 1]) /\ x.offset < Len(Lists[j])
              /\ Roster!Valid(Line(j, x, x.pos)) /\ Roster!Key(Line(j, x, x.pos)) \notin DOMAIN x.cache
  BY <1>1 DEF LoadTypes
<1>5. x.offset < Len(Lists[j]) /\ x.pos =< Len(Lists[j][x.offset + 1]) => Line(j, x, x.pos) \in Lines
  <2> SUFFICES ASSUME x.offset < Len(Lists[j]), x.pos =< Len(Lists[j][x.offset + 1])
               PROVE  Line(j, x, x.pos) \in Lines
    OBVIOUS
  <2>1. x.offset \in Nat /\ x.pos \in Nat \ {0}
    BY <1>1 DEF LoadTypes
  <2> DEFINE c == x.offset + 1
             n == x.pos
  <2>2. c \in 1 .. Len(Lists[j])
    BY <2>1, ListFacts
  <2> HIDE DEF c
  <2>3. Len(Lists[j][c]) \in Nat
    BY <2>2, ListFacts
  <2>4. n \in 1 .. Len(Lists[j][c])
    BY <2>1, <2>3 DEF c
  <2> QED
    BY <2>2, <2>4, ListFacts DEF Line, c
<1>6. DOMAIN x = LoadFields
  BY <1>1 DEF LoadTypes
<1> QED
  BY <1>2, <1>3, <1>4, <1>5, <1>6

(* An error of a record.                                                   *)
LEMMA LoadErring ==
  ASSUME RosterInv, NEW j \in Loads, UNCHANGED <<contested, gone, candidate, candidacy>>,
         \/ Roster!ParseError(j) \/ Roster!CreateFails(j)
         \/ /\ Roster!LookUp(j)
            /\ loading' = [loading EXCEPT ![j].errors = @ + 1, ![j].pos = @ + 1, ![j].pc = "resolve"]
  PROVE  RosterInv'
<1> DEFINE x   == loading[j]
           err == x.errors + 1
           nxt == x.pos + 1
           y1  == [x EXCEPT !.errors = err, !.pos = nxt, !.pc = "resolve"]
           y2  == [x EXCEPT !.errors = err, !.pos = nxt, !.pc = "resolve", !.lost = TRUE]
<1>1. PICK y \in {y1, y2} : loading' = [loading EXCEPT ![j] = y]
  BY DEF Roster!ParseError, Roster!CreateFails, Roster!LookUp, Roster!Err, RosterInv, RosterTypes
<1>2. /\ DOMAIN fresh' = Loads /\ \A k \in Loads : fresh'[k] \subseteq Roster!Elections
  BY DEF Roster!ParseError, Roster!CreateFails, Roster!LookUp, RosterInv, RosterTypes
<1>3. /\ x.pc \in {"resolve", "create"}
      /\ x.pos =< Len(Lists[j][x.offset + 1])
      /\ DOMAIN x = LoadFields
  BY ReadIs DEF Roster!ParseError, Roster!CreateFails, Roster!LookUp
<1> HIDE DEF err, nxt
<1>4. /\ DOMAIN y = LoadFields /\ y.offset = x.offset /\ y.pos = nxt /\ y.cache = x.cache
      /\ y.kept = x.kept /\ y.wrote = x.wrote /\ y.total = x.total /\ y.good = x.good
      /\ y.errors = err
      /\ y.pc = "resolve" /\ y.status = x.status
  BY <1>3 DEF LoadFields
<1> HIDE DEF y1, y2
<1>5. LoadFits(j, y)
  <2> HIDE DEF x
  <2> QED
    BY <1>3, <1>4, LoadErrs DEF x, err, nxt
<1> QED
  BY <1>1, <1>2, <1>4, <1>5, LoadMoves

(* A job reads its next record (_resolve_election): it is kept or is an     *)
(* error.                                                                   *)
LEMMA LoadReads ==
  ASSUME RosterInv, NEW j \in Loads, Roster!Cached(j) \/ Roster!LookUp(j) \/ Roster!CreateElection(j)
  PROVE  RosterInv'
<1> DEFINE x == loading[j]
           r == Line(j, x, x.pos)
           key == Roster!Key(r)
<1> USE DEF RosterInv
<1>1. UNCHANGED <<contested, gone, candidate, candidacy>>
  BY DEF Roster!Cached, Roster!LookUp, Roster!CreateElection
<1>2. CASE Roster!Cached(j)
  <2> DEFINE e == x.cache[key]
  <2>1. Roster!Keep(j, e) /\ key \in DOMAIN x.cache /\ Roster!Valid(r)
        /\ Roster!Reading(j) /\ UNCHANGED fresh
    BY <1>2, ReadIs DEF Roster!Cached
  <2>2. e \in Roster!Elections /\ e[1] = r.contest
    <3>1. key[1] = r.contest
      BY DEF Roster!Key
    <3> HIDE DEF key
    <3> QED
      BY <2>1, <3>1 DEF LoadFits, CacheFits
  <2>3. DOMAIN fresh' = Loads /\ \A k \in Loads : fresh'[k] \subseteq Roster!Elections
    BY <2>1 DEF RosterTypes
  <2>4. x.pc \in {"resolve", "create"} /\ x.pos =< Len(Lists[j][x.offset + 1])
    BY <2>1, ReadIs
  <2>5. key \in DOMAIN x.cache => x.cache[key] = e
    OBVIOUS
  <2> HIDE DEF e
  <2> QED
    BY <1>1, <2>1, <2>2, <2>3, <2>4, <2>5, LoadKeeps
<1>3. CASE Roster!CreateElection(j)
  <2> DEFINE n == Roster!Cardinality(Roster!Named(gone, <<r.contest, r.form>>))
             e == <<r.contest, r.form, n>>
  <2>1. Roster!Keep(j, e) /\ fresh' = [fresh EXCEPT ![j] = @ \cup {e}] /\ x.pc = "create"
    BY <1>3, ReadIs DEF Roster!CreateElection, Roster!Created, Roster!Name
  <2>2. x.pos =< Len(Lists[j][x.offset + 1]) /\ Roster!Valid(r) /\ key \notin DOMAIN x.cache /\ r \in Lines
    BY <2>1, ReadIs
  <2>n. n \in Nat
    <3>1. IsFiniteSet(Roster!Named(gone, <<r.contest, r.form>>))
      BY FS_Subset DEF RosterTypes, Roster!Named
    <3> QED
      BY <3>1, FS_CardinalityType, RosterCards
  <2> HIDE DEF n
  <2>3. e \in Roster!Elections /\ e[1] = r.contest
    <3>1. r.contest \in Races /\ r.form \in Forms
      BY <2>2, ListFacts
    <3> QED
      BY <2>n, <3>1 DEF Roster!Elections
  <2>4. DOMAIN fresh' = Loads /\ \A k \in Loads : fresh'[k] \subseteq Roster!Elections
    BY <2>1, <2>3 DEF RosterTypes
  <2>5. x.pc \in {"resolve", "create"}
    BY <2>1
  <2> HIDE DEF e
  <2> QED
    BY <1>1, <2>1, <2>2, <2>3, <2>4, <2>5, LoadKeeps
<1>4. CASE Roster!LookUp(j)
  <2>1. /\ Roster!Reading(j) /\ Roster!Valid(r) /\ key \notin DOMAIN x.cache /\ UNCHANGED fresh
        /\ \/ Roster!Err(j)
           \/ \E e \in Roster!Found(j, r.contest) : Roster!Keep(j, e)
           \/ loading' = [loading EXCEPT ![j].pc = "create"]
    BY <1>4, ReadIs DEF Roster!LookUp
  <2>2. x.pc = "resolve" /\ x.offset < Len(Lists[j]) /\ x.pos =< Len(Lists[j][x.offset + 1])
    BY <2>1, ReadIs
  <2>3. DOMAIN fresh' = Loads /\ \A k \in Loads : fresh'[k] \subseteq Roster!Elections
    BY <2>1 DEF RosterTypes
  <2>4. CASE Roster!Err(j)
    BY <1>1, <1>4, <2>4, LoadErring DEF Roster!Err
  <2>5. ASSUME NEW e \in Roster!Found(j, r.contest), Roster!Keep(j, e) PROVE RosterInv'
    <3>1. e \in Roster!Elections /\ e[1] = r.contest
      BY DEF Roster!Found, RosterTypes
    <3> QED
      BY <1>1, <2>1, <2>2, <2>3, <2>5, <3>1, LoadKeeps
  <2>6. CASE loading' = [loading EXCEPT ![j].pc = "create"]
    <3> DEFINE y == [x EXCEPT !.pc = "create"]
    <3>1. loading' = [loading EXCEPT ![j] = y]
      BY <2>6 DEF RosterTypes
    <3>2. /\ DOMAIN y = LoadFields /\ y.status = x.status /\ y.offset = x.offset /\ y.pc = "create"
          /\ y.pos = x.pos /\ y.cache = x.cache /\ y.kept = x.kept /\ y.wrote = x.wrote /\ y.total = x.total
          /\ y.good = x.good /\ y.errors = x.errors
      BY ReadIs DEF LoadFields
    <3> HIDE DEF y
    <3>3. LoadFits(j, x)
      OBVIOUS
    <3>4. Line(j, y, y.pos) = r
      BY <3>2 DEF Line
    <3>5. /\ (y.status = "completed" => y.offset = Len(Lists[j]))
          /\ (y.status \in {"none", "pending"} => y.offset = 0)
          /\ y.status = "running"
      BY <2>2, <3>2, <3>3 DEF LoadFits, LoadTypes
    <3>6. LoadFits(j, y)
      <4> HIDE DEF x
      <4> QED
        BY <2>1, <2>2, <3>2, <3>3, <3>4, <3>5, LoadTurns DEF x
    <3> QED
      BY <1>1, <2>3, <3>1, <3>2, <3>6, LoadMoves
  <2> QED
    BY <2>1, <2>4, <2>5, <2>6
<1> QED
  BY <1>2, <1>3, <1>4

-----------------------------------------------------------------------------
(* The commit of a chunk.                                                  *)
Committed(j, x, y) ==
  /\ DOMAIN y = LoadFields /\ y.offset = x.offset + 1 /\ y.pos = 1 /\ DOMAIN y.kept = {}
  /\ y.cache = x.cache /\ y.total = x.total + Len(Lists[j][x.offset + 1])
  /\ DOMAIN y.wrote = DOMAIN x.wrote \cup ({x.offset + 1} \X DOMAIN x.kept)
  /\ \A n \in DOMAIN x.kept : y.wrote[<<x.offset + 1, n>>] = x.kept[n]
  /\ \A p \in DOMAIN x.wrote : y.wrote[p] = x.wrote[p]
  /\ y.good = x.good + Cardinality(Roster!Deduplicate(j)) /\ y.errors = x.errors
  /\ y.pc = IF x.offset + 1 = Len(Lists[j]) THEN "final" ELSE x.pc
  /\ y.status = x.status

(* A chunk is read to its end: what is known of its job then.               *)
LEMMA ChunkFacts ==
  ASSUME RosterInv, NEW j \in Loads, Roster!AtEnd(j)
  PROVE  LET x == loading[j]
             c == x.offset + 1
         IN  /\ x.offset \in Nat /\ x.offset < Len(Lists[j]) /\ c \in 1 .. Len(Lists[j])
             /\ Len(Lists[j][c]) \in Nat /\ x.pos = Len(Lists[j][c]) + 1 /\ x.pc = "resolve"
             /\ DOMAIN Lists[j][c] = 1 .. Len(Lists[j][c])
             /\ DOMAIN x.kept \subseteq 1 .. Len(Lists[j][c])
             /\ x.total \in Nat /\ x.good \in Nat /\ x.errors \in Nat /\ DOMAIN x = LoadFields
             /\ IsFiniteSet(DOMAIN x.kept) /\ LoadFits(j, x) /\ Roster!Chunk(j) = Lists[j][c]
<1> DEFINE x == loading[j]
           c == x.offset + 1
<1>1. LoadFits(j, x)
  BY DEF RosterInv
<1>2. Roster!Chunk(j) = Lists[j][c]
  BY DEF Roster!Chunk
<1>3. /\ x.offset \in Nat /\ x.offset < Len(Lists[j]) /\ x.pc = "resolve" /\ x.pos \in Nat
      /\ x.pos - 1 =< Len(Lists[j][c]) /\ DOMAIN x.kept \subseteq 1 .. (x.pos - 1)
      /\ x.total \in Nat /\ x.good \in Nat /\ x.errors \in Nat /\ DOMAIN x = LoadFields
      /\ x.pos > Len(Lists[j][c])
  BY <1>1, <1>2 DEF LoadFits, LoadTypes, Roster!AtEnd
<1>4. c \in 1 .. Len(Lists[j])
  BY <1>3, ListFacts
<1>5. Len(Lists[j][c]) \in Nat /\ DOMAIN Lists[j][c] = 1 .. Len(Lists[j][c])
  BY <1>4, ListFacts
<1>6. x.pos = Len(Lists[j][c]) + 1 /\ x.pos - 1 = Len(Lists[j][c])
  <2>1. \A p, n \in Nat : p - 1 =< n /\ p > n => p = n + 1 /\ p - 1 = n
    OBVIOUS
  <2> HIDE DEF x, c
  <2> QED
    BY <1>3, <1>5, <2>1
<1>7. IsFiniteSet(DOMAIN x.kept)
  <2> DEFINE n == x.pos - 1
  <2>1. n \in Int /\ DOMAIN x.kept \subseteq 1 .. n
    BY <1>3
  <2> HIDE DEF n, x
  <2> QED
    BY <2>1, PartOf
<1> QED
  BY <1>1, <1>2, <1>3, <1>4, <1>5, <1>6, <1>7

(* Of each candidate named in what is kept, the last record is written.    *)
LEMMA LastIsKept ==
  ASSUME RosterInv, NEW j \in Loads, Roster!AtEnd(j), NEW n \in DOMAIN loading[j].kept
  PROVE  \E d \in Roster!Deduplicate(j) : Roster!Row(j, d) = Roster!Row(j, n) /\ n =< d
<1> DEFINE S == {m \in DOMAIN loading[j].kept : Roster!Row(j, m) = Roster!Row(j, n)}
           b == Len(Lists[j][loading[j].offset + 1])
<1>1. /\ b \in Nat /\ DOMAIN loading[j].kept \subseteq 1 .. b
  BY ChunkFacts
<1>2. S \in SUBSET Nat /\ S # {} /\ \A m \in S : m =< b
  BY <1>1
<1> HIDE DEF S, b
<1>3. PICK d \in S : \A m \in S : m =< d
  BY <1>1, <1>2, GreatestNatural
<1>4. d \in DOMAIN loading[j].kept /\ Roster!Row(j, d) = Roster!Row(j, n) /\ n =< d
  BY <1>3 DEF S
<1>5. \A m \in DOMAIN loading[j].kept : d < m => Roster!Row(j, m) # Roster!Row(j, d)
  <2> SUFFICES ASSUME NEW m \in DOMAIN loading[j].kept, d < m, Roster!Row(j, m) = Roster!Row(j, d)
               PROVE  FALSE
    OBVIOUS
  <2>1. m \in S
    BY <1>4 DEF S
  <2>2. m =< d /\ m \in Nat /\ d \in Nat
    BY <1>1, <1>2, <1>3, <2>1
  <2> QED
    BY <2>2
<1> QED
  BY <1>4, <1>5 DEF Roster!Deduplicate

(* What is written of a chunk: of each candidate the last record kept.      *)
LEMMA WriteIs ==
  ASSUME RosterInv, NEW j \in Loads, Roster!CommitChunk(j)
  PROVE  LET x == loading[j]
             D == Roster!Deduplicate(j)
             W == {Roster!Row(j, n) : n \in D}
         IN  /\ DOMAIN candidate' = W \cup DOMAIN candidate
             /\ \A c \in DOMAIN candidate' :
                  /\ c \in W => DOMAIN candidate'[c] = {"filing", "by"} /\ candidate'[c].by = j
                  /\ c \notin W => candidate'[c] = candidate[c]
             /\ DOMAIN candidacy' = {<<Roster!Row(j, n), x.kept[n]>> : n \in D} \cup DOMAIN candidacy
             /\ \A p \in DOMAIN candidacy' :
                  \/ \E n \in D : /\ p = <<Roster!Row(j, n), x.kept[n]>> /\ candidacy'[p].by = j
                                  /\ candidacy'[p].filing = Roster!Filing(Line(j, x, n))
                  \/ /\ \A n \in D : p # <<Roster!Row(j, n), x.kept[n]>>
                     /\ candidacy'[p] = candidacy[p]
<1> DEFINE x == loading[j]
           D == Roster!Deduplicate(j)
           W == {Roster!Row(j, n) : n \in D}
           Q == {<<Roster!Row(j, n), x.kept[n]>> : n \in D}
           f == [c \in W |-> [filing |-> Roster!Filing(Roster!Chunk(j)[Roster!Place(j, D, c)]), by |-> j]]
           g == [p \in Q |-> [filing |-> Roster!Filing(Roster!Chunk(j)[CHOOSE n \in D :
                                <<Roster!Row(j, n), x.kept[n]>> = p]), by |-> j]]
<1>1. candidate' = Roster!Over(f, candidate)
  BY DEF Roster!CommitChunk, Roster!UpsertCandidates
<1>2. candidacy' = Roster!Over(g, candidacy)
  <2>1. \A n \in D : Roster!ResolvedIds(j, D)[n] = Roster!Row(j, n)
    BY DEF Roster!ResolvedIds
  <2>2. candidacy' = Roster!UpsertCandidacies(j, D)
    BY DEF Roster!CommitChunk
  <2> HIDE DEF D
  <2> QED
    BY <2>1, <2>2 DEF Roster!UpsertCandidacies
<1>3. /\ DOMAIN candidate' = W \cup DOMAIN candidate
      /\ \A c \in DOMAIN candidate' :
           /\ c \in W => DOMAIN candidate'[c] = {"filing", "by"} /\ candidate'[c].by = j
           /\ c \notin W => candidate'[c] = candidate[c]
  <2> HIDE DEF D, W
  <2> QED
    BY <1>1 DEF Roster!Over
<1>4. \A p \in Q : \E n \in D : /\ p = <<Roster!Row(j, n), x.kept[n]>> /\ g[p].by = j
                                /\ g[p].filing = Roster!Filing(Line(j, x, n))
  <2> SUFFICES ASSUME NEW p \in Q
               PROVE  \E n \in D : /\ p = <<Roster!Row(j, n), x.kept[n]>> /\ g[p].by = j
                                   /\ g[p].filing = Roster!Filing(Line(j, x, n))
    OBVIOUS
  <2> DEFINE n == CHOOSE m \in D : <<Roster!Row(j, m), x.kept[m]>> = p
  <2>1. \E m \in D : <<Roster!Row(j, m), x.kept[m]>> = p
    OBVIOUS
  <2>2. n \in D /\ <<Roster!Row(j, n), x.kept[n]>> = p
    <3> HIDE DEF D, x
    <3> QED
      BY <2>1
  <2>3. g[p].by = j /\ g[p].filing = Roster!Filing(Roster!Chunk(j)[n])
    <3> HIDE DEF D, x
    <3> QED
      OBVIOUS
  <2>4. Roster!Chunk(j)[n] = Line(j, x, n)
    BY DEF Roster!Chunk, Line
  <2> HIDE DEF n, g, D, x
  <2> QED
    BY <2>2, <2>3, <2>4
<1>5. /\ DOMAIN candidacy' = Q \cup DOMAIN candidacy
      /\ \A p \in DOMAIN candidacy' : candidacy'[p] = IF p \in Q THEN g[p] ELSE candidacy[p]
  <2>1. DOMAIN g = Q
    OBVIOUS
  <2> HIDE DEF g, Q
  <2> QED
    BY <1>2, <2>1 DEF Roster!Over
<1> HIDE DEF D, x, g, f, W
<1>6. \A p : p \in Q <=> \E n \in D : p = <<Roster!Row(j, n), x.kept[n]>>
  OBVIOUS
<1>7. \A p \in DOMAIN candidacy' :
        \/ \E n \in D : /\ p = <<Roster!Row(j, n), x.kept[n]>> /\ candidacy'[p].by = j
                        /\ candidacy'[p].filing = Roster!Filing(Line(j, x, n))
        \/ /\ \A n \in D : p # <<Roster!Row(j, n), x.kept[n]>>
           /\ candidacy'[p] = candidacy[p]
  <2> HIDE DEF Q
  <2> QED
    BY <1>4, <1>5, <1>6
<1> QED
  BY <1>3, <1>5, <1>7 DEF D, x, W

(* What is kept are valid records, each with the election of its contest.   *)
LEMMA KeptIs ==
  ASSUME RosterInv, NEW j \in Loads, Roster!AtEnd(j), NEW n \in DOMAIN loading[j].kept
  PROVE  LET x == loading[j]
             r == Line(j, x, n)
         IN  /\ Roster!Row(j, n) = <<x.kept[n], r.who>> /\ x.kept[n] \in Roster!Elections
             /\ x.kept[n] = x.cache[Roster!Key(r)] /\ Roster!Key(r) \in DOMAIN x.cache
             /\ x.kept[n][1] = r.contest /\ Roster!Valid(r) /\ r.who \in People
             /\ Roster!Row(j, n) \in Roster!Candidates
<1> DEFINE x == loading[j]
           r == Line(j, x, n)
<1>1. Roster!Row(j, n) = <<x.kept[n], r.who>>
  BY DEF Roster!Row, Roster!Chunk, Line
<1>2. KeptFits(j, x) /\ CacheFits(x)
  BY DEF RosterInv, LoadFits
<1>3. /\ x.kept[n] = x.cache[Roster!Key(r)] /\ Roster!Key(r) \in DOMAIN x.cache /\ Roster!Valid(r)
  BY <1>2 DEF KeptFits
<1>4. x.kept[n] \in Roster!Elections /\ x.kept[n][1] = r.contest
  <2>1. Roster!Key(r)[1] = r.contest
    BY DEF Roster!Key
  <2> QED
    BY <1>2, <1>3, <2>1 DEF CacheFits
<1>5. r \in Lines
  <2> DEFINE c == x.offset + 1
  <2>1. c \in 1 .. Len(Lists[j]) /\ n \in 1 .. Len(Lists[j][c])
    BY ChunkFacts
  <2> HIDE DEF c
  <2>2. Lists[j][c][n] \in Lines
    BY <2>1, ListFacts
  <2> QED
    BY <2>2 DEF Line, c
<1>6. r.who \in People
  BY <1>3, <1>5, ListFacts
<1>7. Roster!Row(j, n) \in Roster!Candidates
  BY <1>1, <1>4, <1>6 DEF Roster!Candidates
<1> QED
  BY <1>1, <1>3, <1>4, <1>6, <1>7

(* A chunk is committed: the sums by which its records are counted.         *)
LEMMA CommitSums ==
  \A a, d, f, r, s, t, g, e, n, b \in Nat :
    a = d + f /\ r + f =< s /\ g + e + a =< t + n /\ t + n =< g + e + a + r =>
      g + d + e + 0 =< t + n + (1 - 1) /\ t + n + (1 - 1) =< g + d + e + 0 + s
OBVIOUS

(* The counts of a job add up over its commit.                              *)
LEMMA CommitCounts ==
  ASSUME RosterInv, NEW j \in Loads, Roster!AtEnd(j), NEW y, Committed(j, loading[j], y)
  PROVE  CountsFit(j, y)
<1> DEFINE x == loading[j]
           c == x.offset + 1
           n == Len(Lists[j][c])
           K == DOMAIN x.kept
           D == Roster!Deduplicate(j)
           E == K \ D
           d == Cardinality(D)
           f == Cardinality(E)
           r == Cardinality(Repeated(j, x))
           s == Cardinality(Repeated(j, y))
<1>1. /\ x.offset \in Nat /\ x.offset < Len(Lists[j]) /\ c \in 1 .. Len(Lists[j])
      /\ n \in Nat /\ x.pos = n + 1 /\ DOMAIN Lists[j][c] = 1 .. n /\ K \subseteq 1 .. n
      /\ x.total \in Nat /\ x.good \in Nat /\ x.errors \in Nat
      /\ IsFiniteSet(K) /\ LoadFits(j, x)
  BY ChunkFacts
<1>2. /\ D \subseteq K /\ IsFiniteSet(D) /\ IsFiniteSet(E) /\ d \in Nat /\ f \in Nat
      /\ Cardinality(K) = d + f /\ Cardinality(K) \in Nat
  <2>1. D \subseteq K
    BY DEF Roster!Deduplicate
  <2> HIDE DEF D, K
  <2>2. IsFiniteSet(D) /\ IsFiniteSet(E)
    BY <1>1, <2>1, FS_Subset
  <2>3. d \in Nat /\ f \in Nat /\ Cardinality(K) \in Nat
    BY <1>1, <2>2, FS_CardinalityType
  <2>4. Cardinality(D \cup E) = d + f - Cardinality(D \cap E)
    BY <2>2, FS_Union
  <2>5. D \cup E = K /\ D \cap E = {}
    BY <2>1
  <2>6. Cardinality(D \cap E) = 0
    BY <2>5, FS_EmptySet
  <2> HIDE DEF E, d, f
  <2> QED
    BY <2>1, <2>2, <2>3, <2>4, <2>5, <2>6
<1>3. Cardinality(Roster!Places(j, c)) = x.total + n
  <2> DEFINE A == Roster!Places(j, x.offset)
             B == {c} \X (1 .. n)
  <2>1. Roster!Places(j, c) = A \cup B /\ A \cap B = {}
    BY <1>1, PlacesGrow
  <2>2. IsFiniteSet(A) /\ Cardinality(A) = x.total
    BY <1>1, PlacesFinite DEF LoadFits, CountsFit
  <2>3. IsFiniteSet(1 .. n) /\ Cardinality(1 .. n) = n
    <3>1. n \in Nat
      BY <1>1
    <3> HIDE DEF n
    <3> QED
      BY <3>1, FS_Interval
  <2>4. IsFiniteSet(B) /\ Cardinality(B) = n
    <3>1. IsFiniteSet({c}) /\ Cardinality({c}) = 1
      BY FS_Singleton
    <3>2. IsFiniteSet(B) /\ Cardinality(B) = Cardinality({c}) * Cardinality(1 .. n)
      <4> HIDE DEF n, c
      <4> QED
        BY <2>3, <3>1, FS_Product
    <3> QED
      BY <1>1, <2>3, <3>1, <3>2
  <2>5. Cardinality(A \cap B) = 0
    BY <2>1, FS_EmptySet
  <2> HIDE DEF A, B, n, c
  <2>6. Cardinality(A \cup B) = Cardinality(A) + Cardinality(B) - Cardinality(A \cap B)
    BY <2>2, <2>4, FS_Union
  <2> QED
    BY <1>1, <2>1, <2>2, <2>4, <2>5, <2>6
<1>4. r \in Nat /\ s \in Nat /\ r + f =< s
  <2> DEFINE A == Repeated(j, x)
             B == {c} \X E
             Z == Repeated(j, y)
  <2>1. y.offset = c /\ c =< Len(Lists[j]) /\ c \in Nat
    BY <1>1 DEF Committed
  <2>2. IsFiniteSet(A) /\ IsFiniteSet(Z) /\ r \in Nat /\ s \in Nat
    <3>1. IsFiniteSet(Roster!Places(j, x.offset))
      BY <1>1, PlacesFinite
    <3>2. IsFiniteSet(Roster!Places(j, y.offset))
      BY <2>1, PlacesFinite
    <3>3. IsFiniteSet(A) /\ IsFiniteSet(Z)
      BY <3>1, <3>2, FS_Subset DEF Repeated
    <3> QED
      BY <3>3, FS_CardinalityType
  <2>3. A \subseteq Z
    BY <1>1, <2>1, PlacesGrow DEF Repeated
  <2>4. B \subseteq Z
    <3> SUFFICES ASSUME NEW m \in E PROVE <<c, m>> \in Z
      OBVIOUS
    <3>1. m \in K /\ m \notin D
      OBVIOUS
    <3>2. PICK i \in K : m < i /\ Roster!Row(j, i) = Roster!Row(j, m)
      BY <3>1 DEF Roster!Deduplicate
    <3>3. /\ Roster!Valid(Line(j, x, m)) /\ Roster!Valid(Line(j, x, i))
          /\ Line(j, x, i).who = Line(j, x, m).who /\ Line(j, x, i).contest = Line(j, x, m).contest
      <4>1. /\ Roster!Row(j, m) = <<x.kept[m], Line(j, x, m).who>> /\ x.kept[m][1] = Line(j, x, m).contest
            /\ Roster!Valid(Line(j, x, m))
        BY <3>1, KeptIs
      <4>2. /\ Roster!Row(j, i) = <<x.kept[i], Line(j, x, i).who>> /\ x.kept[i][1] = Line(j, x, i).contest
            /\ Roster!Valid(Line(j, x, i))
        BY KeptIs
      <4> QED
        BY <3>2, <4>1, <4>2
    <3>4. c \in 1 .. c /\ c \in 1 .. Len(Lists[j]) /\ m \in DOMAIN Lists[j][c] /\ i \in DOMAIN Lists[j][c]
      BY <1>1, <3>1
    <3>5. <<c, m>> \in Roster!Places(j, c) /\ <<c, m>> \in Roster!Places(j, Len(Lists[j]))
      BY <3>4 DEF Roster!Places
    <3>6. <<c, m>> \in Roster!Again(j)
      BY <3>2, <3>3, <3>4, <3>5 DEF Roster!Again, Roster!At, Line
    <3> QED
      BY <2>1, <3>5, <3>6 DEF Repeated
  <2>5. A \cap B = {}
    BY <1>1, PlacesGrow, SMTT(30) DEF Repeated
  <2>6. IsFiniteSet(B) /\ Cardinality(B) = f
    <3>1. IsFiniteSet({c}) /\ Cardinality({c}) = 1
      BY FS_Singleton
    <3>2. IsFiniteSet(B) /\ Cardinality(B) = Cardinality({c}) * Cardinality(E)
      <4> HIDE DEF E, c
      <4> QED
        BY <1>2, <3>1, FS_Product
    <3> QED
      BY <1>2, <3>1, <3>2
  <2> HIDE DEF A, B, Z, c, E
  <2>7. Cardinality(A \cup B) = Cardinality(A) + Cardinality(B) - Cardinality(A \cap B) /\ IsFiniteSet(A \cup B)
    BY <2>2, <2>6, FS_Union
  <2>8. Cardinality(A \cup B) =< Cardinality(Z)
    BY <2>2, <2>3, <2>4, FS_Subset
  <2>9. Cardinality(A \cap B) = 0
    BY <2>5, FS_EmptySet
  <2> QED
    BY <1>2, <2>2, <2>6, <2>7, <2>8, <2>9 DEF A, Z
<1>5. /\ x.good + x.errors + Cardinality(K) =< x.total + n
      /\ x.total + n =< x.good + x.errors + Cardinality(K) + r
  <2>1. x.pos - 1 = n
    <3> HIDE DEF n
    <3> QED
      BY <1>1
  <2> QED
    BY <1>1, <2>1 DEF LoadFits, CountsFit
<1>6. /\ y.total = x.total + n /\ y.good = x.good + d /\ y.errors = x.errors /\ y.pos = 1
      /\ DOMAIN y.kept = {} /\ y.offset = c
  BY DEF Committed
<1>7. Cardinality(DOMAIN y.kept) = 0
  BY <1>6, FS_EmptySet
<1> HIDE DEF n, d, f, r, s, K, D, E, x, c
<1>8. /\ x.good + d + x.errors + 0 =< x.total + n + (1 - 1)
      /\ x.total + n + (1 - 1) =< x.good + d + x.errors + 0 + s
  BY <1>1, <1>2, <1>4, <1>5, CommitSums
<1> QED
  BY <1>3, <1>6, <1>7, <1>8 DEF CountsFit, s

(* A job commits its chunk (_upsert_candidate_batch,                        *)
(* _upsert_candidacy_batch).                                                *)
LEMMA LoadCommits ==
  ASSUME RosterInv, NEW j \in Loads, Roster!CommitChunk(j)
  PROVE  RosterInv'
<1> DEFINE x  == loading[j]
           c  == x.offset + 1
           D  == Roster!Deduplicate(j)
           W  == {Roster!Row(j, n) : n \in D}
           tt == x.total + Len(Roster!Chunk(j))
           gg == x.good + Roster!Cardinality(D)
           pc1 == IF c = Len(Lists[j]) THEN "final" ELSE x.pc
           ww == Roster!Written(j)
           y  == [x EXCEPT !.offset = c, !.kept = <<>>, !.pos = 1, !.wrote = ww, !.total = tt,
                           !.good = gg, !.pc = pc1]
<1>0. Roster!AtEnd(j)
  BY DEF Roster!CommitChunk
<1>1. /\ x.offset \in Nat /\ x.offset < Len(Lists[j]) /\ c \in 1 .. Len(Lists[j])
      /\ Len(Lists[j][c]) \in Nat /\ x.pos = Len(Lists[j][c]) + 1 /\ x.pc = "resolve"
      /\ DOMAIN Lists[j][c] = 1 .. Len(Lists[j][c])
      /\ DOMAIN x.kept \subseteq 1 .. Len(Lists[j][c])
      /\ x.total \in Nat /\ x.good \in Nat /\ x.errors \in Nat /\ DOMAIN x = LoadFields
      /\ LoadFits(j, x) /\ Roster!Chunk(j) = Lists[j][c] /\ IsFiniteSet(DOMAIN x.kept)
  BY <1>0, ChunkFacts
<1>2. D \subseteq DOMAIN x.kept /\ Cardinality(D) \in Nat
  <2>1. D \subseteq DOMAIN x.kept
    BY DEF Roster!Deduplicate
  <2>2. IsFiniteSet(D)
    BY <1>1, <2>1, FS_Subset
  <2> QED
    BY <2>1, <2>2, FS_CardinalityType
<1>3. loading' = [loading EXCEPT ![j] = y]
  BY <1>1 DEF Roster!CommitChunk, RosterInv, RosterTypes, LoadFields
<1>w. /\ DOMAIN ww = DOMAIN x.wrote \cup ({c} \X DOMAIN x.kept)
      /\ \A n \in DOMAIN x.kept : ww[<<c, n>>] = x.kept[n]
      /\ \A p \in DOMAIN x.wrote : ww[p] = x.wrote[p] /\ p[1] \in 1 .. x.offset
  <2> DEFINE part1 == [p \in {c} \X DOMAIN x.kept |-> x.kept[p[2]]]
  <2>1. ww = Roster!Over(part1, x.wrote)
    BY DEF Roster!Written
  <2>2. DOMAIN part1 = {c} \X DOMAIN x.kept /\ \A n \in DOMAIN x.kept : part1[<<c, n>>] = x.kept[n]
    OBVIOUS
  <2>3. \A p \in DOMAIN x.wrote : p[1] \in 1 .. x.offset
    <3>1. \A p \in Roster!Places(j, x.offset) : p[1] \in 1 .. x.offset
      BY DEF Roster!Places
    <3> QED
      BY <1>1, <3>1 DEF LoadFits, WroteFits
  <2>4. c \notin 1 .. x.offset
    BY <1>1
  <2> HIDE DEF ww, c, part1
  <2>5. \A p \in DOMAIN x.wrote : p \notin DOMAIN part1
    BY <2>2, <2>3, <2>4
  <2>6. /\ DOMAIN ww = DOMAIN part1 \cup DOMAIN x.wrote
        /\ \A p \in DOMAIN part1 : ww[p] = part1[p]
        /\ \A p \in DOMAIN x.wrote : p \notin DOMAIN part1 => ww[p] = x.wrote[p]
    BY <2>1 DEF Roster!Over
  <2>7. \A n \in DOMAIN x.kept : <<c, n>> \in DOMAIN part1
    BY <2>2
  <2> QED
    BY <2>2, <2>3, <2>5, <2>6, <2>7
<1>4. Committed(j, x, y)
  <2> HIDE DEF tt, gg, pc1, D, c, ww
  <2>1. /\ DOMAIN y = LoadFields /\ y.offset = c /\ y.pos = 1 /\ y.kept = <<>> /\ y.cache = x.cache
        /\ y.total = tt /\ y.good = gg /\ y.errors = x.errors /\ y.pc = pc1 /\ y.status = x.status
        /\ y.wrote = ww
    BY <1>1 DEF LoadFields
  <2>2. tt = x.total + Len(Lists[j][c]) /\ gg = x.good + Cardinality(D)
    BY <1>1, RosterCards DEF tt, gg
  <2> HIDE DEF y
  <2> QED
    BY <1>w, <2>1, <2>2 DEF Committed, c, pc1, D
<1> HIDE DEF y, tt, gg, pc1, ww
<1>5. /\ DOMAIN loading' = Loads /\ loading'[j] = y /\ \A k \in Loads \ {j} : loading'[k] = loading[k]
  BY <1>3 DEF RosterInv, RosterTypes
<1>6. /\ DOMAIN candidate' = W \cup DOMAIN candidate
      /\ \A e \in DOMAIN candidate' :
           /\ e \in W => DOMAIN candidate'[e] = {"filing", "by"} /\ candidate'[e].by = j
           /\ e \notin W => candidate'[e] = candidate[e]
      /\ DOMAIN candidacy' = {<<Roster!Row(j, n), x.kept[n]>> : n \in D} \cup DOMAIN candidacy
      /\ \A p \in DOMAIN candidacy' :
           \/ \E n \in D : /\ p = <<Roster!Row(j, n), x.kept[n]>> /\ candidacy'[p].by = j
                           /\ candidacy'[p].filing = Roster!Filing(Line(j, x, n))
           \/ /\ \A n \in D : p # <<Roster!Row(j, n), x.kept[n]>>
              /\ candidacy'[p] = candidacy[p]
  BY WriteIs
<1>7. \A n \in DOMAIN x.kept :
        /\ Roster!Row(j, n) = <<x.kept[n], Line(j, x, n).who>> /\ x.kept[n] \in Roster!Elections
        /\ x.kept[n] = x.cache[Roster!Key(Line(j, x, n))] /\ Roster!Key(Line(j, x, n)) \in DOMAIN x.cache
        /\ x.kept[n][1] = Line(j, x, n).contest /\ Roster!Valid(Line(j, x, n))
        /\ Roster!Row(j, n) \in Roster!Candidates
  BY <1>0, KeptIs
<1>8. /\ DOMAIN y = LoadFields /\ y.offset = c /\ y.pos = 1 /\ DOMAIN y.kept = {} /\ y.cache = x.cache
      /\ y.total = x.total + Len(Lists[j][c]) /\ y.good = x.good + Cardinality(D)
      /\ y.errors = x.errors /\ y.pc = (IF c = Len(Lists[j]) THEN "final" ELSE x.pc)
      /\ y.status = x.status /\ DOMAIN y.wrote = DOMAIN x.wrote \cup ({c} \X DOMAIN x.kept)
      /\ \A n \in DOMAIN x.kept : y.wrote[<<c, n>>] = x.kept[n]
      /\ \A p \in DOMAIN x.wrote : y.wrote[p] = x.wrote[p] /\ p[1] \in 1 .. x.offset
  BY <1>4, <1>w DEF Committed
<1> HIDE DEF D, c
<1>9. RosterTypes'
  <2>1. /\ contested' = contested \cup fresh[j] /\ fresh' = [fresh EXCEPT ![j] = {}]
        /\ gone' = gone
    BY DEF Roster!CommitChunk
  <2>2. contested' \subseteq Roster!Elections
    BY <2>1 DEF RosterInv, RosterTypes
  <2>3. DOMAIN fresh' = Loads /\ \A k \in Loads : fresh'[k] \subseteq Roster!Elections
    BY <2>1 DEF RosterInv, RosterTypes
  <2>4. W \subseteq Roster!Candidates
    BY <1>2, <1>7
  <2>5. /\ DOMAIN candidate' \subseteq Roster!Candidates
        /\ \A e \in DOMAIN candidate' : DOMAIN candidate'[e] = {"filing", "by"}
    BY <1>6, <2>4 DEF RosterInv, RosterTypes
  <2> QED
    BY <1>5, <2>1, <2>2, <2>3, <2>5 DEF RosterInv, RosterTypes
<1>11. CandidaciesFit'
  <2> SUFFICES ASSUME NEW p \in DOMAIN candidacy'
               PROVE  /\ p \in Roster!Candidates \X Roster!Elections /\ p[2] = p[1][1]
                      /\ candidacy'[p].by \in Loads
    BY DEF CandidaciesFit
  <2>1. ASSUME NEW n \in D, p = <<Roster!Row(j, n), x.kept[n]>>, candidacy'[p].by = j
        PROVE  p \in Roster!Candidates \X Roster!Elections /\ p[2] = p[1][1]
    <3>1. n \in DOMAIN x.kept
      BY <1>2
    <3> QED
      BY <1>7, <2>1, <3>1
  <2>2. ASSUME \A n \in D : p # <<Roster!Row(j, n), x.kept[n]>>, candidacy'[p] = candidacy[p]
        PROVE  p \in DOMAIN candidacy
    BY <1>6, <2>2
  <2> QED
    BY <1>6, <2>1, <2>2 DEF RosterInv, CandidaciesFit
<1>12. OfImports'
  <2> SUFFICES ASSUME NEW e \in DOMAIN candidate', candidate'[e].by # Roster!None
               PROVE  <<e, e[1]>> \in DOMAIN candidacy'
    BY DEF OfImports
  <2>1. CASE e \in W
    <3>1. PICK n \in D : e = Roster!Row(j, n)
      BY <2>1
    <3>2. e[1] = x.kept[n]
      BY <1>2, <1>7, <3>1
    <3> QED
      BY <1>6, <3>1, <3>2
  <2>2. CASE e \notin W
    BY <1>6, <2>2 DEF RosterInv, OfImports
  <2> QED
    BY <2>1, <2>2
<1>15. \A m : Roster!At(j, <<c, m>>) = Line(j, x, m)
  BY DEF Roster!At, Line, c
<1>17. WinsHold'
  <2> SUFFICES ASSUME NEW p \in DOMAIN candidacy'
               PROVE  Wins(candidacy'[p], p[1], loading'[candidacy'[p].by].wrote)
    BY DEF WinsHold
  <2>k. \A r \in DOMAIN y.wrote : r \in DOMAIN x.wrote \/ \E m \in DOMAIN x.kept : r = <<c, m>>
    BY <1>8
  <2>1. ASSUME NEW n \in D, p = <<Roster!Row(j, n), x.kept[n]>>, candidacy'[p].by = j,
               candidacy'[p].filing = Roster!Filing(Line(j, x, n))
        PROVE  Wins(candidacy'[p], p[1], loading'[candidacy'[p].by].wrote)
    <3> DEFINE l == Line(j, x, n)
    <3>1. n \in DOMAIN x.kept
      BY <1>2
    <3>2. /\ p[1] = <<x.kept[n], l.who>> /\ p[1][2] = l.who /\ p[1][1] = x.kept[n]
      BY <1>7, <2>1, <3>1
    <3>3. <<c, n>> \in DOMAIN y.wrote /\ y.wrote[<<c, n>>] = x.kept[n]
      BY <1>8, <3>1
    <3>4. <<c, n>> \in Stands(j, y.wrote, p[1])
      BY <1>15, <3>2, <3>3 DEF Stands
    <3>5. ASSUME NEW r \in Stands(j, y.wrote, p[1]) PROVE Roster!UpTo(r, <<c, n>>)
      <4>1. /\ r \in DOMAIN y.wrote /\ Roster!At(j, r).who = l.who /\ y.wrote[r] = x.kept[n]
        BY <3>2 DEF Stands
      <4>2. CASE r \in DOMAIN x.wrote
        <5>1. r[1] \in 1 .. x.offset /\ c = x.offset + 1
          BY <1>8, <4>2 DEF c
        <5> QED
          BY <1>1, <5>1 DEF Roster!UpTo
      <4>3. ASSUME NEW m \in DOMAIN x.kept, r = <<c, m>> PROVE Roster!UpTo(r, <<c, n>>)
        <5>1. Line(j, x, m).who = l.who /\ x.kept[m] = x.kept[n]
          BY <1>8, <1>15, <4>1, <4>3
        <5>2. Roster!Row(j, m) = Roster!Row(j, n)
          BY <1>7, <3>1, <5>1
        <5>3. ~(n < m)
          BY <5>2 DEF D, Roster!Deduplicate
        <5>4. m =< n
          <6>1. m \in Nat /\ n \in Nat
            BY <1>1, <3>1
          <6> QED
            BY <5>3, <6>1
        <5> QED
          BY <4>3, <5>4 DEF Roster!UpTo
      <4> QED
        BY <2>k, <4>1, <4>2, <4>3
    <3>6. candidacy'[p].filing = Roster!Filing(Roster!At(j, <<c, n>>))
      BY <1>15, <2>1
    <3>7. loading'[candidacy'[p].by].wrote = y.wrote
      BY <1>5, <2>1
    <3> QED
      BY <2>1, <3>4, <3>5, <3>6, <3>7 DEF Wins
  <2>2. ASSUME \A n \in D : p # <<Roster!Row(j, n), x.kept[n]>>, candidacy'[p] = candidacy[p]
        PROVE  Wins(candidacy'[p], p[1], loading'[candidacy'[p].by].wrote)
    <3>1. p \in DOMAIN candidacy
      BY <1>6, <2>2
    <3>2. p \in Roster!Candidates \X Roster!Elections /\ p[2] = p[1][1] /\ candidacy[p].by \in Loads
      BY <3>1 DEF RosterInv, CandidaciesFit
    <3>3. CASE candidacy[p].by # j
      BY <1>5, <2>2, <3>1, <3>2, <3>3 DEF RosterInv, WinsHold
    <3>4. CASE candidacy[p].by = j
      <4>1. ASSUME NEW m \in DOMAIN x.kept, Line(j, x, m).who = p[1][2], x.kept[m] = p[1][1]
            PROVE  FALSE
        <5>2. Roster!Row(j, m) = <<p[1][1], p[1][2]>>
          BY <1>7, <4>1
        <5>3. p[1] = <<p[1][1], p[1][2]>> /\ p = <<p[1], p[2]>>
          BY <3>2 DEF Roster!Candidates
        <5>4. PICK d \in D : Roster!Row(j, d) = Roster!Row(j, m)
          BY <1>0, LastIsKept DEF D
        <5>5. x.kept[d] = p[1][1]
          <6>1. Roster!Row(j, d) = <<x.kept[d], Line(j, x, d).who>>
            BY <1>2, <1>7
          <6> QED
            BY <5>2, <5>4, <6>1
        <5>6. p = <<Roster!Row(j, d), x.kept[d]>>
          BY <3>2, <5>2, <5>3, <5>4, <5>5
        <5> QED
          BY <2>2, <5>6
      <4>2. ASSUME NEW q \in Stands(j, y.wrote, p[1]) PROVE q \in Stands(j, x.wrote, p[1])
        <5>1. q \in DOMAIN y.wrote /\ y.wrote[q] = p[1][1] /\ Roster!At(j, q).who = p[1][2]
          BY DEF Stands
        <5>2. CASE q \in DOMAIN x.wrote
          BY <1>8, <5>1, <5>2 DEF Stands
        <5>3. ASSUME NEW m \in DOMAIN x.kept, q = <<c, m>> PROVE FALSE
          BY <1>8, <1>15, <4>1, <5>1, <5>3
        <5> QED
          BY <2>k, <5>1, <5>2, <5>3
      <4>3. Stands(j, x.wrote, p[1]) \subseteq Stands(j, y.wrote, p[1])
        BY <1>8 DEF Stands
      <4>4. loading'[j].wrote = y.wrote /\ Stands(j, y.wrote, p[1]) = Stands(j, x.wrote, p[1])
        BY <1>5, <4>2, <4>3
      <4>5. Wins(candidacy[p], p[1], x.wrote)
        BY <3>1, <3>4 DEF RosterInv, WinsHold
      <4> QED
        BY <2>2, <3>4, <4>4, <4>5 DEF Wins
    <3> QED
      BY <3>3, <3>4
  <2> QED
    BY <1>6, <2>1, <2>2
<1>18. LoadFits(j, loading[j])'
  <2>1. LoadTypes(j, y)
    <3>1. c \in Nat /\ c =< Len(Lists[j]) /\ Len(Lists[j]) \in Nat
      BY <1>1, ListFacts
    <3>2. c < Len(Lists[j]) => 1 - 1 =< Len(Lists[j][c + 1])
      <4> SUFFICES ASSUME c < Len(Lists[j]) PROVE 1 - 1 =< Len(Lists[j][c + 1])
        OBVIOUS
      <4> DEFINE e == c + 1
      <4>1. e \in 1 .. Len(Lists[j])
        BY <3>1
      <4> HIDE DEF e
      <4>2. Len(Lists[j][e]) \in Nat
        BY <4>1, ListFacts
      <4> QED
        BY <4>2 DEF e
    <3>3. x.status = "running"
      BY <1>1 DEF LoadFits, LoadTypes
    <3>4. (y.pc = "resolve" /\ c # Len(Lists[j])) \/ (y.pc = "final" /\ c = Len(Lists[j]))
      BY <1>1, <1>8
    <3>5. y.total \in Nat /\ y.good \in Nat /\ y.errors \in Nat
      <4>1. \A m, n \in Nat : m + n \in Nat
        OBVIOUS
      <4> HIDE DEF x
      <4> QED
        BY <1>1, <1>2, <1>8, <4>1, SMTT(30)
    <3> HIDE DEF x
    <3> QED
      BY <1>8, <3>1, <3>2, <3>3, <3>4, <3>5 DEF LoadTypes
  <2>2. CacheFits(y)
    BY <1>1, <1>8 DEF LoadFits, CacheFits
  <2>3. KeptFits(j, y) /\ WroteFits(j, y)
    <3>1. KeptFits(j, y)
      BY <1>8 DEF KeptFits
    <3>2. /\ Roster!Places(j, c) = Roster!Places(j, x.offset) \cup ({c} \X (1 .. Len(Lists[j][c])))
      <4>1. x.offset \in Nat /\ x.offset < Len(Lists[j])
        BY <1>1
      <4> HIDE DEF x
      <4>2. Roster!Places(j, c) = Roster!Places(j, x.offset) \cup ({c} \X DOMAIN Lists[j][c])
        BY <4>1, PlacesGrow DEF c
      <4>3. c \in 1 .. Len(Lists[j])
        BY <4>1, ListFacts DEF c
      <4>4. DOMAIN Lists[j][c] = 1 .. Len(Lists[j][c])
        BY <4>3, ListFacts
      <4> QED
        BY <4>2, <4>4
    <3>3. ASSUME NEW p \in DOMAIN x.wrote
          PROVE  /\ p \in Roster!Places(j, c) /\ Roster!Key(Roster!At(j, p)) \in DOMAIN y.cache
                 /\ y.wrote[p] = y.cache[Roster!Key(Roster!At(j, p))]
      BY <1>1, <1>8, <3>2 DEF LoadFits, WroteFits
    <3>4. ASSUME NEW n \in DOMAIN x.kept
          PROVE  /\ <<c, n>> \in Roster!Places(j, c)
                 /\ Roster!Key(Roster!At(j, <<c, n>>)) \in DOMAIN y.cache
                 /\ y.wrote[<<c, n>>] = y.cache[Roster!Key(Roster!At(j, <<c, n>>))]
      BY <1>1, <1>7, <1>8, <1>15, <3>2
    <3>5. \A p \in DOMAIN y.wrote : p \in DOMAIN x.wrote \/ \E m \in DOMAIN x.kept : p = <<c, m>>
      BY <1>8
    <3> QED
      BY <1>8, <3>1, <3>3, <3>4, <3>5 DEF WroteFits
  <2>4. CountsFit(j, y)
    BY <1>0, <1>4, CommitCounts
  <2> QED
    BY <1>5, <2>1, <2>2, <2>3, <2>4 DEF LoadFits
<1>19. ASSUME NEW k \in Loads \ {j} PROVE LoadFits(k, loading[k])'
  BY <1>5 DEF RosterInv
<1> QED
  BY <1>5, <1>9, <1>11, <1>12, <1>17, <1>18, <1>19 DEF RosterInv

-----------------------------------------------------------------------------
(* An admin writes candidates and takes candidacies away.                  *)
LEMMA RosterEdited ==
  ASSUME RosterInv, UNCHANGED <<contested, gone, loading, fresh>>,
         DOMAIN candidate' \subseteq Roster!Candidates,
         \A c \in DOMAIN candidate' : DOMAIN candidate'[c] = {"filing", "by"},
         DOMAIN candidacy' \subseteq DOMAIN candidacy,
         \A p \in DOMAIN candidacy' : candidacy'[p] = candidacy[p], OfImports'
  PROVE  RosterInv'
<1> USE DEF RosterInv
<1>1. RosterTypes' /\ CandidaciesFit' /\ WinsHold'
  BY DEF RosterTypes, CandidaciesFit, WinsHold
<1> QED
  BY <1>1

(* An admin edits a candidate, or takes a candidacy away.                   *)
LEMMA AdminEdits ==
  ASSUME RosterInv, Roster!Admin
  PROVE  RosterInv'
<1>1. /\ DOMAIN candidate \subseteq Roster!Candidates
      /\ \A d \in DOMAIN candidate : DOMAIN candidate[d] = {"filing", "by"}
      /\ OfImports
  BY DEF RosterInv, RosterTypes
<1>2. ASSUME NEW e \in contested, NEW w \in People, NEW f \in Roster!Filings,
             Roster!CreateCandidate(<<e, w>>, f)
      PROVE  RosterInv'
  <2> DEFINE c == <<e, w>>
  <2>c. c \in Roster!Candidates
    BY DEF RosterInv, RosterTypes, Roster!Candidates
  <2> HIDE DEF c
  <2> DEFINE new == [filing |-> f, by |-> Roster!None]
  <2>1. /\ candidate' = Roster!Over([d \in {c} |-> new], candidate)
        /\ UNCHANGED <<contested, gone, candidacy, loading, fresh>> /\ c \notin DOMAIN candidate
    BY <1>2 DEF Roster!CreateCandidate, c
  <2>2. DOMAIN new = {"filing", "by"} /\ new.by = Roster!None
    OBVIOUS
  <2> HIDE DEF new
  <2>3. /\ DOMAIN candidate' = {c} \cup DOMAIN candidate /\ candidate'[c] = new
        /\ \A d \in DOMAIN candidate : candidate'[d] = candidate[d]
    BY <2>1 DEF Roster!Over
  <2>4. OfImports'
    BY <1>1, <2>1, <2>2, <2>3 DEF OfImports
  <2> QED
    BY <1>1, <2>1, <2>2, <2>3, <2>4, <2>c, RosterEdited
<1>3. ASSUME NEW c \in DOMAIN candidate, NEW f \in Roster!Filings, Roster!UpdateCandidate(c, f) PROVE RosterInv'
  <2>1. /\ candidate' = [candidate EXCEPT ![c].filing = f]
        /\ UNCHANGED <<contested, gone, candidacy, loading, fresh>> /\ c \in DOMAIN candidate
    BY <1>3 DEF Roster!UpdateCandidate
  <2>2. \A d \in DOMAIN candidate : DOMAIN candidate'[d] = {"filing", "by"} /\ candidate'[d].by = candidate[d].by
    BY <1>1, <2>1
  <2>3. OfImports'
    BY <1>1, <2>1, <2>2 DEF OfImports
  <2> QED
    BY <1>1, <2>1, <2>2, <2>3, RosterEdited
<1>4. ASSUME NEW c \in DOMAIN candidate, Roster!DeleteCandidate(c) PROVE RosterInv'
  <2>1. /\ candidate' = [d \in DOMAIN candidate \ {c} |-> candidate[d]]
        /\ candidacy' = [p \in {q \in DOMAIN candidacy : q[1] # c} |-> candidacy[p]]
        /\ UNCHANGED <<contested, gone, loading, fresh>>
    BY <1>4 DEF Roster!DeleteCandidate
  <2>2. OfImports'
    BY <1>1, <2>1 DEF OfImports
  <2>3. /\ DOMAIN candidate' \subseteq DOMAIN candidate
        /\ \A d \in DOMAIN candidate' : candidate'[d] = candidate[d]
        /\ DOMAIN candidacy' \subseteq DOMAIN candidacy
        /\ \A p \in DOMAIN candidacy' : candidacy'[p] = candidacy[p]
    BY <2>1
  <2> QED
    BY <1>1, <2>1, <2>2, <2>3, RosterEdited
<1>5. ASSUME NEW c \in DOMAIN candidate, Roster!AddLink(c, "admin") \/ Roster!DeleteLink(c)
      PROVE  RosterInv'
  <2>1. UNCHANGED <<contested, gone, candidate, candidacy, loading, fresh>>
    BY <1>5 DEF Roster!AddLink, Roster!DeleteLink
  <2>2. OfImports'
    BY <1>1, <2>1 DEF OfImports
  <2> QED
    BY <1>1, <2>1, <2>2, RosterEdited
<1>6. ASSUME NEW e \in contested, Roster!RemoveElection(e) PROVE RosterInv'
  <2>1. /\ contested' = contested \ {e} /\ gone' = gone \cup {e}
        /\ UNCHANGED <<candidate, candidacy, loading, fresh>>
    BY <1>6 DEF Roster!RemoveElection
  <2>2. IsFiniteSet(gone')
    BY <2>1, FS_AddElement DEF RosterInv, RosterTypes
  <2>3. RosterTypes'
    BY <2>1, <2>2 DEF RosterInv, RosterTypes
  <2>4. CandidaciesFit' /\ OfImports' /\ WinsHold'
    BY <2>1 DEF RosterInv, CandidaciesFit, OfImports, WinsHold
  <2> QED
    BY <2>1, <2>3, <2>4 DEF RosterInv
<1> QED
  BY <1>2, <1>3, <1>4, <1>5, <1>6 DEF Roster!Admin

(* Every step of the jobs and of the admins keeps the invariant.            *)
LEMMA RosterStep == RosterInv /\ [Roster!Next]_roster => RosterInv'
<1> SUFFICES ASSUME RosterInv, [Roster!Next]_roster PROVE RosterInv'
  OBVIOUS
<1>1. ASSUME NEW j \in Loads, Roster!Import(j) PROVE RosterInv'
  <2>1. CASE Roster!ParseError(j) \/ Roster!CreateFails(j)
    <3>1. UNCHANGED <<contested, gone, candidate, candidacy>>
      BY <2>1 DEF Roster!ParseError, Roster!CreateFails
    <3> QED
      BY <2>1, <3>1, LoadErring
  <2> QED
    BY <1>1, <2>1, LoadTurning, LoadReads, LoadCommits DEF Roster!Import
<1>2. CASE Roster!Admin
  BY <1>2, AdminEdits
<1>3. CASE UNCHANGED roster
  <2>1. UNCHANGED <<contested, gone, candidate, candidacy, loading, fresh>>
    BY <1>3 DEF roster
  <2>2. OfImports'
    BY <2>1 DEF RosterInv, OfImports
  <2> QED
    BY <2>1, <2>2, RosterEdited DEF RosterInv, RosterTypes
<1> QED
  BY <1>1, <1>2, <1>3 DEF Roster!Next

-----------------------------------------------------------------------------
(* The elections a job has found for a contest are one, as far as none was  *)
(* removed: what it has found is still there, its own or removed, and it    *)
(* creates one only where all that it had found were removed.               *)
Whole(j, x) ==
  /\ \A g, h \in DOMAIN x.cache :
       g[1] = h[1] => x.cache[g] = x.cache[h] \/ x.cache[g] \in gone \/ x.cache[h] \in gone
  /\ x.pc # "idle" /\ x.lost = FALSE =>
       \A g \in DOMAIN x.cache : x.cache[g] \in contested \cup fresh[j] \cup gone
  /\ x.pc = "create" => /\ x.lost = FALSE
                        /\ \A g \in DOMAIN x.cache :
                             g[1] = Line(j, x, x.pos).contest => x.cache[g] \in gone
  /\ x.status \in {"none", "pending"} => DOMAIN x.cache = {}
WholeInv == \A j \in Loads : Whole(j, loading[j])

(* What the other jobs do, and an admin, does not part them.                *)
LEMMA WholeStays ==
  ASSUME RosterInv, NEW k \in Loads, Whole(k, loading[k]), loading'[k] = loading[k],
         gone \subseteq gone', contested \subseteq contested' \cup gone', fresh[k] \subseteq fresh'[k]
  PROVE  Whole(k, loading[k])'
<1> DEFINE x == loading[k]
<1>1. \A g, h \in DOMAIN x.cache :
        g[1] = h[1] => x.cache[g] = x.cache[h] \/ x.cache[g] \in gone' \/ x.cache[h] \in gone'
  BY DEF Whole
<1>2. x.pc # "idle" /\ x.lost = FALSE =>
        \A g \in DOMAIN x.cache : x.cache[g] \in contested' \cup fresh'[k] \cup gone'
  BY DEF Whole
<1>3. /\ x.pc = "create" => /\ x.lost = FALSE
                            /\ \A g \in DOMAIN x.cache :
                                 g[1] = Line(k, x, x.pos).contest => x.cache[g] \in gone'
      /\ x.status \in {"none", "pending"} => DOMAIN x.cache = {}
  BY DEF Whole
<1> HIDE DEF x
<1>4. Whole(k, x)'
  BY <1>1, <1>2, <1>3 DEF Whole, Line, x
<1> QED
  BY <1>4 DEF x

(* A job keeps its next record with an election: one it had found, the only *)
(* one there is, or a new one where all that it had found were removed.     *)
LEMMA WholeKeeps ==
  ASSUME RosterInv, NEW j \in Loads, Whole(j, loading[j]), NEW e, NEW y, NEW key,
         DOMAIN y.cache = {key} \cup DOMAIN loading[j].cache, y.cache[key] = e,
         \A g \in DOMAIN loading[j].cache : g # key => y.cache[g] = loading[j].cache[g],
         key \in DOMAIN loading[j].cache => loading[j].cache[key] = e,
         y.pc = "resolve", y.lost = loading[j].lost, y.status = loading[j].status,
         loading[j].status \notin {"none", "pending"}, loading[j].pc # "idle",
         key \notin DOMAIN loading[j].cache =>
           /\ e \in contested \cup fresh'[j] \cup gone
           /\ \A g \in DOMAIN loading[j].cache :
                g[1] = key[1] => loading[j].cache[g] = e \/ loading[j].cache[g] \in gone,
         fresh[j] \subseteq fresh'[j], UNCHANGED <<contested, gone>>, loading'[j] = y
  PROVE  Whole(j, loading[j])'
<1> DEFINE x == loading[j]
<1>1. \A g \in DOMAIN x.cache : y.cache[g] = x.cache[g]
  OBVIOUS
<1>2. \A g, h \in DOMAIN y.cache :
        g[1] = h[1] => y.cache[g] = y.cache[h] \/ y.cache[g] \in gone \/ y.cache[h] \in gone
  <2> SUFFICES ASSUME NEW g \in DOMAIN y.cache, NEW h \in DOMAIN y.cache, g[1] = h[1]
               PROVE  y.cache[g] = y.cache[h] \/ y.cache[g] \in gone \/ y.cache[h] \in gone
    OBVIOUS
  <2>1. CASE g \in DOMAIN x.cache /\ h \in DOMAIN x.cache
    BY <1>1, <2>1 DEF Whole
  <2>2. CASE g \notin DOMAIN x.cache
    <3>1. g = key /\ (h = key \/ h \in DOMAIN x.cache)
      BY <2>2
    <3> QED
      BY <1>1, <2>2, <3>1
  <2>3. CASE h \notin DOMAIN x.cache
    <3>1. h = key /\ (g = key \/ g \in DOMAIN x.cache)
      BY <2>3
    <3> QED
      BY <1>1, <2>3, <3>1
  <2> QED
    BY <2>1, <2>2, <2>3
<1>3. x.lost = FALSE => \A g \in DOMAIN y.cache : y.cache[g] \in contested \cup fresh'[j] \cup gone
  BY <1>1 DEF Whole
<1>4. /\ y.status \notin {"none", "pending"} /\ y.pc # "create"
  OBVIOUS
<1> HIDE DEF x
<1> QED
  BY <1>2, <1>3, <1>4 DEF Whole, x

(* Every step keeps a contest's elections one.                              *)
LEMMA WholeStep == RosterInv /\ WholeInv /\ [Roster!Next]_roster => WholeInv'
<1> SUFFICES ASSUME RosterInv, WholeInv, [Roster!Next]_roster PROVE WholeInv'
  OBVIOUS
<1>0. /\ DOMAIN loading = Loads /\ DOMAIN fresh = Loads
      /\ \A j \in Loads : LoadTypes(j, loading[j])
  BY DEF RosterInv, RosterTypes, LoadFits
<1>1. ASSUME NEW j \in Loads, Roster!Import(j) PROVE WholeInv'
  <2> DEFINE x == loading[j]
             r == Line(j, x, x.pos)
             key == Roster!Key(r)
  <2>0. Whole(j, x) /\ DOMAIN x = LoadFields /\ (x.pc # "idle" => x.status = "running")
    BY <1>0 DEF WholeInv, LoadTypes
  <2>a. ASSUME NEW y, loading' = [loading EXCEPT ![j] = y], gone' = gone,
               contested \subseteq contested',
               \A k \in Loads \ {j} : fresh'[k] = fresh[k], Whole(j, loading[j])'
        PROVE  WholeInv'
    <3>1. ASSUME NEW k \in Loads \ {j} PROVE Whole(k, loading[k])'
      <4>1. loading'[k] = loading[k] /\ fresh[k] \subseteq fresh'[k] /\ Whole(k, loading[k])
        BY <1>0, <2>a DEF WholeInv
      <4> QED
        BY <2>a, <4>1, WholeStays
    <3> QED
      BY <2>a, <3>1 DEF WholeInv
  <2>b. ASSUME NEW y, loading' = [loading EXCEPT ![j] = y], UNCHANGED <<contested, gone>>,
               \A k \in Loads \ {j} : fresh'[k] = fresh[k], y.cache = x.cache,
               y.pc # "create", fresh'[j] = fresh[j] \/ y.lost = TRUE \/ y.pc = "idle",
               x.pc = "idle" => x.status = "pending" \/ y.pc = "idle",
               y.lost = x.lost \/ y.lost = TRUE,
               y.status \in {"none", "pending"} => x.status \in {"none", "pending"}
        PROVE  WholeInv'
    <3>1. loading'[j] = y
      BY <1>0, <2>b
    <3>2. \A g, h \in DOMAIN y.cache :
            g[1] = h[1] => y.cache[g] = y.cache[h] \/ y.cache[g] \in gone \/ y.cache[h] \in gone
      BY <2>0, <2>b DEF Whole
    <3>3. y.pc # "idle" /\ y.lost = FALSE =>
            \A g \in DOMAIN y.cache : y.cache[g] \in contested \cup fresh'[j] \cup gone
      BY <2>0, <2>b DEF Whole
    <3>4. y.status \in {"none", "pending"} => DOMAIN y.cache = {}
      BY <2>0, <2>b DEF Whole
    <3> HIDE DEF x
    <3>5. Whole(j, loading[j])'
      BY <2>b, <3>1, <3>2, <3>3, <3>4 DEF Whole
    <3> QED
      BY <2>a, <2>b, <3>5
  <2>1. CASE Roster!CreateJob(j) \/ Roster!StartJob(j) \/ Roster!Finish(j) \/ Roster!Fail(j)
    <3> DEFINE y1 == [x EXCEPT !.status = "pending"]
               y2 == [x EXCEPT !.status = "running", !.pc = IF Lists[j] = <<>> THEN "final" ELSE "resolve"]
               y3 == [x EXCEPT !.status = "completed", !.pc = "idle"]
               y4 == [x EXCEPT !.status = "failed", !.pc = "idle"]
    <3>1. UNCHANGED <<contested, gone>> /\ \A k \in Loads \ {j} : fresh'[k] = fresh[k]
      BY <1>0, <2>1 DEF Roster!CreateJob, Roster!StartJob, Roster!Finish, Roster!Fail
    <3>2. CASE Roster!CreateJob(j)
      <4>1. loading' = [loading EXCEPT ![j] = y1] /\ x.status = "none" /\ fresh' = fresh
        BY <1>0, <3>2 DEF Roster!CreateJob
      <4>2. y1.cache = x.cache /\ y1.pc = x.pc /\ y1.lost = x.lost /\ x.pc = "idle"
        BY <2>0, <4>1 DEF LoadFields
      <4> HIDE DEF y1, x
      <4> QED
        BY <2>b, <3>1, <4>1, <4>2
    <3>3. CASE Roster!StartJob(j)
      <4>1. loading' = [loading EXCEPT ![j] = y2] /\ x.status = "pending" /\ fresh' = fresh
        BY <1>0, <3>3 DEF Roster!StartJob
      <4>2. y2.cache = x.cache /\ y2.lost = x.lost /\ y2.pc # "create" /\ y2.status = "running"
        BY <2>0 DEF LoadFields
      <4> HIDE DEF y2, x
      <4> QED
        BY <2>b, <3>1, <4>1, <4>2
    <3>4. CASE Roster!Finish(j)
      <4>1. loading' = [loading EXCEPT ![j] = y3] /\ fresh' = fresh
        BY <1>0, <3>4 DEF Roster!Finish
      <4>2. y3.cache = x.cache /\ y3.lost = x.lost /\ y3.pc = "idle" /\ y3.status = "completed"
        BY <2>0 DEF LoadFields
      <4> HIDE DEF y3, x
      <4> QED
        BY <2>b, <3>1, <4>1, <4>2
    <3>5. CASE Roster!Fail(j)
      <4>1. loading' = [loading EXCEPT ![j] = y4]
        BY <1>0, <3>5 DEF Roster!Fail
      <4>2. y4.cache = x.cache /\ y4.lost = x.lost /\ y4.pc = "idle" /\ y4.status = "failed"
        BY <2>0 DEF LoadFields
      <4> HIDE DEF y4, x
      <4> QED
        BY <2>b, <3>1, <4>1, <4>2
    <3> QED
      BY <2>1, <3>2, <3>3, <3>4, <3>5
  <2>2. CASE Roster!ParseError(j) \/ Roster!CreateFails(j) \/ (Roster!LookUp(j) /\ Roster!Err(j))
    <3> DEFINE err == x.errors + 1
               nxt == x.pos + 1
               y1  == [x EXCEPT !.errors = err, !.pos = nxt, !.pc = "resolve"]
               y2  == [x EXCEPT !.errors = err, !.pos = nxt, !.pc = "resolve", !.lost = TRUE]
    <3>1. /\ UNCHANGED <<contested, gone>> /\ \A k \in Loads \ {j} : fresh'[k] = fresh[k]
          /\ x.pc # "idle"
      BY <1>0, <2>2 DEF Roster!ParseError, Roster!CreateFails, Roster!LookUp, Roster!Reading
    <3>2. \/ loading' = [loading EXCEPT ![j] = y1] /\ fresh' = fresh
          \/ loading' = [loading EXCEPT ![j] = y2]
      BY <1>0, <2>2 DEF Roster!ParseError, Roster!CreateFails, Roster!LookUp, Roster!Err
    <3> HIDE DEF err, nxt
    <3>3. /\ y1.cache = x.cache /\ y1.lost = x.lost /\ y1.pc = "resolve" /\ y1.status = x.status
          /\ y2.cache = x.cache /\ y2.lost = TRUE /\ y2.pc = "resolve" /\ y2.status = x.status
      BY <2>0 DEF LoadFields
    <3> HIDE DEF y1, y2, x
    <3>4. CASE loading' = [loading EXCEPT ![j] = y1] /\ fresh' = fresh
      BY <2>b, <3>1, <3>3, <3>4
    <3>5. CASE loading' = [loading EXCEPT ![j] = y2]
      BY <2>b, <3>1, <3>3, <3>5
    <3> QED
      BY <3>2, <3>4, <3>5
  <2>k. ASSUME NEW e, Roster!Keep(j, e), UNCHANGED <<contested, gone>>, x.pc \in {"resolve", "create"},
               \A k \in Loads \ {j} : fresh'[k] = fresh[k], fresh[j] \subseteq fresh'[j],
               key \in DOMAIN x.cache => x.cache[key] = e,
               key \notin DOMAIN x.cache =>
                 /\ e \in contested \cup fresh'[j] \cup gone
                 /\ \A g \in DOMAIN x.cache :
                      g[1] = key[1] => x.cache[g] = e \/ x.cache[g] \in gone
        PROVE  WholeInv'
    <3> DEFINE keptNow  == Roster!Over([n \in {x.pos} |-> e], x.kept)
               cacheNow == Roster!Over([c \in {key} |-> e], x.cache)
               nxt == x.pos + 1
               y == [x EXCEPT !.kept = keptNow, !.cache = cacheNow, !.pos = nxt, !.pc = "resolve"]
    <3>1. Roster!Key(Roster!Record(j)) = key
      BY DEF Roster!Record, Roster!Chunk, Line
    <3>2. loading' = [loading EXCEPT ![j] = y]
      BY <1>0, <2>k, <3>1 DEF Roster!Keep
    <3> HIDE DEF nxt, keptNow
    <3>3. y.cache = cacheNow /\ y.pc = "resolve" /\ y.lost = x.lost /\ y.status = x.status
      BY <2>0 DEF LoadFields
    <3>4. /\ DOMAIN cacheNow = {key} \cup DOMAIN x.cache /\ cacheNow[key] = e
          /\ \A g \in DOMAIN x.cache : g # key => cacheNow[g] = x.cache[g]
      <4> HIDE DEF key, x
      <4> QED
        BY DEF Roster!Over
    <3> HIDE DEF y, cacheNow, key
    <3>5. loading'[j] = y
      BY <1>0, <3>2
    <3>6. Whole(j, loading[j])'
      BY <2>0, <2>k, <3>3, <3>4, <3>5, WholeKeeps
    <3> QED
      BY <2>a, <2>k, <3>2, <3>6
  <2>3. CASE Roster!Cached(j)
    <3>1. /\ Roster!Keep(j, x.cache[key]) /\ UNCHANGED <<contested, gone, fresh>> /\ x.pc = "resolve"
          /\ key \in DOMAIN x.cache
      BY <2>3, ReadIs DEF Roster!Cached, Roster!Reading
    <3> HIDE DEF key, x
    <3> QED
      BY <2>k, <3>1
  <2>f. ASSUME NEW c PROVE Roster!Found(j, c) = {e \in contested \cup fresh[j] : e[1] = c}
    BY DEF Roster!Found
  <2>c. /\ key[1] = r.contest
        /\ \A g \in DOMAIN x.cache : x.cache[g][1] = g[1]
    BY DEF RosterInv, LoadFits, CacheFits, Roster!Key
  <2>4. CASE Roster!LookUp(j)
    <3>1. /\ UNCHANGED <<contested, gone, fresh>> /\ x.pc = "resolve" /\ key \notin DOMAIN x.cache
          /\ \/ Roster!Err(j)
             \/ ~x.lost /\ \E e \in Roster!Found(j, r.contest) :
                             Roster!Found(j, r.contest) = {e} /\ Roster!Keep(j, e)
             \/ /\ ~x.lost /\ Roster!Found(j, r.contest) = {}
                /\ loading' = [loading EXCEPT ![j].pc = "create"]
      BY <2>4, ReadIs DEF Roster!LookUp, Roster!Reading
    <3>2. ASSUME ~x.lost, NEW g \in DOMAIN x.cache, g[1] = r.contest
          PROVE  x.cache[g] \in Roster!Found(j, r.contest) \/ x.cache[g] \in gone
      BY <2>0, <2>c, <2>f, <3>1, <3>2 DEF Whole
    <3>3. ASSUME ~x.lost, NEW e, Roster!Found(j, r.contest) = {e}, Roster!Keep(j, e) PROVE WholeInv'
      <4>1. e \in contested \cup fresh[j]
        BY <2>f, <3>3
      <4>2. \A g \in DOMAIN x.cache : g[1] = key[1] => x.cache[g] = e \/ x.cache[g] \in gone
        BY <2>c, <3>2, <3>3
      <4> HIDE DEF key, x
      <4> QED
        BY <2>k, <3>1, <3>3, <4>1, <4>2
    <3>4. ASSUME ~x.lost, Roster!Found(j, r.contest) = {}, loading' = [loading EXCEPT ![j].pc = "create"]
          PROVE  WholeInv'
      <4> DEFINE y == [x EXCEPT !.pc = "create"]
      <4>1. loading' = [loading EXCEPT ![j] = y] /\ loading'[j] = y
        BY <1>0, <3>4
      <4>2. /\ y.cache = x.cache /\ y.lost = x.lost /\ y.pc = "create" /\ y.status = x.status
            /\ y.pos = x.pos /\ y.offset = x.offset
        BY <2>0 DEF LoadFields
      <4> HIDE DEF y
      <4>3. Line(j, y, y.pos) = r
        BY <4>2 DEF Line
      <4>4. \A g \in DOMAIN x.cache : g[1] = r.contest => x.cache[g] \in gone
        BY <3>2, <3>4
      <4>5. Whole(j, loading[j])'
        <5>1. x.lost = FALSE
          BY <3>4
        <5>2. \A g \in DOMAIN x.cache : x.cache[g] \in contested \cup fresh[j] \cup gone
          BY <2>0, <3>1, <5>1 DEF Whole
        <5>3. x.status = "running"
          BY <2>0, <3>1
        <5>4. \A g, h \in DOMAIN x.cache :
                g[1] = h[1] => x.cache[g] = x.cache[h] \/ x.cache[g] \in gone \/ x.cache[h] \in gone
          BY <2>0 DEF Whole
        <5>5. Line(j, loading'[j], loading'[j].pos).contest = r.contest
          BY <4>1, <4>3
        <5>6. /\ loading'[j].cache = x.cache /\ loading'[j].lost = x.lost
              /\ loading'[j].pc = "create" /\ loading'[j].status = x.status
          BY <4>1, <4>2
        <5>7. contested' = contested /\ gone' = gone /\ fresh' = fresh
          BY <3>1
        <5>8. Line(j, loading[j], loading[j].pos)' = Line(j, loading'[j], loading'[j].pos)
          BY DEF Line
        <5> HIDE DEF x, r
        <5> QED
          BY <4>4, <5>1, <5>2, <5>3, <5>4, <5>5, <5>6, <5>7, <5>8 DEF Whole
      <4> QED
        BY <2>a, <3>1, <4>1, <4>5
    <3> QED
      BY <2>2, <2>4, <3>1, <3>3, <3>4
  <2>5. CASE Roster!CreateElection(j)
    <3> DEFINE e == Roster!Created(j)
    <3>1. /\ Roster!Keep(j, e) /\ fresh' = [fresh EXCEPT ![j] = @ \cup {e}] /\ x.pc = "create"
          /\ UNCHANGED <<contested, gone>>
      BY <2>5 DEF Roster!CreateElection
    <3> HIDE DEF e
    <3>2. /\ \A k \in Loads \ {j} : fresh'[k] = fresh[k]
          /\ fresh[j] \subseteq fresh'[j] /\ e \in fresh'[j]
      BY <1>0, <3>1
    <3>3. \A g \in DOMAIN x.cache : g[1] = key[1] => x.cache[g] \in gone
      BY <2>0, <2>c, <3>1 DEF Whole
    <3>4. key \notin DOMAIN x.cache
      BY <3>1, ReadIs
    <3> HIDE DEF key, x
    <3> QED
      BY <2>k, <3>1, <3>2, <3>3, <3>4
  <2>6. CASE Roster!CommitChunk(j)
    <3> DEFINE D   == Roster!Deduplicate(j)
               ww  == Roster!Written(j)
               off == x.offset + 1
               tt  == x.total + Len(Roster!Chunk(j))
               gg  == x.good + Roster!Cardinality(D)
               pc1 == IF off = Len(Lists[j]) THEN "final" ELSE x.pc
               y   == [x EXCEPT !.offset = off, !.kept = <<>>, !.pos = 1, !.wrote = ww, !.total = tt,
                                !.good = gg, !.pc = pc1]
    <3>1. /\ loading' = [loading EXCEPT ![j] = y] /\ contested' = contested \cup fresh[j]
          /\ fresh' = [fresh EXCEPT ![j] = {}] /\ gone' = gone /\ x.pc = "resolve"
      BY <1>0, <2>0, <2>6 DEF Roster!CommitChunk, Roster!AtEnd, LoadFields
    <3>2. pc1 # "create" /\ pc1 # "idle"
      BY <3>1
    <3> HIDE DEF off, ww, tt, gg, pc1
    <3>3. y.cache = x.cache /\ y.lost = x.lost /\ y.pc = pc1 /\ y.status = x.status
      BY <2>0 DEF LoadFields
    <3> HIDE DEF y
    <3>4. loading'[j] = y /\ \A k \in Loads \ {j} : fresh'[k] = fresh[k]
      BY <1>0, <3>1
    <3>5. x.status = "running"
      BY <2>0, <3>1
    <3>6. /\ \A g, h \in DOMAIN x.cache :
               g[1] = h[1] => x.cache[g] = x.cache[h] \/ x.cache[g] \in gone \/ x.cache[h] \in gone
          /\ x.lost = FALSE => \A g \in DOMAIN x.cache : x.cache[g] \in contested \cup fresh[j] \cup gone
      BY <2>0, <3>1 DEF Whole
    <3> HIDE DEF x
    <3>7. /\ loading'[j].cache = x.cache /\ loading'[j].lost = x.lost
          /\ loading'[j].pc = pc1 /\ loading'[j].status = x.status
      BY <3>3, <3>4
    <3>8. Whole(j, loading[j])'
      BY <3>1, <3>2, <3>5, <3>6, <3>7 DEF Whole
    <3> QED
      BY <2>a, <3>1, <3>4, <3>8
  <2> QED
    BY <1>1, <2>1, <2>2, <2>3, <2>4, <2>5, <2>6 DEF Roster!Import
<1>2. CASE Roster!Admin
  <2>1. /\ UNCHANGED <<loading, fresh>> /\ gone \subseteq gone' /\ contested \subseteq contested' \cup gone'
    BY <1>2 DEF Roster!Admin, Roster!CreateCandidate, Roster!UpdateCandidate, Roster!DeleteCandidate,
                Roster!AddLink, Roster!DeleteLink, Roster!RemoveElection
  <2> QED
    BY <2>1, WholeStays DEF WholeInv
<1>3. CASE UNCHANGED roster
  <2>1. UNCHANGED <<loading, fresh, gone, contested>>
    BY <1>3 DEF roster
  <2> QED
    BY <2>1, WholeStays DEF WholeInv
<1> QED
  BY <1>1, <1>2, <1>3 DEF Roster!Next

(* The invariant says what the property does.                               *)
LEMMA RosterStands == RosterInv /\ WholeInv => Roster!RosterHolds
<1> SUFFICES ASSUME RosterInv, WholeInv PROVE Roster!RosterHolds
  OBVIOUS
<1>1. Roster!ImportedIsListed
  <2> SUFFICES ASSUME NEW c \in DOMAIN candidate, candidate[c].by # Roster!None
               PROVE  /\ c \in Roster!ListCandidates(c[1], Roster!None)
                      /\ \A p \in DOMAIN candidacy :
                           c \in Roster!ListCandidates(p[2], Roster!None) => p[2] = c[1]
    BY DEF Roster!ImportedIsListed
  <2>1. <<c, c[1]>> \in DOMAIN candidacy /\ <<c, c[1]>>[1] = c /\ <<c, c[1]>>[2] = c[1]
    BY DEF RosterInv, OfImports
  <2>2. c \in Roster!ListCandidates(c[1], Roster!None)
    BY <2>1 DEF Roster!ListCandidates
  <2>3. \A p \in DOMAIN candidacy : p[2] = p[1][1]
    BY DEF RosterInv, CandidaciesFit
  <2> QED
    BY <2>2, <2>3 DEF Roster!ListCandidates
<1>2. Roster!LastRecordWins
  BY WinsIs DEF RosterInv
<1>4. Roster!ContestStaysWhole
  <2> SUFFICES ASSUME NEW j \in Loads, NEW p \in DOMAIN loading[j].wrote,
                      NEW q \in DOMAIN loading[j].wrote,
                      Roster!At(j, p).contest = Roster!At(j, q).contest
               PROVE  \/ loading[j].wrote[p] = loading[j].wrote[q]
                      \/ loading[j].wrote[p] \in gone \/ loading[j].wrote[q] \in gone
    BY DEF Roster!ContestStaysWhole
  <2> DEFINE x == loading[j]
             g == Roster!Key(Roster!At(j, p))
             h == Roster!Key(Roster!At(j, q))
  <2>1. /\ g \in DOMAIN x.cache /\ x.wrote[p] = x.cache[g]
        /\ h \in DOMAIN x.cache /\ x.wrote[q] = x.cache[h]
    BY DEF RosterInv, LoadFits, WroteFits
  <2>2. g[1] = h[1]
    BY DEF Roster!Key
  <2> HIDE DEF g, h
  <2> QED
    BY <2>1, <2>2 DEF WholeInv, Whole
<1>3. Roster!CountsAddUp
  <2> SUFFICES ASSUME NEW j \in Loads, loading[j].status = "completed"
               PROVE  /\ loading[j].total = Cardinality(Roster!Places(j, Len(Lists[j])))
                      /\ loading[j].good + loading[j].errors \in
                           (loading[j].total - Cardinality(Roster!Again(j))) .. loading[j].total
    BY RosterCards DEF Roster!CountsAddUp
  <2> DEFINE x == loading[j]
             a == Cardinality(Roster!Again(j))
  <2>1. /\ x.offset = Len(Lists[j]) /\ x.pos = 1 /\ DOMAIN x.kept \subseteq 1 .. (x.pos - 1)
        /\ x.total \in Nat /\ x.good \in Nat /\ x.errors \in Nat
    BY DEF RosterInv, LoadFits, LoadTypes
  <2>2. Repeated(j, x) = Roster!Again(j)
    BY <2>1 DEF Repeated, Roster!Again
  <2>3. Cardinality(DOMAIN x.kept) = 0
    <3>1. DOMAIN x.kept = {}
      BY <2>1
    <3> QED
      BY <3>1, FS_EmptySet
  <2>4. a \in Nat
    <3>1. Len(Lists[j]) \in Nat /\ Len(Lists[j]) =< Len(Lists[j])
      BY ListFacts
    <3>2. IsFiniteSet(Roster!Places(j, Len(Lists[j])))
      BY <3>1, PlacesFinite
    <3>3. IsFiniteSet(Roster!Again(j))
      BY <3>2, FS_Subset DEF Roster!Again
    <3> QED
      BY <3>3, FS_CardinalityType
  <2>5. /\ x.total = Cardinality(Roster!Places(j, x.offset))
        /\ x.good + x.errors + 0 =< x.total + (1 - 1) /\ x.total + (1 - 1) =< x.good + x.errors + 0 + a
    BY <2>1, <2>2, <2>3 DEF RosterInv, LoadFits, CountsFit
  <2>6. \A g, e, t, b \in Nat : g + e + 0 =< t + (1 - 1) /\ t + (1 - 1) =< g + e + 0 + b => g + e \in (t - b) .. t
    OBVIOUS
  <2> HIDE DEF a, x
  <2>7. x.good + x.errors \in (x.total - a) .. x.total
    BY <2>1, <2>4, <2>5, <2>6
  <2> QED
    BY <2>1, <2>5, <2>7 DEF a, x
<1> QED
  BY <1>1, <1>2, <1>3, <1>4 DEF Roster!RosterHolds

(* Whatever imports and admins do in between, a candidate an import wrote   *)
(* is listed for its election, a candidacy says what the last record kept   *)
(* for it in its import's file said, a file's records of a contest stand in *)
(* one election unless one was removed, and a completed job has counted     *)
(* every record (process_candidate_import, _resolve_election).              *)
THEOREM RosterTheorem == ImportsSpec => []RosterHolds
<1> DEFINE Inv == part = "candidates" => RosterInv /\ WholeInv
<1>1. ImportsInit => Inv
  <2>1. Roster!Init => WholeInv
    <3>1. DOMAIN Roster!NoJob.cache = {} /\ Roster!NoJob.pc = "idle"
      BY DEF Roster!NoJob
    <3>2. Roster!Init => \A j \in Loads : loading[j] = Roster!NoJob
      BY DEF Roster!Init
    <3> QED
      BY <3>1, <3>2 DEF WholeInv, Whole
  <2> QED
    BY <2>1, RosterInit DEF ImportsInit
<1>2. Inv /\ [ImportsNext]_<<part, vars, imported>> => Inv'
  <2> SUFFICES ASSUME Inv, [ImportsNext]_<<part, vars, imported>>, part' = "candidates"
               PROVE  RosterInv' /\ WholeInv'
    OBVIOUS
  <2>1. part = "candidates" /\ [Roster!Next]_roster
    BY DEF ImportsNext, imported
  <2> QED
    BY <2>1, RosterStep, WholeStep
<1>3. Inv => RosterHolds
  BY RosterStands DEF RosterHolds
<1> QED
  BY <1>1, <1>2, <1>3, PTL DEF ImportsSpec

-----------------------------------------------------------------------------
(* Boundaries.                                                             *)
ShapeFields  == {"ident", "county", "data", "full"}
SurveyFields == {"pc", "file", "county", "at", "target", "adopt", "touched", "new"}
Drawing(i) == survey[i].pc \in {"look", "write"}
ShapeTypes ==
  /\ DOMAIN survey = Surveys /\ DOMAIN drawn = Surveys
  /\ last \in Surveys \cup {Nil}
  /\ \A n \in DOMAIN shape : n \in Nat /\ DOMAIN shape[n] = ShapeFields
  /\ \A i \in Surveys :
       /\ DOMAIN survey[i] = SurveyFields
       /\ \A n \in DOMAIN drawn[i] : n \in Nat /\ DOMAIN drawn[i][n] = ShapeFields
       /\ survey[i].pc \in {"none", "look", "write", "describe", "store", "done", "failed"}
       /\ survey[i].at \in Nat \ {0}
       /\ survey[i].pc # "none" => survey[i].file \in ShapeFiles
       /\ survey[i].pc = "write" =>
            /\ survey[i].at \in DOMAIN survey[i].file
            /\ survey[i].target \in {Nil} \cup DOMAIN Shapes!View(i)
       /\ ~Drawing(i) => DOMAIN drawn[i] = {}
       /\ i = last => survey[i].pc # "none" /\ ~Drawing(i)

(* The unique constraint, in the table, in what each transaction sees, and *)
(* between the rows that two of them have written.                         *)
Unlike(T) == \A m, n \in DOMAIN T : m # n => ~Shapes!SameKey(T[m], T[n])
Apart(i, j) ==
  \A m \in DOMAIN drawn[i] :
    /\ m \notin DOMAIN drawn[j]
    /\ \A n \in DOMAIN drawn[j] : ~Shapes!SameKey(drawn[i][m], drawn[j][n])
Constrained ==
  /\ Unlike(shape)
  /\ \A i \in Surveys : Unlike(Shapes!View(i))
  /\ \A i, j \in Surveys : i # j => Apart(i, j)

(* A row that an import has written has what the record said.              *)
FromRecord(s, n, row) ==
  /\ s.touched[n] \in DOMAIN s.file
  /\ row.data = s.file[s.touched[n]].data /\ row.full = s.file[s.touched[n]].full
WritesTold ==
  \A i \in Surveys : Drawing(i) =>
    /\ DOMAIN survey[i].touched = DOMAIN drawn[i]
    /\ \A n \in DOMAIN drawn[i] : FromRecord(survey[i], n, drawn[i][n])

(* Alone: the one import that runs finds what it looked for, and sees each *)
(* boundary once.                                                          *)
Once(T) == \A m, n \in DOMAIN T : T[m].ident = T[n].ident /\ T[m].county = T[n].county => m = n
Looked(i) ==
  LET k == survey[i].at
      n == survey[i].target
  IN  IF n = Nil THEN Shapes!SameCounty(i, Shapes!CountyOf(i)) = {}
      ELSE /\ Shapes!View(i)[n].ident = survey[i].file[k].ident
           /\ IF survey[i].adopt
              THEN /\ Shapes!View(i)[n].county = Nil
                   /\ Shapes!SameCounty(i, Shapes!CountyOf(i)) = {}
              ELSE Shapes!View(i)[n].county = Shapes!CountyOf(i)
OneRuns == \A i, j \in Surveys : Shapes!Running(i) /\ Shapes!Running(j) => i = j
OneByOne ==
  ~overlapped =>
    /\ OneRuns /\ Once(shape)
    /\ \A i \in Surveys : Drawing(i) =>
         /\ Once(Shapes!View(i))
         /\ survey[i].pc = "write" => Looked(i)
         /\ \A k \in DOMAIN survey[i].file :
              k < survey[i].at => Shapes!Placed(Shapes!View(i), survey[i], k)

(* Alone: the metadata is behind only where a run has still to write it.   *)
Behind(n) == shape[n].full /\ ~(n \in DOMAIN meta /\ meta[n] = shape[n].data)
Describing(i) == survey[i].pc \in {"describe", "store"}
MetaFollows ==
  ~overlapped =>
    /\ \A n \in DOMAIN shape : Behind(n) =>
         \E i \in Surveys : Describing(i) /\ n \in DOMAIN survey[i].touched
    /\ \A i \in Surveys : Describing(i) =>
         /\ \A n \in DOMAIN survey[i].touched : n \in DOMAIN shape /\ FromRecord(survey[i], n, shape[n])
         /\ survey[i].pc = "store" => survey[i].new \cap DOMAIN meta = {}

ShapesInv == ShapeTypes /\ Constrained /\ WritesTold /\ OneByOne /\ Shapes!FileIsThere /\ MetaFollows

(* What a transaction sees: its own writes over the table.                  *)
LEMMA ViewIs ==
  ASSUME NEW i \in Surveys
  PROVE  /\ DOMAIN Shapes!View(i) = DOMAIN drawn[i] \cup DOMAIN shape
         /\ \A n \in DOMAIN drawn[i] : Shapes!View(i)[n] = drawn[i][n]
         /\ \A n \in DOMAIN shape : n \notin DOMAIN drawn[i] => Shapes!View(i)[n] = shape[n]
  BY DEF Shapes!View, Shapes!Over

(* What a transaction sees changes with what it writes and with the table. *)
LEMMA ViewStays ==
  ASSUME NEW i \in Surveys, shape' = shape, drawn'[i] = drawn[i]
  PROVE  Shapes!View(i)' = Shapes!View(i)
  BY DEF Shapes!View, Shapes!Over

(* A file is a sequence of records.                                        *)
LEMMA FileIs ==
  ASSUME NEW f \in ShapeFiles
  PROVE  Len(f) \in Nat /\ DOMAIN f = 1 .. Len(f)
<1>1. f \in Seq({f[k] : k \in DOMAIN f})
  BY ImportsAssumption DEF Shapes!BoundaryAssumption
<1> QED
  BY <1>1, LenProperties

(* Where a record is depends on its file and the given county alone.       *)
LEMMA PlacedAs ==
  ASSUME NEW s, NEW t, s.file = t.file, s.county = t.county, NEW T, NEW k, Shapes!Placed(T, s, k)
  PROVE  Shapes!Placed(T, t, k)
  BY DEF Shapes!Placed, Shapes!CountyFor

(* Empty has no rows.                                                       *)
LEMMA EmptyIs == DOMAIN Shapes!Empty = {}
  BY DEF Shapes!Empty

(* Nil is neither an import nor a row.                                      *)
LEMMA NilIs == Nil \notin Surveys /\ Nil \notin Nat
  BY ImportsAssumption DEF Shapes!BoundaryAssumption

(* What a transaction sees are rows.                                        *)
LEMMA ViewTypes ==
  ASSUME ShapeTypes, NEW i \in Surveys, NEW n \in DOMAIN Shapes!View(i)
  PROVE  n \in Nat /\ DOMAIN Shapes!View(i)[n] = ShapeFields
<1>1. CASE n \in DOMAIN drawn[i]
  <2>1. Shapes!View(i)[n] = drawn[i][n]
    BY <1>1, ViewIs
  <2> QED
    BY <1>1, <2>1 DEF ShapeTypes
<1>2. CASE n \notin DOMAIN drawn[i]
  <2>1. n \in DOMAIN shape /\ Shapes!View(i)[n] = shape[n]
    BY <1>2, ViewIs
  <2> QED
    BY <2>1 DEF ShapeTypes
<1> QED
  BY <1>1, <1>2

(* What an import has looked for stays while what it sees does.            *)
LEMMA LookedStays ==
  ASSUME NEW i \in Surveys, survey'[i] = survey[i], Shapes!View(i)' = Shapes!View(i), Looked(i)
  PROVE  Looked(i)'
  BY DEF Looked, Shapes!SameCounty, Shapes!CountyOf, Shapes!Record

(* An import begins, and overlaps with those that run.                     *)
LEMMA SurveyBegins ==
  ASSUME ShapesInv, NEW i \in Surveys, Shapes!Begin(i)
  PROVE  ShapesInv'
<1> USE DEF ShapesInv
<1>1. PICK f \in ShapeFiles, c \in CountyOptions :
        survey' = [survey EXCEPT ![i] = [Shapes!NoImport EXCEPT !.pc = "look", !.file = f,
                                                                !.county = c]]
  BY DEF Shapes!Begin
<1>2. /\ survey[i].pc = "none" /\ DOMAIN survey = Surveys /\ DOMAIN survey' = Surveys
      /\ shape' = shape /\ meta' = meta /\ drawn' = drawn /\ last' = last
      /\ overlapped' = (overlapped \/ \E j \in Surveys \ {i} : Shapes!Running(j))
      /\ DOMAIN drawn[i] = {} /\ last # i
  BY <1>1 DEF Shapes!Begin, ShapeTypes, Drawing
<1>3. /\ DOMAIN survey'[i] = SurveyFields
      /\ survey'[i].pc = "look" /\ survey'[i].file = f /\ survey'[i].county = c
      /\ survey'[i].at = 1 /\ DOMAIN survey'[i].touched = {}
      /\ \A j \in Surveys \ {i} : survey'[j] = survey[j]
  <2>1. DOMAIN Shapes!Empty = {}
    BY DEF Shapes!Empty
  <2> QED
    BY <1>1, <1>2, <2>1 DEF Shapes!NoImport, SurveyFields
<1>4. \A j \in Surveys : Shapes!View(j)' = Shapes!View(j)
  BY <1>2, ViewStays
<1>5. ShapeTypes'
  BY <1>2, <1>3, <1>4 DEF ShapeTypes, Drawing
<1>6. Constrained'
  BY <1>2, <1>4 DEF Constrained, Unlike, Apart
<1>7. WritesTold'
  BY <1>2, <1>3, Zenon DEF WritesTold, Drawing
<1>8. OneByOne'
  <2> SUFFICES ASSUME ~overlapped' PROVE OneByOne'
    BY DEF OneByOne
  <2>1. ~overlapped /\ \A j \in Surveys \ {i} : ~Shapes!Running(j)
    BY <1>2
  <2>2. \A j \in Surveys \ {i} : ~Shapes!Running(j)' /\ ~Drawing(j)'
    BY <2>1, <1>3 DEF Shapes!Running, Drawing
  <2>3. Once(shape)
    BY <2>1 DEF OneByOne
  <2>4. Once(Shapes!View(i))
    BY <2>3, <1>2, ViewIs DEF Once
  <2> QED
    BY <2>2, <2>3, <2>4, <1>2, <1>3, <1>4, FileIs DEF OneByOne, OneRuns, Once
<1>9. Shapes!FileIsThere'
  <2>1. overlapped => overlapped'
    BY <1>2
  <2>2. last # Nil => survey'[last] = survey[last]
    BY <1>2, <1>3 DEF ShapeTypes
  <2> QED
    BY <2>1, <2>2, <1>2 DEF Shapes!FileIsThere
<1>10. MetaFollows'
  <2>1. overlapped => overlapped'
    BY <1>2
  <2>2. /\ \A n : Behind(n)' = Behind(n)
        /\ \A j \in Surveys : Describing(j)' = Describing(j) /\ (Describing(j) => survey'[j] = survey[j])
    BY <1>2, <1>3 DEF Behind, Describing
  <2> QED
    BY <2>1, <2>2, <1>2 DEF MetaFollows
<1> QED
  BY <1>5, <1>6, <1>7, <1>8, <1>9, <1>10

(* The parts of a survey that stay while its place in the code moves.      *)
Kin(s, t) == DOMAIN t = SurveyFields /\ s.file = t.file /\ s.county = t.county /\ s.touched = t.touched

(* An import ends early: nothing of its transaction is left.               *)
LEMMA SurveyEnds ==
  ASSUME ShapesInv, NEW i \in Surveys, Shapes!Running(i),
         DOMAIN survey' = Surveys, \A j \in Surveys \ {i} : survey'[j] = survey[j],
         Kin(survey[i], survey'[i]), survey'[i].at = survey[i].at, survey'[i].pc = "failed",
         DOMAIN drawn' = Surveys, DOMAIN drawn'[i] = {},
         \A j \in Surveys \ {i} : drawn'[j] = drawn[j],
         shape' = shape, meta' = meta, last' = last,
         overlapped \/ Describing(i) => overlapped'
  PROVE  ShapesInv'
<1> USE DEF ShapesInv
<1>1. /\ DOMAIN drawn' = Surveys /\ DOMAIN drawn'[i] = {}
      /\ \A j \in Surveys \ {i} : drawn'[j] = drawn[j] /\ Shapes!View(j)' = Shapes!View(j)
      /\ survey[i].pc # "none"
  BY ViewStays DEF Shapes!Running
<1>2. /\ DOMAIN Shapes!View(i)' = DOMAIN shape
      /\ \A n \in DOMAIN shape : Shapes!View(i)'[n] = shape[n]
  BY <1>1, ViewIs DEF Shapes!View, Shapes!Over
<1>3. ShapeTypes'
  BY <1>1 DEF ShapeTypes, Drawing, Kin
<1>4. Constrained'
  <2>1. Unlike(shape)' /\ Unlike(Shapes!View(i))'
    BY <1>2 DEF Constrained, Unlike
  <2>2. \A j \in Surveys \ {i} : Unlike(Shapes!View(j))'
    BY <1>1 DEF Constrained, Unlike
  <2>3. \A j, k \in Surveys : j # k => Apart(j, k)'
    BY <1>1 DEF Constrained, Apart
  <2> QED
    BY <2>1, <2>2, <2>3 DEF Constrained
<1>5. WritesTold'
  <2>1. ~Drawing(i)' /\ \A j \in Surveys \ {i} : Drawing(j)' = Drawing(j)
    BY DEF Drawing
  <2> QED
    BY <2>1, <1>1, Zenon DEF WritesTold
<1>6. OneByOne'
  <2>1. ~Drawing(i)' /\ ~Shapes!Running(i)'
    BY DEF Drawing, Shapes!Running
  <2>2. \A j \in Surveys \ {i} : Drawing(j)' = Drawing(j) /\ Shapes!Running(j)' = Shapes!Running(j)
    BY DEF Drawing, Shapes!Running
  <2>3. \A j \in Surveys \ {i} : Looked(j) => Looked(j)'
    BY <1>1, LookedStays
  <2> QED
    BY <2>1, <2>2, <2>3, <1>1 DEF OneByOne, OneRuns, Once
<1>7. Shapes!FileIsThere'
  <2>1. CASE last = i
    BY <2>1, PlacedAs DEF Shapes!FileIsThere, Kin
  <2>2. CASE last # i
    <3>1. last # Nil => survey'[last] = survey[last]
      BY <2>2 DEF ShapeTypes
    <3> QED
      BY <3>1 DEF Shapes!FileIsThere
  <2> QED
    BY <2>1, <2>2
<1>8. MetaFollows'
  <2> SUFFICES ASSUME ~overlapped' PROVE MetaFollows'
    BY DEF MetaFollows
  <2>1. ~Describing(i) /\ ~Describing(i)' /\ ~overlapped
    BY DEF Describing
  <2>2. /\ \A n : Behind(n)' = Behind(n)
        /\ \A j \in Surveys \ {i} : Describing(j)' = Describing(j)
    BY DEF Behind, Describing
  <2> QED
    BY <2>1, <2>2 DEF MetaFollows
<1> QED
  BY <1>3, <1>4, <1>5, <1>6, <1>7, <1>8

(* The database, a deadlock or the operator ends an import.                 *)
LEMMA SurveyFails ==
  ASSUME ShapesInv, NEW i \in Surveys, Shapes!Fail(i)
  PROVE  ShapesInv'
<1>1. DOMAIN survey = Surveys /\ DOMAIN survey[i] = SurveyFields
  BY DEF ShapesInv, ShapeTypes
<1>2. survey' = [survey EXCEPT ![i].pc = "failed"]
  BY DEF Shapes!Fail
<1>3. /\ DOMAIN survey' = Surveys /\ \A j \in Surveys \ {i} : survey'[j] = survey[j]
      /\ Kin(survey[i], survey'[i]) /\ survey'[i].at = survey[i].at /\ survey'[i].pc = "failed"
  BY <1>1, <1>2 DEF Kin, SurveyFields
<1>4. /\ DOMAIN drawn' = Surveys /\ DOMAIN drawn'[i] = {}
      /\ \A j \in Surveys \ {i} : drawn'[j] = drawn[j]
  BY EmptyIs DEF Shapes!Fail, ShapesInv, ShapeTypes
<1> QED
  BY <1>3, <1>4, SurveyEnds DEF Shapes!Fail, Describing

(* After its boundaries are committed, an import's place moves.            *)
LEMMA SurveyMoves ==
  ASSUME ShapesInv, NEW i \in Surveys, Describing(i),
         DOMAIN survey' = Surveys, \A j \in Surveys \ {i} : survey'[j] = survey[j],
         Kin(survey[i], survey'[i]), survey'[i].at = survey[i].at,
         survey'[i].pc \in {"store", "done"},
         drawn' = drawn, shape' = shape, last' = last, overlapped' = overlapped, MetaFollows'
  PROVE  ShapesInv'
<1> USE DEF ShapesInv
<1>1. \A j \in Surveys : Shapes!View(j)' = Shapes!View(j)
  BY ViewStays
<1>2. ShapeTypes'
  BY <1>1 DEF ShapeTypes, Drawing, Kin, Describing
<1>3. Constrained'
  BY <1>1 DEF Constrained, Unlike, Apart
<1>4. ~Drawing(i)' /\ ~Drawing(i) /\ \A j \in Surveys \ {i} : Drawing(j)' = Drawing(j)
  BY DEF Drawing, Describing
<1>5. WritesTold'
  BY <1>4, Zenon DEF WritesTold
<1>6. OneByOne'
  <2>1. /\ Shapes!Running(i)
        /\ \A j \in Surveys \ {i} : Shapes!Running(j)' = Shapes!Running(j)
    BY DEF Shapes!Running, Describing
  <2>2. \A j \in Surveys \ {i} : Looked(j) => Looked(j)'
    BY <1>1, LookedStays
  <2> QED
    BY <2>1, <2>2, <1>1, <1>4 DEF OneByOne, OneRuns, Once
<1>7. Shapes!FileIsThere'
  <2>1. CASE last = i
    BY <2>1, PlacedAs DEF Shapes!FileIsThere, Kin
  <2>2. CASE last # i
    <3>1. last # Nil => survey'[last] = survey[last]
      BY <2>2 DEF ShapeTypes
    <3> QED
      BY <3>1 DEF Shapes!FileIsThere
  <2> QED
    BY <2>1, <2>2
<1> QED
  BY <1>2, <1>3, <1>5, <1>6, <1>7

(* An import reads which of its precincts have metadata.                    *)
LEMMA SurveyDescribes ==
  ASSUME ShapesInv, NEW i \in Surveys, Shapes!Describe(i)
  PROVE  ShapesInv'
<1>1. DOMAIN survey = Surveys /\ DOMAIN survey[i] = SurveyFields
  BY DEF ShapesInv, ShapeTypes
<1>2. /\ survey' = [survey EXCEPT ![i].pc = "store", ![i].new = Shapes!Described(i) \ DOMAIN meta]
      /\ survey[i].pc = "describe" /\ shape' = shape /\ meta' = meta /\ drawn' = drawn
      /\ last' = last /\ overlapped' = overlapped
  BY DEF Shapes!Describe
<1>3. /\ DOMAIN survey' = Surveys /\ \A j \in Surveys \ {i} : survey'[j] = survey[j]
      /\ Kin(survey[i], survey'[i]) /\ survey'[i].at = survey[i].at /\ survey'[i].pc = "store"
      /\ survey'[i].new = Shapes!Described(i) \ DOMAIN meta
  BY <1>1, <1>2 DEF Kin, SurveyFields
<1>4. Describing(i) /\ \A j \in Surveys : Describing(j)' = Describing(j)
  BY <1>2, <1>3 DEF Describing
<1>5. MetaFollows'
  <2>1. \A n : Behind(n)' = Behind(n)
    BY <1>2 DEF Behind
  <2>2. \A n \in DOMAIN survey[i].touched :
          FromRecord(survey[i], n, shape[n]) => FromRecord(survey'[i], n, shape[n])
    BY <1>3 DEF FromRecord, Kin
  <2> QED
    BY <2>1, <2>2, <1>2, <1>3, <1>4 DEF MetaFollows, ShapesInv, Kin
<1> QED
  BY <1>2, <1>3, <1>4, <1>5, SurveyMoves

(* The metadata is stored; fails if another import described the rows.     *)
LEMMA SurveyStores ==
  ASSUME ShapesInv, NEW i \in Surveys, Shapes!Store(i)
  PROVE  ShapesInv'
<1>1. /\ DOMAIN survey = Surveys /\ DOMAIN survey[i] = SurveyFields /\ survey[i].pc = "store"
      /\ shape' = shape /\ drawn' = drawn /\ last' = last
      /\ Describing(i) /\ Shapes!Running(i)
  BY DEF ShapesInv, ShapeTypes, Shapes!Store, Describing, Shapes!Running
<1>2. CASE survey[i].new \cap DOMAIN meta = {}
  <2>1. /\ survey' = [survey EXCEPT ![i].pc = "done"] /\ overlapped' = overlapped
        /\ meta' = Shapes!Over([n \in Shapes!Described(i) |-> Shapes!Properties(i, n).data], meta)
    BY <1>2 DEF Shapes!Store
  <2>2. /\ DOMAIN survey' = Surveys /\ \A j \in Surveys \ {i} : survey'[j] = survey[j]
        /\ Kin(survey[i], survey'[i]) /\ survey'[i].at = survey[i].at /\ survey'[i].pc = "done"
    BY <1>1, <2>1 DEF Kin, SurveyFields
  <2>3. \A n \in Shapes!Described(i) :
          n \in DOMAIN meta' /\ meta'[n] = Shapes!Properties(i, n).data
    BY <2>1 DEF Shapes!Over
  <2>4. MetaFollows'
    <3> SUFFICES ASSUME ~overlapped' PROVE MetaFollows'
      BY DEF MetaFollows
    <3>1. OneRuns /\ ~overlapped
      BY <2>1 DEF ShapesInv, OneByOne
    <3>2. \A j \in Surveys : ~Describing(j)' /\ (Describing(j) => j = i)
      <4>1. \A j \in Surveys : Describing(j) => Shapes!Running(j)
        BY DEF Describing, Shapes!Running
      <4> QED
        BY <4>1, <3>1, <1>1, <2>2 DEF OneRuns, Describing
    <3>3. ASSUME NEW n \in DOMAIN shape PROVE ~Behind(n)'
      <4>1. CASE n \in DOMAIN survey[i].touched
        <5>1. FromRecord(survey[i], n, shape[n])
          BY <4>1, <3>1, <1>1 DEF ShapesInv, MetaFollows
        <5> QED
          BY <5>1, <4>1, <2>3, <1>1 DEF FromRecord, Behind, Shapes!Described, Shapes!Properties
      <4>2. CASE n \notin DOMAIN survey[i].touched
        <5>1. ~Behind(n)
          BY <4>2, <3>1, <3>2 DEF ShapesInv, MetaFollows
        <5>2. n \notin Shapes!Described(i)
          BY <4>2 DEF Shapes!Described
        <5>3. shape[n].full => n \in DOMAIN meta' /\ meta'[n] = shape[n].data
          <6>1. shape[n].full => n \in DOMAIN meta /\ meta[n] = shape[n].data
            BY <5>1 DEF Behind
          <6>2. n \in DOMAIN meta => n \in DOMAIN meta' /\ meta'[n] = meta[n]
            BY <5>2, <2>1 DEF Shapes!Over
          <6> QED
            BY <6>1, <6>2
        <5> QED
          BY <5>3, <1>1 DEF Behind
      <4> QED
        BY <4>1, <4>2
    <3> QED
      BY <3>2, <3>3, <1>1 DEF MetaFollows
  <2> QED
    BY <1>1, <2>1, <2>2, <2>4, SurveyMoves
<1>3. CASE survey[i].new \cap DOMAIN meta # {}
  <2>1. survey' = [survey EXCEPT ![i].pc = "failed"] /\ overlapped' = TRUE /\ meta' = meta
    BY <1>3 DEF Shapes!Store
  <2>2. /\ DOMAIN survey' = Surveys /\ \A j \in Surveys \ {i} : survey'[j] = survey[j]
        /\ Kin(survey[i], survey'[i]) /\ survey'[i].at = survey[i].at /\ survey'[i].pc = "failed"
    BY <1>1, <2>1 DEF Kin, SurveyFields
  <2>3. DOMAIN drawn[i] = {} /\ DOMAIN drawn = Surveys
    BY <1>1 DEF ShapesInv, ShapeTypes, Drawing
  <2> QED
    BY <1>1, <2>1, <2>2, <2>3, SurveyEnds
<1> QED
  BY <1>2, <1>3

(* The query: what it finds is what the import will write over.            *)
LEMMA SurveyLooks ==
  ASSUME ShapesInv, NEW i \in Surveys, Shapes!Look(i)
  PROVE  ShapesInv'
<1> DEFINE c     == Shapes!CountyOf(i)
           exact == Shapes!SameCounty(i, c)
           old   == IF exact = {} /\ c # Nil THEN Shapes!SameCounty(i, Nil) ELSE {}
           found == exact \cup old
           goal  == IF found = {} THEN Nil ELSE CHOOSE n \in found : TRUE
<1>1. /\ DOMAIN survey = Surveys /\ DOMAIN drawn = Surveys /\ DOMAIN survey[i] = SurveyFields
      /\ survey[i].pc = "look" /\ survey[i].at =< Len(survey[i].file)
      /\ shape' = shape /\ meta' = meta /\ last' = last /\ overlapped' = overlapped
      /\ Drawing(i) /\ Shapes!Running(i) /\ ~Describing(i)
  BY DEF ShapesInv, ShapeTypes, Shapes!Look, Drawing, Shapes!Running, Describing
<1>2. /\ \E to \in {"failed", "write"} :
           survey' = [survey EXCEPT ![i].pc = to, ![i].target = goal, ![i].adopt = old # {}]
      /\ drawn' = [drawn EXCEPT ![i] = IF survey'[i].pc = "failed" THEN Shapes!Empty ELSE @]
  BY DEF Shapes!Look
<1>3. /\ exact \subseteq DOMAIN Shapes!View(i) /\ old \subseteq DOMAIN Shapes!View(i)
      /\ goal = Nil \/ goal \in found
      /\ \A n \in exact : /\ Shapes!View(i)[n].ident = Shapes!Record(i).ident
                          /\ Shapes!View(i)[n].county = c
      /\ \A n \in old : /\ Shapes!View(i)[n].ident = Shapes!Record(i).ident
                        /\ Shapes!View(i)[n].county = Nil
      /\ found # {} => goal \in found
      /\ old # {} => exact = {}
  BY DEF Shapes!SameCounty
<1> HIDE DEF c, exact, old, found, goal
<1>4. /\ DOMAIN survey' = Surveys /\ \A j \in Surveys \ {i} : survey'[j] = survey[j]
      /\ Kin(survey[i], survey'[i]) /\ survey'[i].at = survey[i].at
      /\ survey'[i].pc \in {"write", "failed"} /\ survey'[i].target = goal
      /\ survey'[i].adopt = (old # {})
  BY <1>1, <1>2 DEF Kin, SurveyFields
<1>5. CASE survey'[i].pc = "failed"
  <2>1. /\ DOMAIN drawn' = Surveys /\ DOMAIN drawn'[i] = {}
        /\ \A j \in Surveys \ {i} : drawn'[j] = drawn[j]
    BY <1>1, <1>2, <1>5, EmptyIs
  <2> QED
    BY <1>1, <1>4, <1>5, <2>1, SurveyEnds
<1>6. CASE survey'[i].pc = "write"
  <2> USE DEF ShapesInv
  <2>1. \A j \in Surveys : drawn'[j] = drawn[j] /\ Shapes!View(j)' = Shapes!View(j)
    BY <1>1, <1>2, <1>6, ViewStays
  <2>2. survey[i].at \in DOMAIN survey[i].file
    <3>1. survey[i].file \in ShapeFiles /\ survey[i].at \in Nat \ {0}
      BY <1>1 DEF ShapeTypes
    <3> QED
      BY <3>1, <1>1, FileIs
  <2>3. ShapeTypes'
    <3>1. goal \in {Nil} \cup DOMAIN Shapes!View(i)
      BY <1>3 DEF found
    <3>2. DOMAIN drawn' = Surveys /\ last # i
      BY <1>1, <1>2 DEF ShapeTypes
    <3> QED
      BY <3>1, <3>2, <2>1, <2>2, <1>1, <1>4, <1>6 DEF ShapeTypes, Drawing, Kin
  <2>4. Constrained'
    BY <2>1, <1>1 DEF Constrained, Unlike, Apart
  <2>5. \A j \in Surveys : /\ Drawing(j)' = Drawing(j) /\ Shapes!Running(j)' = Shapes!Running(j)
                           /\ Describing(j)' = Describing(j)
    BY <1>1, <1>4, <1>6 DEF Drawing, Shapes!Running, Describing
  <2>6. WritesTold'
    <3>1. \A n : FromRecord(survey[i], n, drawn[i][n]) => FromRecord(survey'[i], n, drawn[i][n])
      BY <1>4 DEF FromRecord, Kin
    <3> QED
      BY <3>1, <2>1, <2>5, <1>4 DEF WritesTold, Kin
  <2>7. OneByOne'
    <3> SUFFICES ASSUME ~overlapped PROVE OneByOne'
      BY <1>1 DEF OneByOne
    <3>1. OneRuns' /\ OneRuns /\ Once(shape)'
      BY <1>1, <2>5 DEF OneByOne, OneRuns, Once
    <3>2. \A j \in Surveys : Drawing(j)' => j = i
      BY <3>1, <1>1, <2>5 DEF OneRuns, Drawing, Shapes!Running
    <3>3. Once(Shapes!View(i))'
      BY <1>1, <2>1 DEF OneByOne, Once
    <3>4. Looked(i)'
      <4>1. /\ Shapes!Record(i) = survey[i].file[survey[i].at] /\ Shapes!Record(i)' = Shapes!Record(i)
            /\ Shapes!CountyOf(i)' = c
        BY <1>4 DEF Shapes!Record, Shapes!CountyOf, Shapes!CountyFor, c, Kin
      <4>2. Shapes!SameCounty(i, Shapes!CountyOf(i))' = exact
        BY <4>1, <2>1 DEF Shapes!SameCounty, exact
      <4>3. goal # Nil => goal \in found
        BY <1>3
      <4>4. goal = Nil => exact = {}
        <5>1. \A n \in found : n \in Nat
          BY <1>3, ViewIs DEF ShapeTypes, found
        <5> QED
          BY <5>1, <1>3, NilIs DEF found
      <4>5. CASE goal = Nil
        BY <4>1, <4>2, <4>4, <4>5, <1>4 DEF Looked
      <4>6. CASE goal # Nil /\ old # {}
        <5>1. goal \in old /\ exact = {}
          BY <4>3, <4>6, <1>3 DEF found
        <5>2. /\ survey'[i].target = goal /\ survey'[i].adopt /\ goal # Nil
              /\ Shapes!View(i)'[goal].ident = survey'[i].file[survey'[i].at].ident
              /\ Shapes!View(i)'[goal].county = Nil
          BY <4>1, <4>6, <5>1, <2>1, <1>3, <1>4 DEF Kin
        <5>3. Shapes!SameCounty(i, Shapes!CountyOf(i))' = {}
          BY <5>1, <4>2
        <5> QED
          BY <5>2, <5>3 DEF Looked
      <4>7. CASE goal # Nil /\ old = {}
        <5>1. goal \in exact
          BY <4>3, <4>7 DEF found
        <5> QED
          BY <4>1, <4>2, <4>7, <5>1, <2>1, <1>3, <1>4 DEF Looked, Kin
      <4> QED
        BY <4>5, <4>6, <4>7
    <3>5. ASSUME NEW k \in DOMAIN survey'[i].file, k < survey'[i].at
          PROVE  Shapes!Placed(Shapes!View(i), survey'[i], k)
      <4>1. Shapes!Placed(Shapes!View(i), survey[i], k)
        BY <3>5, <1>1, <1>4 DEF OneByOne, Kin
      <4> QED
        BY <4>1, <1>4, PlacedAs DEF Kin
    <3> QED
      BY <3>1, <3>2, <3>3, <3>4, <3>5, <2>1 DEF OneByOne
  <2>8. Shapes!FileIsThere'
    <3>1. last # Nil => survey'[last] = survey[last]
      BY <1>1, <1>4 DEF ShapeTypes
    <3> QED
      BY <3>1, <1>1 DEF Shapes!FileIsThere
  <2>9. MetaFollows'
    <3>1. /\ \A n : Behind(n)' = Behind(n)
          /\ \A j \in Surveys : Describing(j) => survey'[j] = survey[j]
      BY <1>1, <1>4 DEF Behind
    <3> QED
      BY <3>1, <2>5, <1>1 DEF MetaFollows
  <2> QED
    BY <2>3, <2>4, <2>6, <2>7, <2>8, <2>9
<1> QED
  BY <1>4, <1>5, <1>6

(* The flush of a record, where the constraint lets it.                    *)
LEMMA SurveyWrites ==
  ASSUME ShapesInv, NEW i \in Surveys, Shapes!Write(i)
  PROVE  ShapesInv'
<1>1. /\ DOMAIN survey = Surveys /\ DOMAIN drawn = Surveys /\ DOMAIN survey[i] = SurveyFields
      /\ survey[i].pc = "write" /\ last # i
      /\ shape' = shape /\ meta' = meta /\ last' = last /\ overlapped' = overlapped
      /\ Drawing(i) /\ Shapes!Running(i) /\ ~Describing(i)
      /\ survey[i].at \in DOMAIN survey[i].file /\ survey[i].at \in Nat
      /\ survey[i].target \in {Nil} \cup DOMAIN Shapes!View(i)
  BY DEF ShapesInv, ShapeTypes, Shapes!Write, Drawing, Shapes!Running, Describing
<1>2. PICK n : /\ n \in IF survey[i].target = Nil THEN Shapes!Numbers \ Shapes!Taken
                        ELSE {survey[i].target}
               /\ ~Shapes!MustWait(i, n, Shapes!Written(i, n))
               /\ IF Shapes!Stands(i, n, Shapes!Written(i, n))
                  THEN /\ survey' = [survey EXCEPT ![i].pc = "failed"]
                       /\ drawn' = [drawn EXCEPT ![i] = Shapes!Empty]
                  ELSE /\ survey' = [survey EXCEPT
                            ![i].pc = "look", ![i].at = @ + 1,
                            ![i].touched = Shapes!Over([m \in {n} |-> survey[i].at], @)]
                       /\ drawn' = [drawn EXCEPT
                            ![i] = Shapes!Over([m \in {n} |-> Shapes!Written(i, n)], @)]
  BY DEF Shapes!Write
<1> DEFINE w == Shapes!Written(i, n)
<1>3. CASE Shapes!Stands(i, n, w)
  <2>1. /\ DOMAIN survey' = Surveys /\ \A j \in Surveys \ {i} : survey'[j] = survey[j]
        /\ Kin(survey[i], survey'[i]) /\ survey'[i].at = survey[i].at /\ survey'[i].pc = "failed"
    BY <1>1, <1>2, <1>3 DEF Kin, SurveyFields
  <2>2. /\ DOMAIN drawn' = Surveys /\ DOMAIN drawn'[i] = {}
        /\ \A j \in Surveys \ {i} : drawn'[j] = drawn[j]
    BY <1>1, <1>2, <1>3, EmptyIs
  <2> QED
    BY <1>1, <2>1, <2>2, SurveyEnds
<1>4. CASE ~Shapes!Stands(i, n, w)
  <2> USE DEF ShapesInv
  <2>1. /\ DOMAIN survey' = Surveys /\ \A j \in Surveys \ {i} : survey'[j] = survey[j]
        /\ DOMAIN survey'[i] = SurveyFields /\ survey'[i].file = survey[i].file
        /\ survey'[i].county = survey[i].county
        /\ survey'[i].pc = "look" /\ survey'[i].at = survey[i].at + 1
        /\ survey'[i].touched = Shapes!Over([m \in {n} |-> survey[i].at], survey[i].touched)
    BY <1>1, <1>2, <1>4 DEF SurveyFields
  <2>2. /\ DOMAIN drawn' = Surveys /\ \A j \in Surveys \ {i} : drawn'[j] = drawn[j]
        /\ drawn'[i] = Shapes!Over([m \in {n} |-> w], drawn[i])
    BY <1>1, <1>2, <1>4
  <2>3. /\ DOMAIN drawn'[i] = DOMAIN drawn[i] \cup {n} /\ drawn'[i][n] = w
        /\ \A m \in DOMAIN drawn[i] : m # n => drawn'[i][m] = drawn[i][m]
        /\ DOMAIN survey'[i].touched = DOMAIN survey[i].touched \cup {n}
        /\ survey'[i].touched[n] = survey[i].at
        /\ \A m \in DOMAIN survey[i].touched :
             m # n => survey'[i].touched[m] = survey[i].touched[m]
    BY <2>1, <2>2 DEF Shapes!Over
  <2>4. /\ \A j \in Surveys \ {i} : Shapes!View(j)' = Shapes!View(j)
        /\ DOMAIN Shapes!View(i)' = DOMAIN Shapes!View(i) \cup {n}
        /\ Shapes!View(i)'[n] = w
        /\ \A m \in DOMAIN Shapes!View(i) : m # n => Shapes!View(i)'[m] = Shapes!View(i)[m]
    <3>1. \A j \in Surveys \ {i} : Shapes!View(j)' = Shapes!View(j)
      BY <1>1, <2>2, ViewStays
    <3> QED
      BY <3>1, <1>1, <2>3, ViewIs DEF Shapes!View, Shapes!Over
  <2>5. /\ n \in Nat /\ survey[i].target \in {Nil, n}
        /\ survey[i].target = Nil => n \notin DOMAIN Shapes!View(i)
        /\ survey[i].target # Nil => n \in DOMAIN Shapes!View(i)
    <3>1. CASE survey[i].target = Nil
      <4>1. n \in Shapes!Numbers /\ n \notin Shapes!Taken
        BY <3>1, <1>2
      <4>2. n \in Nat
        BY <4>1, ImportsAssumption DEF Shapes!Numbers, Shapes!BoundaryAssumption
      <4>3. n \notin DOMAIN shape /\ n \notin DOMAIN drawn[i]
        BY <4>1 DEF Shapes!Taken
      <4> QED
        BY <3>1, <4>2, <4>3, ViewIs
    <3>2. CASE survey[i].target # Nil
      <4>1. n = survey[i].target /\ n \in DOMAIN Shapes!View(i)
        BY <3>2, <1>1, <1>2
      <4> QED
        BY <3>2, <4>1, ViewTypes
    <3> QED
      BY <3>1, <3>2
  <2>6. /\ DOMAIN w = ShapeFields
        /\ w.data = survey[i].file[survey[i].at].data
        /\ w.full = survey[i].file[survey[i].at].full
        /\ survey[i].target = Nil => /\ w.ident = survey[i].file[survey[i].at].ident
                                     /\ w.county = Shapes!CountyOf(i)
        /\ survey[i].target # Nil =>
             /\ w.ident = Shapes!View(i)[n].ident
             /\ survey[i].adopt => w.county = Shapes!CountyOf(i)
             /\ ~survey[i].adopt => w.county = Shapes!View(i)[n].county
    <3>1. n \in DOMAIN Shapes!View(i) => DOMAIN Shapes!View(i)[n] = ShapeFields
      BY ViewTypes
    <3>2. CASE survey[i].target = Nil
      BY <3>2 DEF Shapes!Written, Shapes!Record, ShapeFields
    <3>3. CASE survey[i].target # Nil
      BY <3>1, <3>3, <2>5 DEF Shapes!Written, Shapes!Record, ShapeFields
    <3> QED
      BY <3>2, <3>3
  <2> HIDE DEF w
  <2>7. /\ \A m \in DOMAIN Shapes!View(i) : m # n => ~Shapes!SameKey(Shapes!View(i)[m], w)
        /\ \A j \in Surveys \ {i} :
             n \notin DOMAIN drawn[j] /\ \A m \in DOMAIN drawn[j] : ~Shapes!SameKey(drawn[j][m], w)
    BY <1>2, <1>4 DEF Shapes!Stands, Shapes!MustWait, w
  <2>8. \A a, b : Shapes!SameKey(a, b) => Shapes!SameKey(b, a)
    BY DEF Shapes!SameKey
  <2>9. ShapeTypes'
    BY <1>1, <2>1, <2>2, <2>3, <2>4, <2>5, <2>6 DEF ShapeTypes, Drawing
  <2>10. Constrained'
    <3>1. Unlike(shape)' /\ \A j \in Surveys \ {i} : Unlike(Shapes!View(j))'
      BY <1>1, <2>4 DEF Constrained, Unlike
    <3>2. Unlike(Shapes!View(i))'
      BY <2>4, <2>7, <2>8 DEF Constrained, Unlike
    <3>3. ASSUME NEW j \in Surveys, NEW k \in Surveys, j # k PROVE Apart(j, k)'
      <4>1. CASE j = i
        BY <4>1, <3>3, <2>2, <2>3, <2>7, <2>8 DEF Constrained, Apart
      <4>2. CASE k = i
        BY <4>2, <3>3, <2>2, <2>3, <2>7 DEF Constrained, Apart
      <4>3. CASE j # i /\ k # i
        BY <4>3, <3>3, <2>2 DEF Constrained, Apart
      <4> QED
        BY <4>1, <4>2, <4>3
    <3> QED
      BY <3>1, <3>2, <3>3 DEF Constrained
  <2>11. \A j \in Surveys : /\ Drawing(j)' = Drawing(j) /\ Shapes!Running(j)' = Shapes!Running(j)
                            /\ Describing(j)' = Describing(j)
    BY <1>1, <2>1 DEF Drawing, Shapes!Running, Describing
  <2>12. WritesTold'
    <3>1. DOMAIN survey[i].touched = DOMAIN drawn[i]
      BY <1>1 DEF WritesTold
    <3>2. FromRecord(survey'[i], n, w)
      BY <1>1, <2>1, <2>3, <2>6 DEF FromRecord
    <3>3. ASSUME NEW m \in DOMAIN drawn[i], m # n
          PROVE  FromRecord(survey'[i], m, drawn[i][m])
      <4>1. FromRecord(survey[i], m, drawn[i][m])
        BY <1>1 DEF WritesTold
      <4>2. survey'[i].touched[m] = survey[i].touched[m]
        BY <3>1, <3>3, <2>3
      <4> QED
        BY <4>1, <4>2, <2>1 DEF FromRecord
    <3>4. /\ DOMAIN survey'[i].touched = DOMAIN drawn'[i]
          /\ \A m \in DOMAIN drawn'[i] : FromRecord(survey'[i], m, drawn'[i][m])
      BY <3>1, <3>2, <3>3, <2>3
    <3> QED
      BY <3>4, <2>1, <2>2, <2>11, Zenon DEF WritesTold
  <2>13. OneByOne'
    <3> SUFFICES ASSUME ~overlapped PROVE OneByOne'
      BY <1>1 DEF OneByOne
    <3>1. OneRuns' /\ OneRuns /\ Once(shape)'
      BY <1>1, <2>11 DEF OneByOne, OneRuns, Once
    <3>2. \A j \in Surveys : Drawing(j)' => j = i
      BY <3>1, <1>1, <2>11 DEF OneRuns, Drawing, Shapes!Running
    <3>3. Once(Shapes!View(i)) /\ Looked(i)
      BY <1>1 DEF OneByOne
    <3>4. /\ w.ident = survey[i].file[survey[i].at].ident /\ w.county = Shapes!CountyOf(i)
          /\ survey[i].target # Nil /\ survey[i].adopt => Shapes!View(i)[n].county = Nil
      BY <3>3, <2>5, <2>6 DEF Looked
    <3>5. \A m \in DOMAIN Shapes!View(i) :
            m # n => ~(Shapes!View(i)[m].ident = w.ident /\ Shapes!View(i)[m].county = w.county)
      <4>1. CASE Shapes!SameCounty(i, Shapes!CountyOf(i)) = {}
        BY <4>1, <3>4 DEF Shapes!SameCounty, Shapes!Record
      <4>2. CASE Shapes!SameCounty(i, Shapes!CountyOf(i)) # {}
        <5>1. n \in DOMAIN Shapes!View(i) /\ w.ident = Shapes!View(i)[n].ident
              /\ w.county = Shapes!View(i)[n].county
          BY <4>2, <3>3, <2>5, <2>6 DEF Looked
        <5> QED
          BY <5>1, <3>3 DEF Once
      <4> QED
        BY <4>1, <4>2
    <3>6. Once(Shapes!View(i))'
      BY <3>3, <3>5, <2>4 DEF Once
    <3>7. ASSUME NEW k \in DOMAIN survey[i].file, k < survey[i].at + 1
          PROVE  Shapes!Placed(Shapes!View(i)', survey[i], k)
      <4>1. Shapes!CountyOf(i) = Shapes!CountyFor(survey[i], survey[i].at)
        BY DEF Shapes!CountyOf
      <4>2. survey[i].file \in ShapeFiles
        BY <1>1 DEF ShapeTypes
      <4>3. k \in Nat
        BY <4>2, FileIs
      <4>4. CASE k = survey[i].at
        BY <4>1, <4>3, <4>4, <3>4, <2>4 DEF Shapes!Placed
      <4>5. CASE k # survey[i].at
        <5>1. Shapes!Placed(Shapes!View(i), survey[i], k)
          BY <4>3, <4>5, <3>7, <1>1 DEF OneByOne
        <5>2. PICK m \in DOMAIN survey[i].file, x \in DOMAIN Shapes!View(i) :
                /\ k =< m /\ (m = k \/ Shapes!CountyFor(survey[i], k) = Nil)
                /\ survey[i].file[m].ident = survey[i].file[k].ident
                /\ Shapes!View(i)[x].ident = survey[i].file[m].ident
                /\ Shapes!View(i)[x].county = Shapes!CountyFor(survey[i], m)
          BY <5>1 DEF Shapes!Placed
        <5>3. CASE x # n
          BY <5>2, <5>3, <2>4 DEF Shapes!Placed
        <5>4. CASE x = n /\ ~survey[i].adopt
          <6>1. w.ident = survey[i].file[m].ident /\ w.county = Shapes!CountyFor(survey[i], m)
            BY <5>2, <5>4, <2>5, <2>6
          <6> QED
            BY <5>2, <6>1, <2>4 DEF Shapes!Placed
        <5>5. CASE x = n /\ survey[i].adopt
          <6>1. survey[i].target # Nil
            BY <5>2, <5>5, <2>5
          <6>2. /\ Shapes!CountyFor(survey[i], m) = Nil
                /\ survey[i].file[survey[i].at].ident = survey[i].file[k].ident
            BY <5>2, <5>5, <6>1, <3>4, <2>6
          <6>3. Shapes!CountyFor(survey[i], k) = Nil
            BY <5>2, <6>2
          <6> QED
            BY <6>2, <6>3, <3>4, <3>7, <4>1, <4>3, <1>1, <2>4 DEF Shapes!Placed
        <5> QED
          BY <5>3, <5>4, <5>5
      <4> QED
        BY <4>4, <4>5
    <3>8. ASSUME NEW k \in DOMAIN survey'[i].file, k < survey'[i].at
          PROVE  Shapes!Placed(Shapes!View(i)', survey'[i], k)
      BY <3>7, <3>8, <2>1, PlacedAs
    <3> QED
      BY <3>1, <3>2, <3>6, <3>8, <2>1 DEF OneByOne
  <2>14. Shapes!FileIsThere'
    <3>1. last # Nil => survey'[last] = survey[last]
      BY <1>1, <2>1 DEF ShapeTypes
    <3> QED
      BY <3>1, <1>1 DEF Shapes!FileIsThere
  <2>15. MetaFollows'
    <3>1. /\ \A m : Behind(m)' = Behind(m)
          /\ \A j \in Surveys : Describing(j) => survey'[j] = survey[j]
      BY <1>1, <2>1 DEF Behind
    <3> QED
      BY <3>1, <2>11, <1>1 DEF MetaFollows
  <2> QED
    BY <2>9, <2>10, <2>12, <2>13, <2>14, <2>15
<1> QED
  BY <1>3, <1>4 DEF w

(* The commit: the table is what the import saw.                           *)
LEMMA SurveyCommits ==
  ASSUME ShapesInv, NEW i \in Surveys, Shapes!Commit(i)
  PROVE  ShapesInv'
<1> USE DEF ShapesInv
<1>1. /\ DOMAIN survey = Surveys /\ DOMAIN drawn = Surveys /\ DOMAIN survey[i] = SurveyFields
      /\ survey[i].pc = "look" /\ survey[i].at > Len(survey[i].file)
      /\ survey[i].file \in ShapeFiles /\ survey[i].at \in Nat
      /\ meta' = meta /\ overlapped' = overlapped /\ last' = i /\ shape' = Shapes!View(i)
      /\ Drawing(i) /\ Shapes!Running(i) /\ ~Describing(i)
  BY DEF ShapeTypes, Shapes!Commit, Drawing, Shapes!Running, Describing
<1>2. /\ DOMAIN survey' = Surveys /\ \A j \in Surveys \ {i} : survey'[j] = survey[j]
      /\ Kin(survey[i], survey'[i]) /\ survey'[i].at = survey[i].at /\ survey'[i].pc = "describe"
  BY <1>1 DEF Kin, SurveyFields, Shapes!Commit
<1>3. /\ DOMAIN drawn' = Surveys /\ DOMAIN drawn'[i] = {}
      /\ \A j \in Surveys \ {i} : drawn'[j] = drawn[j]
  BY <1>1, EmptyIs DEF Shapes!Commit
<1>4. /\ DOMAIN shape' = DOMAIN drawn[i] \cup DOMAIN shape
      /\ \A n \in DOMAIN drawn[i] : shape'[n] = drawn[i][n]
      /\ \A n \in DOMAIN shape : n \notin DOMAIN drawn[i] => shape'[n] = shape[n]
  BY <1>1, ViewIs
<1>5. ASSUME NEW j \in Surveys
      PROVE  /\ DOMAIN Shapes!View(j)' = DOMAIN drawn'[j] \cup DOMAIN shape'
             /\ \A n \in DOMAIN drawn'[j] : Shapes!View(j)'[n] = drawn'[j][n]
             /\ \A n \in DOMAIN shape' : n \notin DOMAIN drawn'[j] => Shapes!View(j)'[n] = shape'[n]
  BY DEF Shapes!View, Shapes!Over
<1>6. \A j \in Surveys : /\ Drawing(j)' = (Drawing(j) /\ j # i)
                         /\ Shapes!Running(j)' = Shapes!Running(j)
                         /\ Describing(j)' = (Describing(j) \/ j = i)
  BY <1>1, <1>2 DEF Drawing, Shapes!Running, Describing
<1>7. ShapeTypes'
  <2>1. \A n \in DOMAIN shape' : n \in Nat /\ DOMAIN shape'[n] = ShapeFields
    BY <1>1, ViewTypes
  <2>2. \A j \in Surveys \ {i} : DOMAIN Shapes!View(j) \subseteq DOMAIN Shapes!View(j)'
    BY <1>3, <1>4, <1>5, ViewIs, ZenonT(40)
  <2> QED
    BY <2>1, <2>2, <1>1, <1>2, <1>3, <1>6 DEF ShapeTypes, Kin, Drawing
<1>8. Constrained'
  <2>1. Unlike(shape)'
    BY <1>1 DEF Constrained, Unlike
  <2>2. Unlike(Shapes!View(i))'
    BY <2>1, <1>3, <1>5 DEF Unlike
  <2>3. ASSUME NEW j \in Surveys \ {i}, NEW m \in DOMAIN Shapes!View(j)',
               NEW n \in DOMAIN Shapes!View(j)', m # n
        PROVE  ~Shapes!SameKey(Shapes!View(j)'[m], Shapes!View(j)'[n])
    <3> DEFINE seen == Shapes!View(j)'
    <3>1. \A a, b : Shapes!SameKey(a, b) => Shapes!SameKey(b, a)
      BY DEF Shapes!SameKey
    <3>7. /\ m \in DOMAIN seen /\ n \in DOMAIN seen
          /\ \A x \in DOMAIN seen : x \in DOMAIN drawn[j] => seen[x] = drawn[j][x]
          /\ \A x \in DOMAIN seen : x \notin DOMAIN drawn[j] => x \in DOMAIN shape' /\ seen[x] = shape'[x]
      <4>1. drawn'[j] = drawn[j] /\ j \in Surveys
        BY <1>3
      <4> QED
        BY <4>1, <1>5
    <3> HIDE DEF seen
    <3>2. ASSUME NEW x \in DOMAIN drawn[j], NEW y \in DOMAIN shape', x # y
          PROVE  ~Shapes!SameKey(drawn[j][x], shape'[y]) \/ y \in DOMAIN drawn[j]
      <4>1. CASE y \in DOMAIN drawn[i]
        BY <4>1, <1>4, <2>3 DEF Constrained, Apart
      <4>2. CASE y \notin DOMAIN drawn[i] /\ y \notin DOMAIN drawn[j]
        <5>1. /\ Shapes!View(j)[x] = drawn[j][x] /\ Shapes!View(j)[y] = shape'[y]
              /\ x \in DOMAIN Shapes!View(j) /\ y \in DOMAIN Shapes!View(j)
          BY <4>2, <1>4, ViewIs
        <5> QED
          BY <5>1, <3>2 DEF Constrained, Unlike
      <4> QED
        BY <4>1, <4>2
    <3>3. CASE m \in DOMAIN drawn[j] /\ n \in DOMAIN drawn[j]
      <4>1. /\ Shapes!View(j)[m] = drawn[j][m] /\ Shapes!View(j)[n] = drawn[j][n]
            /\ m \in DOMAIN Shapes!View(j) /\ n \in DOMAIN Shapes!View(j)
        BY <3>3, ViewIs
      <4>2. ~Shapes!SameKey(drawn[j][m], drawn[j][n])
        BY <4>1, <2>3 DEF Constrained, Unlike
      <4> QED
        BY <4>2, <3>3, <3>7 DEF seen
    <3>4. CASE m \in DOMAIN drawn[j] /\ n \notin DOMAIN drawn[j]
      <4>1. ~Shapes!SameKey(seen[m], seen[n])
        BY <3>2, <3>4, <3>7, <2>3
      <4> QED
        BY <4>1 DEF seen
    <3>5. CASE m \notin DOMAIN drawn[j] /\ n \in DOMAIN drawn[j]
      <4>1. ~Shapes!SameKey(seen[n], seen[m])
        BY <3>2, <3>5, <3>7, <2>3
      <4> QED
        BY <4>1, <3>1 DEF seen
    <3>6. CASE m \notin DOMAIN drawn[j] /\ n \notin DOMAIN drawn[j]
      <4>1. ~Shapes!SameKey(seen[m], seen[n])
        BY <2>1, <3>6, <3>7, <2>3 DEF Unlike
      <4> QED
        BY <4>1 DEF seen
    <3> QED
      BY <3>3, <3>4, <3>5, <3>6
  <2>4. \A j, k \in Surveys : j # k => Apart(j, k)'
    BY <1>3 DEF Constrained, Apart
  <2> QED
    BY <2>1, <2>2, <2>3, <2>4 DEF Constrained, Unlike
<1>9. WritesTold'
  BY <1>2, <1>3, <1>6, Zenon DEF WritesTold
<1>10. OneByOne'
  <2> SUFFICES ASSUME ~overlapped PROVE OneByOne'
    BY <1>1 DEF OneByOne
  <2>1. OneRuns /\ OneRuns' /\ Once(shape)'
    BY <1>1, <1>6 DEF OneByOne, OneRuns, Once
  <2>2. \A j \in Surveys : ~Drawing(j)'
    BY <2>1, <1>1, <1>6 DEF OneRuns, Drawing, Shapes!Running
  <2> QED
    BY <2>1, <2>2 DEF OneByOne
<1>11. Shapes!FileIsThere'
  <2> SUFFICES ASSUME ~overlapped, NEW k \in DOMAIN survey'[i].file
               PROVE  Shapes!Placed(shape', survey'[i], k)
    BY <1>1 DEF Shapes!FileIsThere
  <2>1. k < survey[i].at /\ k \in DOMAIN survey[i].file
    BY <1>1, <1>2, FileIs DEF Kin
  <2>2. Shapes!Placed(Shapes!View(i), survey[i], k)
    BY <2>1, <1>1 DEF OneByOne
  <2> QED
    BY <2>2, <1>1, <1>2, PlacedAs DEF Kin
<1>12. MetaFollows'
  <2> SUFFICES ASSUME ~overlapped PROVE MetaFollows'
    BY <1>1 DEF MetaFollows
  <2>1. \A j \in Surveys : ~Describing(j)
    <3>1. \A j \in Surveys : Describing(j) => Shapes!Running(j)
      BY DEF Describing, Shapes!Running
    <3> QED
      BY <3>1, <1>1 DEF OneByOne, OneRuns
  <2>2. /\ DOMAIN survey[i].touched = DOMAIN drawn[i]
        /\ \A n \in DOMAIN drawn[i] : FromRecord(survey[i], n, drawn[i][n])
    BY <1>1 DEF WritesTold
  <2>3. ASSUME NEW n \in DOMAIN shape', Behind(n)' PROVE n \in DOMAIN survey'[i].touched
    <3>1. CASE n \in DOMAIN drawn[i]
      BY <3>1, <2>2, <1>2 DEF Kin
    <3>2. CASE n \notin DOMAIN drawn[i]
      <4>1. n \in DOMAIN shape /\ Behind(n)
        BY <3>2, <2>3, <1>1, <1>4 DEF Behind
      <4> QED
        BY <4>1, <2>1 DEF MetaFollows
    <3> QED
      BY <3>1, <3>2
  <2>4. \A n \in DOMAIN survey'[i].touched : n \in DOMAIN shape' /\ FromRecord(survey'[i], n, shape'[n])
    BY <2>2, <1>2, <1>4 DEF FromRecord, Kin
  <2> QED
    BY <2>1, <2>3, <2>4, <1>2, <1>6 DEF MetaFollows
<1> QED
  BY <1>7, <1>8, <1>9, <1>10, <1>11, <1>12

(* Nothing happens to the boundaries.                                       *)
LEMMA SurveysRest ==
  ASSUME ShapesInv, UNCHANGED surveyed
  PROVE  ShapesInv'
<1> USE DEF ShapesInv
<1>1. /\ shape' = shape /\ meta' = meta /\ drawn' = drawn /\ survey' = survey /\ last' = last
      /\ overlapped' = overlapped /\ \A j \in Surveys : Shapes!View(j)' = Shapes!View(j)
  BY ViewStays DEF surveyed
<1>2. ShapeTypes'
  BY <1>1 DEF ShapeTypes, Drawing
<1>3. Constrained' /\ WritesTold'
  BY <1>1 DEF Constrained, Unlike, Apart, WritesTold, Drawing
<1>4. OneByOne'
  <2>1. \A j \in Surveys : Looked(j) => Looked(j)'
    BY <1>1, LookedStays
  <2> QED
    BY <2>1, <1>1 DEF OneByOne, OneRuns, Once, Drawing, Shapes!Running
<1>5. Shapes!FileIsThere' /\ MetaFollows'
  BY <1>1 DEF Shapes!FileIsThere, MetaFollows, Behind, Describing
<1> QED
  BY <1>2, <1>3, <1>4, <1>5

(* Every step of the imports keeps the invariant.                           *)
LEMMA SurveysStep == ShapesInv /\ [Shapes!Next]_surveyed => ShapesInv'
<1> SUFFICES ASSUME ShapesInv, [Shapes!Next]_surveyed PROVE ShapesInv'
  OBVIOUS
<1>1. CASE UNCHANGED surveyed
  BY <1>1, SurveysRest
<1>2. ASSUME NEW i \in Surveys,
             \/ Shapes!Begin(i) \/ Shapes!Look(i) \/ Shapes!Write(i) \/ Shapes!Commit(i)
             \/ Shapes!Describe(i) \/ Shapes!Store(i) \/ Shapes!Fail(i)
      PROVE  ShapesInv'
  BY <1>2, SurveyBegins, SurveyLooks, SurveyWrites, SurveyCommits, SurveyDescribes, SurveyStores,
     SurveyFails
<1> QED
  BY <1>1, <1>2 DEF Shapes!Next

(* No import has begun, and the table holds rows without county at most.    *)
LEMMA SurveysInit == Shapes!Init => ShapesInv
<1> SUFFICES ASSUME Shapes!Init PROVE ShapesInv
  OBVIOUS
<1>1. PICK ident \in [1 .. Shapes!Cardinality(Legacy) -> Legacy] :
        /\ \A m, n \in DOMAIN ident : ident[m] = ident[n] => m = n
        /\ shape = [n \in DOMAIN ident |->
                      [ident |-> ident[n], county |-> Nil, data |-> "old", full |-> FALSE]]
  BY DEF Shapes!Init
<1>2. /\ meta = Shapes!Empty /\ drawn = [i \in Surveys |-> Shapes!Empty]
      /\ survey = [i \in Surveys |-> Shapes!NoImport] /\ last = Nil /\ overlapped = FALSE
  BY DEF Shapes!Init
<1>3. Shapes!Cardinality(Legacy) \in Nat
  BY ImportsAssumption DEF Shapes!BoundaryAssumption
<1>4. \A n \in DOMAIN shape : /\ n \in Nat /\ DOMAIN shape[n] = ShapeFields
                              /\ shape[n].county = Nil /\ ~shape[n].full
  BY <1>1, <1>3 DEF ShapeFields
<1>5. \A i \in Surveys : /\ DOMAIN drawn[i] = {} /\ DOMAIN survey[i] = SurveyFields
                         /\ survey[i].pc = "none" /\ survey[i].at = 1
  BY <1>2, EmptyIs DEF Shapes!NoImport, SurveyFields
<1>6. ShapeTypes
  BY <1>2, <1>4, <1>5, NilIs DEF ShapeTypes, Drawing
<1>7. Constrained
  <2>1. ASSUME NEW i \in Surveys PROVE Unlike(Shapes!View(i))
    <3>1. \A n \in DOMAIN Shapes!View(i) : Shapes!View(i)[n].county = Nil
      BY <1>4, <1>5, ViewIs
    <3> QED
      BY <3>1 DEF Unlike, Shapes!SameKey
  <2> QED
    BY <2>1, <1>4, <1>5 DEF Constrained, Unlike, Apart, Shapes!SameKey
<1>8. WritesTold /\ Shapes!FileIsThere
  BY <1>2, <1>5 DEF WritesTold, Drawing, Shapes!FileIsThere
<1>9. OneByOne
  <2>1. Once(shape)
    BY <1>1 DEF Once
  <2> QED
    BY <2>1, <1>5 DEF OneByOne, OneRuns, Drawing, Shapes!Running
<1>10. MetaFollows
  BY <1>4, <1>5 DEF MetaFollows, Behind, Describing
<1> QED
  BY <1>6, <1>7, <1>8, <1>9, <1>10 DEF ShapesInv

(* A boundary has one row where its county is stored, whatever overlaps;   *)
(* and while imports run one after the other (import_boundaries), one row  *)
(* in any case, every record of the last file, and metadata that agrees.   *)
THEOREM BoundariesTheorem == ImportsSpec => []BoundariesHold
<1> DEFINE Inv == part = "boundaries" => ShapesInv
<1>1. ImportsInit => Inv
  BY SurveysInit DEF ImportsInit
<1>2. Inv /\ [ImportsNext]_<<part, vars, imported>> => Inv'
  <2> SUFFICES ASSUME Inv, [ImportsNext]_<<part, vars, imported>>, part' = "boundaries"
               PROVE  ShapesInv'
    OBVIOUS
  <2>1. part = "boundaries" /\ [Shapes!Next]_surveyed
    BY DEF ImportsNext, imported
  <2> QED
    BY <2>1, SurveysStep
<1>3. Inv => BoundariesHold
  <2> SUFFICES ASSUME ShapesInv PROVE Shapes!BoundariesHold
    BY DEF BoundariesHold
  <2>1. Shapes!OneRow
    BY DEF ShapesInv, Constrained, Unlike, OneByOne, Once, Shapes!SameKey, Shapes!OneRow, Shapes!Key
  <2>2. Shapes!MetaAgrees
    <3> SUFFICES ASSUME ~overlapped, \A i \in Surveys : ~Shapes!Running(i), NEW n \in DOMAIN shape
                 PROVE  ~Behind(n)
      BY DEF Shapes!MetaAgrees, Behind
    <3>1. \A i \in Surveys : ~Describing(i)
      BY DEF Describing, Shapes!Running
    <3> QED
      BY <3>1 DEF ShapesInv, MetaFollows
  <2> QED
    BY <2>1, <2>2 DEF ShapesInv, Shapes!BoundariesHold
<1> QED
  BY <1>1, <1>2, <1>3, PTL DEF ImportsSpec

(* The candidates, the boundaries and the absentee ballots together: each  *)
(* register has what its imports and the edits between them say.           *)
THEOREM RegistersTheorem == ImportsSpec => []RegistersHold
<1>1. RosterHolds /\ BoundariesHold /\ AbsenteeHold => RegistersHold
  BY DEF RegistersHold
<1> QED
  BY <1>1, RosterTheorem, BoundariesTheorem, AbsenteeTheorem, PTL

-----------------------------------------------------------------------------
(* Voter history.                                                          *)
(* Beside the others the voter history import is as it is by itself, so    *)
(* that what the theorems below say of Spec holds of ImportsSpec.          *)
THEOREM HistoryBeside == ImportsSpec => Spec
<1>1. ImportsInit => Init
  BY DEF ImportsInit
<1>2. [ImportsNext]_<<part, vars, imported>> => [Next]_vars
  BY DEF ImportsNext
<1> QED
  BY <1>1, <1>2, PTL DEF ImportsSpec, Spec

USE HistoryAssumption, HistoryBounds

Spent == [fault : Nat, crash : Nat, loss : Nat, overlap : BOOLEAN]

(* Every variable stays in its type.                                       *)
THEOREM HistoryTypes == Spec => []TypeOK
<1> USE DEF TypeOK, LivePcs, BodyPcs, Status
<1>1. Init => TypeOK
  BY DEF Init
<1>2. TypeOK /\ [Next]_vars => TypeOK'
  <2> SUFFICES ASSUME TypeOK, [Next]_vars PROVE TypeOK'
    OBVIOUS
  <2> USE DEF Goto, Set, Spend, locals, Leave
  <2>1. ASSUME NEW j \in Imports, Create(j) PROVE TypeOK'
    <3>1. PICK b \in BOOLEAN : spent' = [spent EXCEPT !.overlap = b]
      BY <2>1, Zenon DEF Create
    <3>2. spent' \in Spent
      BY <3>1 DEF Spent
    <3> QED
      BY <2>1, <3>2 DEF Create, Spent
  <2>2. ASSUME NEW j \in Imports, Begin(j) PROVE TypeOK'
    BY <2>2 DEF Begin
  <2>3. ASSUME NEW j \in Imports, Chunk(j) PROVE TypeOK'
    <3>1. PICK chunk \in SUBSET todo[j], valid \in SUBSET todo[j] :
            /\ todo' = [todo EXCEPT ![j] = @ \ chunk]
            /\ kept' = [kept EXCEPT ![j] = @ \cup valid]
            /\ chunks' = [chunks EXCEPT ![j] = (@ + 1) % CommitEvery]
            /\ \/ owner' = Owned(j, dirty[j] \cup valid) /\ dirty' = [dirty EXCEPT ![j] = {}]
               \/ owner' = owner /\ dirty' = [dirty EXCEPT ![j] = dirty[j] \cup valid]
      BY <2>3, Zenon DEF Chunk
    <3>2. /\ todo' \in [Imports -> SUBSET Keys] /\ kept' \in [Imports -> SUBSET Keys]
          /\ dirty' \in [Imports -> SUBSET Keys]
      BY <3>1
    <3>3. chunks' \in [Imports -> Nat]
      BY <3>1
    <3>4. owner' \in [Keys -> Imports \cup {"none"}]
      BY <3>1 DEF Owned
    <3> QED
      BY <2>3, <3>2, <3>3, <3>4 DEF Chunk
  <2>4. ASSUME NEW j \in Imports, Loaded(j) PROVE TypeOK'
    BY <2>4 DEF Loaded, Owned
  <2>5. ASSUME NEW j \in Imports, SelectPrevious(j) PROVE TypeOK'
    BY <2>5 DEF SelectPrevious, Select
  <2>6. ASSUME NEW j \in Imports, Replace(j) PROVE TypeOK'
    <3>1. status' \in [Imports -> Status]
      BY <2>6 DEF Replace
    <3> QED
      BY <2>6, <3>1 DEF Replace
  <2>7. ASSUME NEW j \in Imports, Raise(j) PROVE TypeOK'
    BY <2>7 DEF Raise
  <2>8. ASSUME NEW j \in Imports, Failed(j) PROVE TypeOK'
    BY <2>8 DEF Failed
  <2>9. ASSUME NEW j \in Imports, Lose(j) PROVE TypeOK'
    BY <2>9 DEF Lose
  <2>10. ASSUME NEW j \in Imports, Cancelled(j) PROVE TypeOK'
    BY <2>10 DEF Cancelled
  <2>11. CASE Stop
    BY <2>11 DEF Stop
  <2>12. CASE Crash \/ Exit
    <3>1. CASE Crash
      BY <3>1 DEF Crash, Die
    <3>2. CASE Exit
      BY <3>2 DEF Exit, Die
    <3> QED
      BY <2>12, <3>1, <3>2
  <2>13. CASE Boot \/ BootUnrecovered
    BY <2>13 DEF Boot, BootUnrecovered
  <2>14. CASE CleanupAbandonedJobs
    BY <2>14 DEF CleanupAbandonedJobs
  <2>15. CASE UNCHANGED vars
    BY <2>15 DEF vars
  <2> QED
    BY <2>1, <2>2, <2>3, <2>4, <2>5, <2>6, <2>7, <2>8, <2>9, <2>10, <2>11, <2>12,
       <2>13, <2>14, <2>15 DEF Next, Step
<1> QED
  BY <1>1, <1>2, PTL DEF Spec

-----------------------------------------------------------------------------
(* The replacement.  The list of earlier imports is read before it is      *)
(* used; by then an import in it can only be live if a command line runs   *)
(* it and a boot took it for an orphan.  That in turn needs that the       *)
(* server's own live imports are open, and that none outlives the server.  *)
(* A job of the list that is not marked was superseded when it was read.   *)
IdleHaveNoRow == \A j \in Imports : pc[j] = "idle" => status[j] = "none"
LocalAreOpen  == \A j \in Imports \ Cli : Live(j) => Open(j) /\ srv # "down"
EarlierAreOver == \A j \in Imports : \A i \in earlier[j] :
                    /\ i # j /\ SameFile(i, j)
                    /\ pc[i] # "idle" /\ (i \in Cli \/ pc[i] = "done")
MarksAreListed == \A j \in Imports : marks[j] \subseteq earlier[j]
RestAreMarked == \A j \in Imports : \A i \in earlier[j] \ marks[j] :
                   i \in Cli \/ status[i] = "superseded"

LifeInv == IdleHaveNoRow /\ LocalAreOpen /\ EarlierAreOver /\ MarksAreListed /\ RestAreMarked

(* What a job has done is seen in its status, its list and its marks.      *)
LEMMA Lives == Spec => []LifeInv
<1> USE DEF LifeInv, IdleHaveNoRow, LocalAreOpen, EarlierAreOver, MarksAreListed, RestAreMarked
<1>1. Init => LifeInv
  BY DEF Init, Live, LivePcs, BodyPcs
<1>2. TypeOK /\ LifeInv /\ [Next]_vars => LifeInv'
  <2> SUFFICES ASSUME TypeOK, LifeInv, [Next]_vars PROVE LifeInv'
    OBVIOUS
  <2> USE DEF TypeOK, LivePcs, BodyPcs, Goto, Set, locals, Leave, Live, Open, Local, SameFile
  <2>1. ASSUME NEW j \in Imports, Create(j) PROVE LifeInv'
    BY <2>1 DEF Create
  <2>2. ASSUME NEW j \in Imports, Begin(j) PROVE LifeInv'
    BY <2>2 DEF Begin
  <2>3. ASSUME NEW j \in Imports, Chunk(j) PROVE LifeInv'
    <3>1. UNCHANGED <<srv, status, pc, earlier, marks>>
      BY <2>3 DEF Chunk
    <3> QED
      BY <3>1
  <2>4. ASSUME NEW j \in Imports, Loaded(j) PROVE LifeInv'
    BY <2>4 DEF Loaded
  <2>5. ASSUME NEW j \in Imports, SelectPrevious(j) PROVE LifeInv'
    <3>1. \A i \in earlier'[j] : /\ i # j /\ SameFile(i, j)
                                /\ pc[i] # "idle" /\ (i \in Cli \/ pc[i] = "done")
      <4> SUFFICES ASSUME NEW i \in earlier'[j] PROVE
                     /\ i # j /\ SameFile(i, j)
                     /\ pc[i] # "idle" /\ (i \in Cli \/ pc[i] = "done")
        OBVIOUS
      <4>1. i \in Imports \ {j} /\ SameFile(i, j)
            /\ status[i] \in {"completed", "superseded", "abandoned"}
        BY <2>5 DEF SelectPrevious, Select
      <4>2. pc[i] # "idle" /\ (i \in Cli \/ ~Live(i))
        BY <4>1
      <4> QED
        BY <4>1, <4>2
    <3>2. \A i \in Imports : i # j => earlier'[i] = earlier[i] /\ pc'[i] = pc[i]
      BY <2>5 DEF SelectPrevious, Select
    <3>3. pc[j] = "select" /\ pc'[j] = "replace" /\ UNCHANGED <<srv, status>>
      BY <2>5 DEF SelectPrevious, Select
    <3>4. EarlierAreOver'
      <4> SUFFICES ASSUME NEW k \in Imports, NEW i \in earlier'[k] PROVE
                     /\ i # k /\ SameFile(i, k)
                     /\ pc'[i] # "idle" /\ (i \in Cli \/ pc'[i] = "done")
        OBVIOUS
      <4>1. /\ i \in Imports /\ i # k /\ SameFile(i, k)
            /\ pc[i] # "idle" /\ (i \in Cli \/ pc[i] = "done")
        <5>1. CASE k = j
          BY <3>1, <5>1, <2>5 DEF SelectPrevious, Select
        <5>2. CASE k # j
          BY <3>2, <5>2
        <5> QED
          BY <5>1, <5>2
      <4> QED
        BY <4>1, <3>2, <3>3
    <3>5. IdleHaveNoRow' /\ LocalAreOpen'
      BY <3>2, <3>3
    <3>6. MarksAreListed' /\ RestAreMarked'
      BY <2>5 DEF SelectPrevious, Select
    <3> QED
      BY <3>4, <3>5, <3>6
  <2>6. ASSUME NEW j \in Imports, Replace(j) PROVE LifeInv'
    <3>1. pc[j] = "replace" /\ pc' = [pc EXCEPT ![j] = "done"] /\ srv' = srv
      BY <2>6 DEF Replace
    <3>2. \A i \in Imports : earlier'[i] \subseteq earlier[i]
      BY <2>6 DEF Replace
    <3>3. EarlierAreOver'
      BY <3>1, <3>2
    <3>4. \A i \in Imports : status'[i] = status[i] \/ i = j
                             \/ (i \in marks[j] /\ status'[i] = "superseded")
      BY <2>6 DEF Replace
    <3>5. LocalAreOpen'
      BY <3>1, <3>4
    <3>6. IdleHaveNoRow'
      <4> SUFFICES ASSUME NEW i \in Imports, pc'[i] = "idle" PROVE status'[i] = "none"
        OBVIOUS
      <4>1. pc[i] = "idle" /\ i # j
        BY <3>1
      <4>2. status[i] = "none"
        BY <4>1
      <4>3. i \notin marks[j]
        BY <4>1
      <4> QED
        BY <3>4, <4>1, <4>2, <4>3
    <3>7. MarksAreListed' /\ RestAreMarked'
      <4>1. \A i \in Imports \ {j} : earlier'[i] = earlier[i] /\ marks'[i] = marks[i]
        BY <2>6 DEF Replace
      <4>2. earlier'[j] = {} /\ marks'[j] = {}
        BY <2>6 DEF Replace
      <4>3. \A i \in Imports \ {j} : status[i] = "superseded" => status'[i] = "superseded"
        BY <3>4
      <4>4. \A i \in Imports : j \in earlier[i] => j \in Cli
        BY <3>1
      <4> QED
        BY <4>1, <4>2, <4>3, <4>4
    <3> QED
      BY <3>3, <3>5, <3>6, <3>7
  <2>7. ASSUME NEW j \in Imports, Raise(j) \/ Failed(j) \/ Lose(j) \/ Cancelled(j)
        PROVE LifeInv'
    <3>1. Live(j) /\ srv' = srv /\ \A i \in Imports \ {j} : pc'[i] = pc[i] /\ status'[i] = status[i]
      BY <2>7 DEF Raise, Failed, Lose, Cancelled
    <3>2. \A i \in Imports : \/ earlier'[i] = {} /\ marks'[i] = {}
                             \/ earlier'[i] = earlier[i] /\ marks'[i] = marks[i]
      BY <2>7 DEF Raise, Failed, Lose, Cancelled
    <3>3. \A i \in Imports : j \in earlier[i] => j \in Cli
      BY <3>1
    <3>4. pc'[j] \in {"failing", "done"} /\ (pc'[j] = "done" \/ status'[j] = status[j])
      BY <2>7 DEF Raise, Failed, Lose, Cancelled
    <3>5. RestAreMarked' /\ MarksAreListed'
      BY <3>1, <3>2, <3>3
    <3>6. EarlierAreOver'
      BY <3>1, <3>2, <3>3, <3>4
    <3>7. IdleHaveNoRow' /\ LocalAreOpen'
      BY <3>1, <3>4
    <3> QED
      BY <3>5, <3>6, <3>7
  <2>8. CASE Stop
    BY <2>8 DEF Stop
  <2>9. CASE Crash \/ Exit
    <3>1. /\ status' = status
          /\ \A i \in Imports : pc'[i] = IF Local(i) THEN "done" ELSE pc[i]
      BY <2>9 DEF Crash, Exit, Die
    <3>2. \A i \in Imports : IF Local(i) THEN earlier'[i] = {} /\ marks'[i] = {}
                             ELSE earlier'[i] = earlier[i] /\ marks'[i] = marks[i]
      BY <2>9 DEF Crash, Exit, Die
    <3>3. IdleHaveNoRow'
      BY <3>1
    <3>4. LocalAreOpen'
      BY <3>1
    <3>5. EarlierAreOver'
      BY <3>1, <3>2
    <3>6. MarksAreListed' /\ RestAreMarked'
      BY <3>1, <3>2
    <3> QED
      BY <3>3, <3>4, <3>5, <3>6
  <2>10. CASE Boot \/ BootUnrecovered
    BY <2>10 DEF Boot, BootUnrecovered
  <2>11. CASE CleanupAbandonedJobs
    BY <2>11 DEF CleanupAbandonedJobs
  <2>12. CASE UNCHANGED vars
    BY <2>12 DEF vars
  <2> QED
    BY <2>1, <2>2, <2>3, <2>4, <2>5, <2>6, <2>7, <2>8, <2>9, <2>10, <2>11, <2>12
       DEF Next, Step
<1> QED
  BY <1>1, <1>2, HistoryTypes, PTL DEF Spec

-----------------------------------------------------------------------------
(* A superseded job owns no row, unless its command line is still at work: *)
(* a replacement deletes all it owns, and only a live import gets rows.    *)
Empty(j) == spent.loss = 0 /\ status[j] = "superseded" => Rows(j) = {} \/ Live(j)

(* So the rows of superseded jobs are gone (the replace step).             *)
THEOREM Superseded == Spec => []SupersededOwnNothing
<1> DEFINE Inv == \A j \in Imports : Empty(j)
<1>1. Init => Inv
  BY DEF Init, Empty
<1>2. TypeOK /\ LifeInv /\ Inv /\ [Next]_vars => Inv'
  <2> SUFFICES ASSUME TypeOK, LifeInv, [Next]_vars, NEW i \in Imports, Empty(i),
                      spent'.loss = 0, status'[i] = "superseded", ~Live(i)'
               PROVE  \A k \in Keys : owner'[k] # i
    BY DEF Empty, Rows
  <2> USE DEF TypeOK, Empty, Rows, Live, LivePcs, BodyPcs, Goto, Set, Spend
  <2>1. ASSUME NEW j \in Imports, Create(j) PROVE \A k \in Keys : owner'[k] # i
    <3>1. spent'.loss = spent.loss
      <4>1. PICK b \in BOOLEAN : spent' = [spent EXCEPT !.overlap = b]
        BY <2>1, Zenon DEF Create
      <4> QED
        BY <4>1
    <3> QED
      BY <2>1, <3>1 DEF Create
  <2>2. ASSUME NEW j \in Imports, Begin(j) \/ SelectPrevious(j) \/ Raise(j) \/ Failed(j)
        PROVE \A k \in Keys : owner'[k] # i
    BY <2>2 DEF Begin, SelectPrevious, Select, Raise, Failed
  <2>3. ASSUME NEW j \in Imports, Chunk(j) PROVE \A k \in Keys : owner'[k] # i
    <3>1. pc[j] = "chunks" /\ UNCHANGED <<pc, status, spent>>
      BY <2>3 DEF Chunk
    <3>2. i # j
      BY <3>1
    <3>3. \A k \in Keys : owner'[k] \in {owner[k], j}
      BY <2>3 DEF Chunk, Owned
    <3> QED
      BY <3>1, <3>2, <3>3
  <2>4. ASSUME NEW j \in Imports, Loaded(j) PROVE \A k \in Keys : owner'[k] # i
    BY <2>4 DEF Loaded, Owned
  <2>5. ASSUME NEW j \in Imports, Replace(j) PROVE \A k \in Keys : owner'[k] # i
    <3>1. j \notin marks[j] /\ marks[j] \subseteq earlier[j]
      BY DEF LifeInv, EarlierAreOver, MarksAreListed
    <3>2. i # j
      BY <2>5, <3>1 DEF Replace
    <3>3. CASE i \in earlier[j]
      BY <2>5, <3>3, HistoryAssumption DEF Replace, StaleRows
    <3>4. CASE i \notin earlier[j]
      BY <2>5, <3>1, <3>2, <3>4, HistoryAssumption DEF Replace
    <3> QED
      BY <3>3, <3>4
  <2>6. ASSUME NEW j \in Imports, Lose(j) PROVE FALSE
    BY <2>6 DEF Lose
  <2>7. ASSUME NEW j \in Imports, Cancelled(j) PROVE \A k \in Keys : owner'[k] # i
    BY <2>7 DEF Cancelled, Local, LifeInv, LocalAreOpen, Open
  <2>8. CASE Stop
    BY <2>8 DEF Stop
  <2>9. CASE Crash \/ Exit
    <3>1. spent'.loss = spent.loss /\ UNCHANGED <<owner, status>>
      BY <2>9 DEF Crash, Exit, Die
    <3>2. Local(i) \/ pc'[i] = pc[i]
      BY <2>9 DEF Crash, Exit, Die
    <3> QED
      BY <3>1, <3>2 DEF Local, LifeInv, LocalAreOpen, Open
  <2>10. CASE Boot \/ BootUnrecovered
    BY <2>10 DEF Boot, BootUnrecovered
  <2>11. CASE CleanupAbandonedJobs
    BY <2>11 DEF CleanupAbandonedJobs
  <2>12. CASE UNCHANGED vars
    BY <2>12 DEF vars, locals
  <2> QED
    BY <2>1, <2>2, <2>3, <2>4, <2>5, <2>6, <2>7, <2>8, <2>9, <2>10, <2>11, <2>12
       DEF Next, Step
<1>3. Inv => SupersededOwnNothing
  BY DEF SupersededOwnNothing, Empty
<1> QED
  BY <1>1, <1>2, <1>3, HistoryTypes, Lives, PTL DEF Spec

-----------------------------------------------------------------------------
(* Imports that follow one another: an import that is about to replace the *)
(* earlier ones has every completed or superseded import of its file in    *)
(* its list, since no other import was live to complete in between, and    *)
(* the jobs of the list that were superseded still are.                    *)
OneLive == ~spent.overlap => \A i, j \in Imports : Live(i) /\ Live(j) => i = j
ListIsWhole == ~spent.overlap => \A i, j \in Imports :
                 i # j /\ SameFile(i, j) /\ pc[j] = "replace"
                   /\ status[i] \in {"completed", "superseded"} => i \in earlier[j]
ListIsOver == ~spent.overlap => \A j \in Imports : pc[j] = "replace" =>
                \A i \in earlier[j] \ marks[j] : status[i] = "superseded"
TurnInv == OneLive /\ ListIsWhole /\ ListIsOver /\ OneCompleted

(* One import at a time lists all the jobs of its file there are.          *)
LEMMA Turns == Spec => []TurnInv
<1> USE DEF TurnInv, OneLive, ListIsWhole, ListIsOver, OneCompleted
<1>1. Init => TurnInv
  BY DEF Init, Live, LivePcs, BodyPcs
<1>2. TypeOK /\ LifeInv /\ TurnInv /\ [Next]_vars => TurnInv'
  <2> SUFFICES ASSUME TypeOK, LifeInv, TurnInv, [Next]_vars, ~spent'.overlap
               PROVE  TurnInv'
    OBVIOUS
  <2> USE DEF TypeOK, Live, LivePcs, BodyPcs, Goto, Set, Spend, locals, SameFile
  <2>1. ASSUME NEW j \in Imports, Create(j) PROVE TurnInv'
    <3>1. ~spent.overlap /\ \A i \in Imports : ~Live(i)
      BY <2>1 DEF Create
    <3>2. \A i \in Imports \ {j} : pc'[i] = pc[i] /\ status'[i] = status[i]
      BY <2>1 DEF Create
    <3>3. pc'[j] = "created" /\ status'[j] = "pending"
      BY <2>1 DEF Create
    <3> QED
      BY <3>1, <3>2, <3>3
  <2>2. ASSUME NEW j \in Imports, Begin(j) PROVE TurnInv'
    BY <2>2 DEF Begin
  <2>3. ASSUME NEW j \in Imports, Chunk(j) PROVE TurnInv'
    <3>1. UNCHANGED <<pc, status, earlier, marks, spent>>
      BY <2>3 DEF Chunk
    <3> QED
      BY <3>1
  <2>4. ASSUME NEW j \in Imports, Loaded(j) PROVE TurnInv'
    BY <2>4 DEF Loaded, Leave
  <2>5. ASSUME NEW j \in Imports, SelectPrevious(j) PROVE TurnInv'
    <3>1. pc[j] = "select" /\ pc' = [pc EXCEPT ![j] = "replace"]
          /\ UNCHANGED <<status, spent>>
      BY <2>5 DEF SelectPrevious, Select
    <3>2. \A i \in Imports : i # j /\ SameFile(i, j) /\ status[i] \in {"completed", "superseded"}
             => i \in earlier'[j]
      BY <2>5 DEF SelectPrevious, Select
    <3>3. \A i \in Imports \ {j} : pc'[i] # "replace"
      BY <3>1
    <3>4. \A i \in earlier'[j] \ marks'[j] : status[i] = "superseded"
      BY <2>5 DEF SelectPrevious, Select
    <3>5. OneLive'
      BY <3>1
    <3> QED
      BY <3>1, <3>2, <3>3, <3>4, <3>5
  <2>6. ASSUME NEW j \in Imports, Replace(j) PROVE TurnInv'
    <3>1. pc[j] = "replace" /\ pc' = [pc EXCEPT ![j] = "done"] /\ spent' = spent
      BY <2>6 DEF Replace
    <3>2. \A i \in Imports \ {j} : status'[i] = "completed"
             => status[i] = "completed" /\ i \notin earlier[j]
      BY <2>6 DEF Replace
    <3>3. \A i \in Imports : ~Live(i)'
      BY <3>1
    <3>4. OneCompleted'
      BY <3>1, <3>2
    <3> QED
      BY <3>3, <3>4
  <2>7. ASSUME NEW j \in Imports, Raise(j) \/ Failed(j) \/ Lose(j) \/ Cancelled(j)
        PROVE TurnInv'
    <3>1. ~spent.overlap
      BY <2>7 DEF Raise, Failed, Lose, Cancelled
    <3>2. /\ \A i \in Imports : status'[i] \in {status[i], "failed"}
          /\ \A i \in Imports : pc'[i] = "replace" => status' = status
      BY <2>7 DEF Raise, Failed, Lose, Cancelled
    <3>3. \A i \in Imports : /\ Live(i)' => Live(i)
                             /\ pc'[i] = "replace" => /\ pc[i] = "replace" /\ earlier'[i] = earlier[i]
                                                       /\ marks'[i] = marks[i]
      BY <2>7 DEF Raise, Failed, Lose, Cancelled, Leave
    <3> QED
      BY <3>1, <3>2, <3>3
  <2>8. CASE Stop \/ BootUnrecovered
    BY <2>8 DEF Stop, BootUnrecovered
  <2>9. CASE Crash \/ Exit
    <3>1. ~spent.overlap /\ status' = status
      BY <2>9 DEF Crash, Exit, Die
    <3>2. \A i \in Imports : /\ Live(i)' => Live(i)
                             /\ pc'[i] = "replace" => /\ pc[i] = "replace" /\ earlier'[i] = earlier[i]
                                                       /\ marks'[i] = marks[i]
      BY <2>9 DEF Crash, Exit, Die, Leave
    <3> QED
      BY <3>1, <3>2
  <2>10. CASE Boot \/ CleanupAbandonedJobs
    <3>1. UNCHANGED <<pc, earlier, marks, spent>>
      BY <2>10 DEF Boot, CleanupAbandonedJobs
    <3>2. \A i \in Imports : \A s \in {"completed", "superseded"} : status'[i] = s <=> status[i] = s
      BY <2>10 DEF Boot, CleanupAbandonedJobs, Open
    <3> QED
      BY <3>1, <3>2
  <2>11. CASE UNCHANGED vars
    BY <2>11 DEF vars
  <2> QED
    BY <2>1, <2>2, <2>3, <2>4, <2>5, <2>6, <2>7, <2>8, <2>9, <2>10, <2>11
       DEF Next, Step
<1> QED
  BY <1>1, <1>2, HistoryTypes, Lives, PTL DEF Spec

(* A file has one completed import.                                        *)
THEOREM OneCompletes == Spec => []OneCompleted
<1>1. TurnInv => OneCompleted
  BY DEF TurnInv
<1> QED
  BY <1>1, Turns, PTL

(* Both: what replacements leave of a file's imports.                      *)
THEOREM OneImportPerFile == Spec => []OnePerFile
<1>1. OneCompleted /\ SupersededOwnNothing => OnePerFile
  BY DEF OnePerFile
<1> QED
  BY <1>1, OneCompletes, Superseded, PTL

(* A participation is only deleted by the completion of an import of the   *)
(* same file; the job that owned it is superseded by then, or a command    *)
(* line that overlaps with the import still runs it.                       *)
THEOREM Removals == Spec => RemovedByReplacement
<1> DEFINE Removal ==
      \A k \in Keys : owner[k] # "none" /\ owner'[k] = "none" =>
        /\ (spent.overlap /\ owner[k] \in Cli) \/ status'[owner[k]] = "superseded"
        /\ \E j \in Imports : SameFile(j, owner[k]) /\ Finishes(j)
<1>1. TypeOK /\ LifeInv /\ TurnInv /\ [Next]_vars => [Removal]_vars
  <2> SUFFICES ASSUME TypeOK, LifeInv, TurnInv, Next, NEW k \in Keys,
                      owner[k] # "none", owner'[k] = "none"
               PROVE  /\ (spent.overlap /\ owner[k] \in Cli) \/ status'[owner[k]] = "superseded"
                      /\ \E j \in Imports : SameFile(j, owner[k]) /\ Finishes(j)
    BY DEF vars
  <2> USE DEF TypeOK
  <2>1. PICK j \in Imports : Chunk(j) \/ Loaded(j) \/ Replace(j)
    <3>1. ASSUME NEW i \in Imports, Create(i) PROVE owner' = owner
      BY <3>1, Zenon DEF Create
    <3>2. ASSUME NEW i \in Imports, Begin(i) \/ SelectPrevious(i) \/ Failed(i)
          PROVE owner' = owner
      BY <3>2 DEF Begin, SelectPrevious, Select, Failed
    <3>3. ASSUME NEW i \in Imports, Raise(i) \/ Lose(i) \/ Cancelled(i)
          PROVE owner' = owner
      BY <3>3 DEF Raise, Lose, Cancelled
    <3>4. CASE CleanupAbandonedJobs
      BY <3>4 DEF CleanupAbandonedJobs
    <3>5. CASE Stop \/ Crash \/ Exit \/ Boot \/ BootUnrecovered
      BY <3>5 DEF Stop, Crash, Exit, Die, Boot, BootUnrecovered
    <3> QED
      BY <3>1, <3>2, <3>3, <3>4, <3>5 DEF Next, Step
  <2>2. ~Chunk(j)
    <3>1. ASSUME NEW K, owner' = Owned(j, K) PROVE FALSE
      BY <3>1 DEF Owned, HistoryAssumption
    <3> QED
      BY <3>1 DEF Chunk
  <2>3. ~Loaded(j)
    BY DEF Loaded, Owned
  <2>4. Replace(j)
    BY <2>1, <2>2, <2>3
  <2>5. owner[k] \in earlier[j] /\ owner[k] \in Imports
    BY <2>4 DEF Replace, StaleRows
  <2>6. owner[k] # j /\ SameFile(j, owner[k]) /\ j \notin marks[j]
    BY <2>5 DEF LifeInv, EarlierAreOver, MarksAreListed, SameFile
  <2>7. status'[j] = "completed"
    BY <2>4, <2>6 DEF Replace
  <2>8. status'[owner[k]] = "superseded" \/ (owner[k] \in Cli /\ spent.overlap)
    <3>1. CASE owner[k] \in marks[j]
      BY <2>4, <2>5, <2>6, <3>1 DEF Replace
    <3>2. CASE owner[k] \notin marks[j]
      <4>1. status'[owner[k]] = status[owner[k]]
        BY <2>4, <2>5, <2>6, <3>2 DEF Replace
      <4>2. status[owner[k]] = "superseded" \/ (owner[k] \in Cli /\ spent.overlap)
        BY <2>4, <2>5, <3>2 DEF LifeInv, RestAreMarked, TurnInv, ListIsOver, Replace
      <4> QED
        BY <4>1, <4>2
    <3> QED
      BY <3>1, <3>2
  <2>9. Finishes(j)
    BY <2>4, <2>7 DEF Replace, Finishes, Goto
  <2> QED
    BY <2>6, <2>8, <2>9
<1> QED
  BY <1>1, HistoryTypes, Lives, Turns, PTL DEF Spec, RemovedByReplacement

-----------------------------------------------------------------------------
(* What an import read stays there.  An import that is under way alone     *)
(* owns, or is about to own, all it read; its replacement then spares the  *)
(* rows of every other completed import of its file, which it supersedes,  *)
(* so what it deletes of another file's import is in its own file, too.    *)
RowsAreRead  == \A k \in Keys : owner[k] # "none" => k \in kept[owner[k]]
DirtyAreRead == \A j \in Imports : dirty[j] \subseteq kept[j]
NewReadNone  == \A j \in Imports : pc[j] \in {"idle", "created"} => kept[j] = {}
CompletedAreDone == \A j \in Imports : status[j] = "completed" => pc[j] = "done"
OwnsItsReads == ~spent.overlap => \A j \in Imports : \A k \in kept[j] :
                  /\ pc[j] = "chunks" => owner[k] = j \/ k \in dirty[j]
                  /\ pc[j] \in {"select", "replace"} => owner[k] = j
KeptInv == /\ RowsAreRead /\ DirtyAreRead /\ NewReadNone /\ CompletedAreDone
           /\ OwnsItsReads /\ CompletedIsThere

(* The rows of a job are those it has read, as long as no other is live.   *)
LEMMA Reads == Spec => []KeptInv
<1> USE HistoryAssumption
<1>1. Init => KeptInv
  BY DEF Init, KeptInv, RowsAreRead, DirtyAreRead, NewReadNone, CompletedAreDone,
         OwnsItsReads, CompletedIsThere
<1>2. TypeOK /\ LifeInv /\ TurnInv /\ KeptInv /\ [Next]_vars => KeptInv'
  <2> SUFFICES ASSUME TypeOK, LifeInv, TurnInv, KeptInv, [Next]_vars PROVE KeptInv'
    OBVIOUS
  <2>t. /\ owner \in [Keys -> Imports \cup {"none"}] /\ status \in [Imports -> Status]
        /\ pc \in [Imports -> LivePcs \cup {"idle", "done"}]
        /\ dirty \in [Imports -> SUBSET Keys] /\ kept \in [Imports -> SUBSET Keys]
        /\ todo \in [Imports -> SUBSET Keys]
        /\ earlier \in [Imports -> SUBSET Imports] /\ marks \in [Imports -> SUBSET Imports]
        /\ spent \in [fault : Nat, crash : Nat, loss : Nat, overlap : BOOLEAN]
    BY DEF TypeOK
  <2> USE DEF KeptInv, RowsAreRead, DirtyAreRead, NewReadNone, CompletedAreDone,
              OwnsItsReads, CompletedIsThere
  (* A step that reads and writes no rows.                                 *)
  <2>a. ASSUME owner' = owner, kept' = kept, spent'.overlap = spent.overlap,
               \A j \in Imports :
                 /\ dirty'[j] \subseteq dirty[j]
                 /\ pc'[j] = "chunks" => /\ pc[j] \in {"created", "chunks"}
                                         /\ dirty'[j] = dirty[j]
                 /\ pc'[j] \in {"select", "replace"} => pc[j] \in {"select", "replace"}
                 /\ pc'[j] \in {"idle", "created"} => pc[j] \in {"idle", "created"}
                 /\ status'[j] = "completed" => status[j] = "completed" /\ pc'[j] = pc[j]
        PROVE  KeptInv'
    <3>1. RowsAreRead' /\ DirtyAreRead' /\ NewReadNone' /\ CompletedAreDone'
      BY <2>a, <2>t
    <3>2. OwnsItsReads'
      BY <2>a, <2>t
    <3>3. CompletedIsThere'
      BY <2>a, <2>t
    <3> QED
      BY <3>1, <3>2, <3>3
  <2>1. ASSUME NEW j \in Imports, Create(j) PROVE KeptInv'
    <3>1. /\ owner' = owner /\ kept' = kept /\ dirty' = dirty
          /\ pc[j] = "idle" /\ pc' = [pc EXCEPT ![j] = "created"]
          /\ status' = [status EXCEPT ![j] = "pending"]
          /\ spent' = [spent EXCEPT !.overlap = @ \/ \E i \in Imports : Live(i)]
      BY <2>1 DEF Create, Goto, Set
    <3>2. spent'.overlap = FALSE => spent.overlap = FALSE
      BY <3>1, <2>t
    <3>3. RowsAreRead' /\ DirtyAreRead' /\ NewReadNone' /\ CompletedAreDone'
      BY <3>1, <2>t
    <3>4. OwnsItsReads'
      BY <3>1, <3>2, <2>t
    <3>5. CompletedIsThere'
      BY <3>1, <3>2, <2>t
    <3> QED
      BY <3>3, <3>4, <3>5
  <2>2. ASSUME NEW j \in Imports, Begin(j) PROVE KeptInv'
    BY <2>2, <2>a, <2>t DEF Begin, Goto, Set, locals
  <2>3. ASSUME NEW j \in Imports, Chunk(j) PROVE KeptInv'
    <3>1. PICK valid \in SUBSET todo[j] :
            /\ kept' = [kept EXCEPT ![j] = @ \cup valid]
            /\ \/ /\ owner' = Owned(j, dirty[j] \cup valid)
                  /\ dirty' = [dirty EXCEPT ![j] = {}]
               \/ /\ owner' = owner
                  /\ dirty' = [dirty EXCEPT ![j] = dirty[j] \cup valid]
      BY <2>3 DEF Chunk
    <3>2. valid \subseteq Keys
      BY <3>1, <2>t
    <3>3. pc[j] = "chunks" /\ pc' = pc /\ status' = status /\ spent' = spent
      BY <2>3 DEF Chunk
    <3>4. \A k \in Keys : \/ owner'[k] = owner[k]
                          \/ owner'[k] = j /\ k \in dirty[j] \cup valid
      BY <3>1, <2>t DEF Owned
    <3>5. RowsAreRead' /\ DirtyAreRead' /\ NewReadNone' /\ CompletedAreDone'
      BY <3>1, <3>2, <3>3, <3>4, <2>t
    <3>6. OwnsItsReads'
      <4> SUFFICES ASSUME ~spent.overlap, NEW i \in Imports, NEW k \in kept'[i]
                   PROVE  /\ pc[i] = "chunks" => owner'[k] = i \/ k \in dirty'[i]
                          /\ pc[i] \in {"select", "replace"} => owner'[k] = i
        BY <3>3
      <4>1. CASE i = j
        <5>1. k \in kept[j] \/ k \in valid
          BY <3>1, <4>1, <2>t
        <5>2. k \in Keys
          BY <3>2, <5>1, <2>t
        <5>3. owner[k] = j \/ k \in dirty[j] \cup valid
          BY <3>3, <5>1
        <5> QED
          BY <3>1, <3>3, <4>1, <5>2, <5>3, <2>t DEF Owned
      <4>2. CASE i # j
        <5>1. ~Live(i)
          BY <3>3, <4>2 DEF TurnInv, OneLive, Live, LivePcs, BodyPcs
        <5> QED
          BY <5>1 DEF Live, LivePcs, BodyPcs
      <4> QED
        BY <4>1, <4>2
    <3>7. CompletedIsThere'
      BY <3>1, <3>3, <3>4, <2>t
    <3> QED
      BY <3>5, <3>6, <3>7
  <2>4. ASSUME NEW j \in Imports, Loaded(j) PROVE KeptInv'
    <3>1. /\ pc[j] = "chunks" /\ pc' = [pc EXCEPT ![j] = "select"] /\ status' = status
          /\ owner' = Owned(j, dirty[j]) /\ kept' = kept /\ spent' = spent
          /\ \A i \in Imports : dirty'[i] = IF i = j THEN {} ELSE dirty[i]
      BY <2>4 DEF Loaded, Goto, Leave
    <3>2. \A k \in Keys : owner'[k] = IF k \in dirty[j] THEN j ELSE owner[k]
      BY <3>1, <2>t DEF Owned
    <3>3. RowsAreRead' /\ DirtyAreRead' /\ NewReadNone' /\ CompletedAreDone'
      BY <3>1, <3>2, <2>t
    <3>4. OwnsItsReads'
      <4>1. ~spent.overlap => \A i \in Imports \ {j} : ~Live(i)
        BY <3>1 DEF TurnInv, OneLive, Live, LivePcs, BodyPcs
      <4> QED
        BY <3>1, <3>2, <4>1, <2>t DEF Live, LivePcs, BodyPcs
    <3>5. CompletedIsThere'
      BY <3>1, <3>2, <2>t
    <3> QED
      BY <3>3, <3>4, <3>5
  <2>5. ASSUME NEW j \in Imports, SelectPrevious(j) PROVE KeptInv'
    <3>1. /\ pc[j] = "select" /\ pc' = [pc EXCEPT ![j] = "replace"] /\ status' = status
          /\ owner' = owner /\ kept' = kept /\ spent' = spent /\ dirty' = dirty
      BY <2>5 DEF SelectPrevious, Select, Goto
    <3>2. status[j] # "completed"
      BY <3>1
    <3> QED
      BY <2>a, <3>1, <3>2, <2>t
  <2>6. ASSUME NEW j \in Imports, Replace(j) PROVE KeptInv'
    <3>1. /\ pc[j] = "replace" /\ pc' = [pc EXCEPT ![j] = "done"]
          /\ kept' = kept /\ spent' = spent
          /\ \A i \in Imports : dirty'[i] \subseteq dirty[i]
          /\ \A i \in Imports : i # j => dirty'[i] = dirty[i]
          /\ \A k \in Keys : owner'[k] = IF owner[k] \in earlier[j] THEN "none" ELSE owner[k]
          /\ \A i \in Imports : status'[i] = CASE i = j          -> "completed"
                                               [] i \in marks[j] -> "superseded"
                                               [] OTHER          -> status[i]
      BY <2>6 DEF Replace, StaleRows, Goto, Leave
    <3>2. \A i \in earlier[j] : i # j /\ SameFile(i, j)
      BY DEF LifeInv, EarlierAreOver
    <3>3. RowsAreRead' /\ DirtyAreRead' /\ NewReadNone'
      BY <3>1, <2>t
    <3>4. CompletedAreDone'
      BY <3>1, <2>t
    <3>5. OwnsItsReads'
      <4>1. ~spent.overlap => \A i \in Imports \ {j} : ~Live(i)
        BY <3>1 DEF TurnInv, OneLive, Live, LivePcs, BodyPcs
      <4> QED
        BY <3>1, <4>1, <2>t DEF Live, LivePcs, BodyPcs
    <3>6. CompletedIsThere'
      <4> SUFFICES ASSUME ~spent.overlap, NEW i \in Imports, status'[i] = "completed",
                          NEW k \in kept[i], owner'[k] = "none"
                   PROVE  \E m \in Imports : ~SameFile(m, i) /\ k \in kept[m]
        BY <3>1
      <4>0. k \in Keys
        BY <2>t
      <4>1. CASE i = j
        BY <3>1, <3>2, <4>0, <4>1
      <4>2. CASE i # j
        <5>1. status[i] = "completed" /\ i \notin marks[j]
          BY <3>1, <4>2
        <5>2. CASE owner[k] = "none"
          BY <5>1, <5>2
        <5>3. CASE owner[k] # "none"
          <6>1. owner[k] \in earlier[j] /\ owner[k] \in Imports /\ k \in kept[owner[k]]
            BY <3>1, <4>0, <5>3, <2>t
          <6>2. ~SameFile(i, j)
            <7>1. i \in earlier[j] => status[i] = "superseded"
              BY <3>1, <5>1 DEF TurnInv, ListIsOver
            <7> QED
              BY <3>1, <4>2, <5>1, <7>1 DEF TurnInv, ListIsWhole
          <6>3. SameFile(owner[k], j)
            BY <3>2, <6>1
          <6> QED
            BY <6>1, <6>2, <6>3 DEF SameFile
        <5> QED
          BY <5>2, <5>3
      <4> QED
        BY <4>1, <4>2
    <3> QED
      BY <3>3, <3>4, <3>5, <3>6
  <2>7. ASSUME NEW j \in Imports, Raise(j) \/ Failed(j) \/ Lose(j) \/ Cancelled(j)
        PROVE KeptInv'
    <3>1. /\ owner' = owner /\ kept' = kept
          /\ pc[j] \in LivePcs /\ pc'[j] \in {"failing", "done"}
          /\ \A i \in Imports \ {j} : pc'[i] = pc[i] /\ status'[i] = status[i]
          /\ \A i \in Imports : dirty'[i] \subseteq dirty[i]
          /\ \A i \in Imports \ {j} : dirty'[i] = dirty[i]
          /\ status'[j] \in {status[j], "failed"}
      BY <2>7, <2>t DEF Raise, Failed, Lose, Cancelled, Leave, Goto, Set, locals, Live,
                        Local, LivePcs, BodyPcs
    <3>2. spent'.overlap = spent.overlap
      BY <2>7, <2>t DEF Raise, Failed, Lose, Cancelled, Spend
    <3>3. status[j] # "completed"
      BY <3>1 DEF LivePcs, BodyPcs
    <3> QED
      BY <2>a, <3>1, <3>2, <3>3
  <2>8. CASE Stop \/ Boot \/ BootUnrecovered \/ CleanupAbandonedJobs
    <3>1. /\ UNCHANGED <<owner, kept, pc, dirty>>
          /\ \A i \in Imports : status'[i] = "completed" => status[i] = "completed"
      BY <2>8, <2>t DEF Stop, Boot, BootUnrecovered, CleanupAbandonedJobs, locals, Open
    <3>2. spent'.overlap = spent.overlap
      BY <2>8, <2>t DEF Stop, Boot, BootUnrecovered, CleanupAbandonedJobs, Spend
    <3> QED
      BY <2>a, <3>1, <3>2
  <2>9. CASE Crash \/ Exit
    <3>0. Die
      BY <2>9 DEF Crash, Exit
    <3>1. /\ UNCHANGED <<owner, kept, status>>
          /\ \A i \in Imports : /\ dirty'[i] = IF Local(i) THEN {} ELSE dirty[i]
                                /\ pc'[i] = IF Local(i) THEN "done" ELSE pc[i]
      BY <3>0 DEF Die, Leave
    <3>2. spent'.overlap = spent.overlap
      BY <2>9, <2>t DEF Crash, Exit, Spend
    <3>3. \A i \in Imports : Local(i) => pc[i] # "done"
      BY DEF Local, Live, LivePcs, BodyPcs
    <3> QED
      BY <2>a, <3>1, <3>2, <3>3
  <2>10. CASE UNCHANGED vars
    BY <2>10, <2>a DEF vars, locals
  <2> QED
    BY <2>1, <2>2, <2>3, <2>4, <2>5, <2>6, <2>7, <2>8, <2>9, <2>10 DEF Next, Step
<1> QED
  BY <1>1, <1>2, HistoryTypes, Lives, Turns, PTL DEF Spec

(* What a completed import read is in the table, unless another file has   *)
(* it, too.                                                                *)
THEOREM ReadsStay == Spec => []CompletedIsThere
<1>1. KeptInv => CompletedIsThere
  BY DEF KeptInv
<1> QED
  BY <1>1, Reads, PTL

(* As long as imports follow one another, an import that completes owns    *)
(* the valid records it read and no others, and no completed or superseded *)
(* import of its file owns any: _replace_previous_import leaves only rows  *)
(* of jobs that failed or were given up (services/voter_history_service).  *)
THEOREM ReplacementsAreExact == Spec => ReplacesExactly
<1> DEFINE Exact ==
      \A j \in Imports : ~spent.overlap /\ Finishes(j) =>
        /\ {k \in Keys : owner'[k] = j} = kept[j]
        /\ \A k \in Keys : LET i == owner'[k] IN
             i \notin {"none", j} /\ FileOf[i] = FileOf[j]
               => status'[i] \notin {"completed", "superseded"}
<1>1. TypeOK /\ LifeInv /\ TurnInv /\ KeptInv /\ [Next]_vars => [Exact]_vars
  <2> SUFFICES ASSUME TypeOK, LifeInv, TurnInv, KeptInv, Next,
                      NEW j \in Imports, ~spent.overlap, Finishes(j)
               PROVE  /\ {k \in Keys : owner'[k] = j} = kept[j]
                      /\ \A k \in Keys : LET i == owner'[k] IN
                           i \notin {"none", j} /\ FileOf[i] = FileOf[j]
                             => status'[i] \notin {"completed", "superseded"}
    BY DEF vars
  <2>1. pc[j] = "replace" /\ pc'[j] = "done" /\ status'[j] = "completed"
    BY DEF Finishes
  <2>2. status[j] # "completed"
    BY <2>1 DEF KeptInv, CompletedAreDone
  <2>t. /\ owner \in [Keys -> Imports \cup {"none"}] /\ status \in [Imports -> Status]
        /\ pc \in [Imports -> LivePcs \cup {"idle", "done"}]
        /\ kept \in [Imports -> SUBSET Keys] /\ earlier \in [Imports -> SUBSET Imports]
        /\ marks \in [Imports -> SUBSET Imports]
    BY DEF TypeOK
  (* Only a replacement completes an import.                               *)
  <2>3. Replace(j)
    <3>1. ASSUME NEW i \in Imports, Create(i) \/ Begin(i) \/ Loaded(i) \/ SelectPrevious(i)
          PROVE  FALSE
      BY <2>1, <2>t, <3>1 DEF Create, Begin, Loaded, SelectPrevious, Select, Goto
    <3>2. ASSUME NEW i \in Imports, Chunk(i) \/ Raise(i) \/ Failed(i) PROVE FALSE
      BY <2>1, <2>t, <3>2 DEF Chunk, Raise, Failed, Goto
    <3>3. ASSUME NEW i \in Imports, Lose(i) \/ Cancelled(i) PROVE FALSE
      BY <2>1, <2>2, <3>3 DEF Lose, Cancelled
    <3>4. ASSUME NEW i \in Imports, Replace(i) PROVE i = j
      BY <2>1, <2>t, <3>4 DEF Replace, Goto
    <3>5. CASE Stop \/ Crash \/ Exit \/ BootUnrecovered
      BY <2>1, <2>2, <3>5 DEF Stop, Crash, Exit, Die, BootUnrecovered
    <3>6. CASE Boot \/ CleanupAbandonedJobs
      BY <2>1, <3>6 DEF Boot, CleanupAbandonedJobs
    <3> QED
      BY <3>1, <3>2, <3>3, <3>4, <3>5, <3>6 DEF Next, Step
  <2>4. /\ \A k \in Keys : owner'[k] = IF owner[k] \in earlier[j] THEN "none" ELSE owner[k]
        /\ \A i \in Imports \ {j} : status'[i] = IF i \in marks[j] THEN "superseded" ELSE status[i]
    BY <2>3, <2>t DEF Replace, StaleRows
  <2>5. j \notin earlier[j] /\ j # "none" /\ marks[j] \subseteq earlier[j]
    BY HistoryAssumption DEF LifeInv, EarlierAreOver, MarksAreListed
  <2>6. {k \in Keys : owner'[k] = j} = kept[j]
    <3>1. \A k \in Keys : owner'[k] = j <=> owner[k] = j
      BY <2>4, <2>5
    <3>2. \A k \in Keys : owner[k] = j <=> k \in kept[j]
      BY <2>1, <2>5 DEF KeptInv, RowsAreRead, OwnsItsReads
    <3> QED
      BY <2>t, <3>1, <3>2
  <2>7. ASSUME NEW k \in Keys, owner'[k] \notin {"none", j}, FileOf[owner'[k]] = FileOf[j]
        PROVE  status'[owner'[k]] \notin {"completed", "superseded"}
    <3>1. PICK i \in Imports \ {j} : i = owner'[k] /\ i \notin earlier[j]
      BY <2>4, <2>7, <2>t
    <3>2. status'[i] = status[i]
      BY <2>4, <2>5, <3>1
    <3> QED
      BY <2>1, <2>7, <3>1, <3>2 DEF TurnInv, ListIsWhole, SameFile
  <2> QED
    BY <2>6, <2>7
<1> QED
  BY <1>1, HistoryTypes, Lives, Turns, Reads, PTL DEF Spec, ReplacesExactly
================================================================================
