----------------------------- MODULE DistrictChecks -----------------------------
(***************************************************************************)
(* Two answers to one question, whether a voter lives in the districts it  *)
(* is registered in.  The analyzer's comparator looks up the boundaries    *)
(* around the official point and compares identifiers; the batch check     *)
(* looks up the boundaries that the registration names and asks which      *)
(* points lie inside.  Each has its own rules for identifiers that are     *)
(* written differently: zero padding ("8", "008") for districts, a county  *)
(* FIPS prefix ("HO3", "021HO3") for precincts.                            *)
(***************************************************************************)
EXTENDS Naturals, FiniteSets

CONSTANTS Points,        \* where a geocoder may have put the voter
          Numbers,       \* district numbers, below 10
          Widths,        \* digits a district identifier is padded to
          Names,         \* precinct names, integers in alphabetical order
          Counties,      \* integers in the order of their FIPS code
          None

Types == {"district", "precinct"}
Bare  == 0   \* a precinct identifier without the FIPS prefix

(* Rows of the boundaries table; the geometry is the points inside.        *)
Districts  == [type : {"district"}, number : Numbers, width : Widths, county : Counties,
               inside : SUBSET Points]
Precincts  == [type : {"precinct"}, number : Names, width : Counties \cup {Bare},
               county : Counties, inside : SUBSET Points]
Identifier(b) == <<b.type, b.number, b.width>>

ChecksAssumption ==
  /\ Numbers \cup Widths \cup Names \cup Counties \subseteq Nat
  /\ None \notin [number : Numbers \cup Names, width : Widths \cup Counties \cup {Bare}]

UniqueRows(B) == \A b, c \in B : Identifier(b) = Identifier(c) /\ b.county = c.county => b = c

VARIABLES
  boundaries, \* the boundaries table
  registered, \* district and precinct of the registration: [number, width], None if absent
  home,       \* voters.county
  located,    \* the points of the voter's locations; the official one is among them
  official,
  compared,   \* the comparator's answer, None before it is asked
  checked     \* the batch check's answer, None before it is asked

inputs == <<boundaries, registered, home, located, official>>
vars   == <<inputs, compared, checked>>

(* At most two rows are in play at a time.                                 *)
Init == /\ boundaries \in {{b, c} : b, c \in Districts \cup Precincts}
        /\ UniqueRows(boundaries)
        /\ registered \in [district : [number : Numbers, width : {1, 2}] \cup {None},
                           precinct : [number : Names, width : {Bare}] \cup {None}]
        /\ home \in Counties
        /\ located \in SUBSET Points
        /\ official \in located
        /\ compared = None
        /\ checked = None

Registered == {t \in Types : registered[t] # None}

-----------------------------------------------------------------------------
(* Strings compare: more leading zeros first, a FIPS prefix before a name. *)
Before(b, c) == IF b.type = "district"
                  THEN b.width > c.width \/ (b.width = c.width /\ b.number < c.number)
                  ELSE LET key(d) == (IF d.width = Bare THEN 100 ELSE d.width) * 100 + d.number
                       IN key(b) < key(c)

(* Of several boundaries of a type around a point, the lowest identifier.  *)
Around(p, t) == {b \in boundaries : b.type = t /\ p \in b.inside}
FindBoundariesForPoint(p) ==
  [t \in Types |-> IF Around(p, t) = {} THEN None
                   ELSE LET b == CHOOSE b \in Around(p, t) :
                                   ~\E c \in Around(p, t) : Before(c, b)
                        IN [number |-> b.number, width |-> b.width]]

(* Padding is dropped on both sides; the prefix is dropped if what follows *)
(* is the registered name.                                                 *)
SameIdentifier(t, determined, reg) == determined.number = reg.number

(* Wrong variant: identifiers compared as they are written.                *)
FromDeterminedVerbatim(determined) ==
  [determined |-> determined,
   mismatches |-> {t \in Registered : determined[t] # None /\ determined[t] # registered[t]}]

CompareBoundaries(determined) ==
  [determined |-> determined,
   mismatches |-> {t \in Registered : /\ determined[t] # None
                                      /\ ~SameIdentifier(t, determined[t], registered[t])}]

(* The status a result row gets.                                           *)
MatchStatus(c) ==
  CASE \A t \in Types : c.determined[t] = None -> "unable-to-analyze"
    [] OTHER -> CASE c.mismatches = {}           -> "match"
                  [] c.mismatches = Types        -> "mismatch-both"
                  [] c.mismatches = {"precinct"} -> "mismatch-precinct"
                  [] c.mismatches = {"district"} -> "mismatch-district"

Compare == /\ compared = None
           /\ compared' = CompareBoundaries(FindBoundariesForPoint(official))
           /\ UNCHANGED <<inputs, checked>>

-----------------------------------------------------------------------------
(* The rows that the registration of a type may mean: any padding up to    *)
(* three digits; a prefixed precinct of the voter's county.                *)
Candidates(t) ==
  {b \in boundaries : b.type = t /\ b.number = registered[t].number
                      /\ IF t = "district" THEN b.width \in 1..3
                         ELSE b.width # Bare /\ b.county = home}

(* Of several, the only one of the voter's county; else it is ambiguous.   *)
Lookup(t) == LET mine == {b \in Candidates(t) : b.county = home}
             IN IF Cardinality(Candidates(t)) = 1 THEN Candidates(t)
                ELSE IF Cardinality(mine) = 1 THEN mine ELSE {}

(* Per registered type, per location: is it inside, and where is it if not.*)
CheckBatchBoundaries ==
  [t \in Registered |->
     {[point |-> p, inside |-> p \in b.inside,
       determined |-> IF p \in b.inside THEN None ELSE FindBoundariesForPoint(p)[t]] :
        p \in located, b \in Lookup(t)}]

Check == /\ checked = None
         /\ checked' = CheckBatchBoundaries
         /\ UNCHANGED <<inputs, compared>>

Next == Compare \/ Check
Spec == Init /\ [][Next]_vars

-----------------------------------------------------------------------------
(* Boundaries of a type do not overlap.                                    *)
Partition == \A p \in Points, t \in Types : Cardinality(Around(p, t)) <= 1

(* Where they do not overlap the two answers never contradict each other:  *)
(* no district in which the batch check finds the official point is a      *)
(* mismatch of the comparison, a district it does not find it in is one    *)
(* with the identifier that the comparison reports, and a voter inside all *)
(* the districts of its registration gets the status match.                *)
AnswersAgree ==
  compared # None /\ checked # None /\ Partition =>
    LET Of(t) == {c \in checked[t] : c.point = official}
    IN /\ \A t \in Registered : \A c \in Of(t) :
            IF c.inside THEN t \notin compared.mismatches
            ELSE c.determined = compared.determined[t]
       /\ Registered # {} /\ (\A t \in Registered : \E c \in Of(t) : c.inside)
            => MatchStatus(compared) = "match"
=============================================================================
