----------------------------- MODULE ElectionAnswers -----------------------------
(***************************************************************************)
(* What the public endpoints of the elections answer while admins and the  *)
(* refresh loop write.  An answer is put together from several statements, *)
(* each of which sees what is committed when it runs; how long clients and *)
(* proxies may keep it (Cache-Control) depends on the election's status.   *)
(* Results are a version: a refresh writes an election's statewide and     *)
(* county rows in one transaction.  The update endpoint leaves an          *)
(* election's date and district type alone: an import or a back-fill that  *)
(* changes them counts as one election that goes and one that comes.       *)
(***************************************************************************)
EXTENDS Naturals, FiniteSets

CONSTANTS
  Elections,
  DateOf,      \* the date of each, a number
  TypeOf,      \* the district_type of each, None when it could not be parsed
  None,
  Readers,
  MaxVersion,  \* bound: times an election's results are refreshed
  MaxEdits     \* bound: changes of a status, and deletions

VARIABLES
  election,   \* the rows: [live, active, results, closed (the results when it was last finalized)]
  answer,     \* the answer each reader is being given
  options,    \* the filter options being put together
  edits

vars == <<election, answer, options, edits>>

Live == {e \in Elections : election[e].live}

RaceCategoryMap ==
  [federal |-> {"congressional"}, state_senate |-> {"state_senate"}, state_house |-> {"state_house"}]
NonLocalTypes == UNION {RaceCategoryMap[c] : c \in DOMAIN RaceCategoryMap}
Categories == DOMAIN RaceCategoryMap \cup {"local"}

AnswersAssumption ==
  /\ DateOf \in [Elections -> Nat] /\ Elections \subseteq DOMAIN TypeOf
  /\ MaxVersion \in Nat /\ MaxEdits \in Nat /\ None \notin NonLocalTypes \cup {"minute", "day"}

NoAnswer  == [step |-> "none", kind |-> None, of |-> None, active |-> None, closed |-> 0,
              statewide |-> None, counties |-> None, keep |-> None, decided |-> 0]
NoOptions == [step |-> 0, categories |-> {}, dates |-> {}, total |-> 0, alone |-> TRUE]

Init ==
  /\ election = [e \in Elections |-> [live |-> FALSE, active |-> TRUE, results |-> 0, closed |-> 0]]
  /\ answer = [r \in Readers |-> NoAnswer]
  /\ options = NoOptions
  /\ edits = 0

-----------------------------------------------------------------------------
(* The writers.  Elections that appear or go while filter options are put  *)
(* together leave them incomplete.                                         *)
Appears == options' = [options EXCEPT !.alone = FALSE]

Create(e) ==
  /\ ~election[e].live /\ election[e].results = 0
  /\ \E active \in BOOLEAN : election' = [election EXCEPT ![e].live = TRUE, ![e].active = active]
  /\ Appears /\ UNCHANGED <<answer, edits>>

Edit == edits < MaxEdits /\ edits' = edits + 1

UpdateStatus(e) ==
  /\ e \in Live /\ Edit
  /\ election' = [election EXCEPT ![e].active = ~@,
                          ![e].closed = IF election[e].active THEN election[e].results ELSE @]
  /\ UNCHANGED <<answer, options>>

SoftDelete(e) ==
  /\ e \in Live /\ Edit
  /\ election' = [election EXCEPT ![e].live = FALSE]
  /\ Appears /\ UNCHANGED answer

(* A refresh commits; it may have begun before the election was deleted or *)
(* finalized, and an admin may refresh a finalized one.                    *)
Refresh(e) ==
  /\ election[e].results < MaxVersion
  /\ e \in Live \/ election[e].results > 0
  /\ election' = [election EXCEPT ![e].results = @ + 1]
  /\ UNCHANGED <<answer, options, edits>>

-----------------------------------------------------------------------------
(* Results: get_election_by_id, its results (a second statement), the      *)
(* county rows (a third), and the header.  The county GeoJSON endpoint     *)
(* looks the election up once more for the header.                         *)
Set(r, new) == answer' = [answer EXCEPT ![r] = new]

ReadElection(r) ==
  /\ answer[r].step = "none"
  /\ \E e \in Live, kind \in {"json", "counties", "precincts"} :
       Set(r, [NoAnswer EXCEPT !.step = IF kind = "json" THEN "statewide" ELSE "counties",
                              !.kind = kind, !.of = e,
                               !.active = election[e].active, !.closed = election[e].closed])
  /\ UNCHANGED <<election, options, edits>>

ReadStatewide(r) ==
  /\ answer[r].step = "statewide"
  /\ Set(r, [answer[r] EXCEPT !.step = "counties", !.statewide = election[answer[r].of].results])
  /\ UNCHANGED <<election, options, edits>>

ReadCounties(r) ==
  /\ answer[r].step = "counties"
  /\ Set(r, [answer[r] EXCEPT !.step = "respond", !.counties = election[answer[r].of].results])
  /\ UNCHANGED <<election, options, edits>>

(* The rows the header may go by: the one in the answer or, looked up      *)
(* again, one that may have been deleted by now; the session may still     *)
(* hold the row it read first, and then keeps that.                        *)
InAnswer(r) == [active |-> answer[r].active, closed |-> answer[r].closed]
LookedUp(r) ==
  LET e == answer[r].of
      now == [active |-> e \in Live /\ election[e].active, closed |-> election[e].closed]
  IN  IF e \in Live THEN {now, InAnswer(r)} ELSE {now}
Decides(r) == IF answer[r].kind = "counties" THEN LookedUp(r) ELSE {InAnswer(r)}

Respond(r) ==
  /\ answer[r].step = "respond"
  /\ \E row \in Decides(r) :
       Set(r, [answer[r] EXCEPT !.step = "done", !.keep = IF row.active THEN "minute" ELSE "day",
                              !.decided = row.closed])
  /\ UNCHANGED <<election, options, edits>>

Again(r) ==
  /\ answer[r].step = "done"
  /\ Set(r, NoAnswer)
  /\ UNCHANGED <<election, options, edits>>

-----------------------------------------------------------------------------
(* list_elections with a race category: a comparison with a NULL type is   *)
(* neither true nor false, so local asks for it by name.                   *)
ListedKnown(c) == {e \in Live : TypeOf[e] # None /\ IF c = "local" THEN TypeOf[e] \notin NonLocalTypes
                                                   ELSE TypeOf[e] \in RaceCategoryMap[c]}
Listed(c) == {e \in Live : IF c = "local" THEN TypeOf[e] = None \/ TypeOf[e] \notin NonLocalTypes
                           ELSE TypeOf[e] \in RaceCategoryMap[c]}

(* get_filter_options: the types, mapped to categories; the dates; the     *)
(* number of elections.                                                    *)
OfferedCategories(types) ==
  {c \in DOMAIN RaceCategoryMap : RaceCategoryMap[c] \cap types # {}}
    \cup (IF None \in types \/ types \ (NonLocalTypes \cup {None}) # {} THEN {"local"} ELSE {})

ReadTypes ==
  /\ options.step = 0
  /\ options' = [NoOptions EXCEPT !.step = 1,
                              !.categories = OfferedCategories({TypeOf[e] : e \in Live})]
  /\ UNCHANGED <<election, answer, edits>>

ReadDates ==
  /\ options.step = 1
  /\ options' = [options EXCEPT !.step = 2, !.dates = {DateOf[e] : e \in Live}]
  /\ UNCHANGED <<election, answer, edits>>

ReadTotal ==
  /\ options.step = 2
  /\ options' = [options EXCEPT !.step = 3, !.total = Cardinality(Live)]
  /\ UNCHANGED <<election, answer, edits>>

(* The options are in a client's hands; another client asks.               *)
Offered ==
  /\ options.step = 3
  /\ options' = NoOptions
  /\ UNCHANGED <<election, answer, edits>>

Next ==
  \/ ReadTypes \/ ReadDates \/ ReadTotal \/ Offered
  \/ \E e \in Elections : Create(e) \/ UpdateStatus(e) \/ SoftDelete(e) \/ Refresh(e)
  \/ \E r \in Readers : \/ ReadElection(r) \/ ReadStatewide(r) \/ ReadCounties(r)
                        \/ Respond(r) \/ Again(r)

Spec == Init /\ [][Next]_vars

-----------------------------------------------------------------------------
(* An answer that may be kept for a day is not older than the results the  *)
(* election had when it was last finalized before the answer was begun,    *)
(* nor, but for the county GeoJSON's second look, than those of the        *)
(* finalization it is kept for.                                            *)
Behind(r, n) == \/ answer[r].counties < n
                \/ answer[r].statewide # None /\ answer[r].statewide < n
DayCachedIsFinal ==
  \A r \in Readers : answer[r].keep = "day" =>
    /\ ~Behind(r, answer[r].closed)
    /\ answer[r].kind # "counties" => ~Behind(r, answer[r].decided)

(* In one answer, the counties are never behind the statewide numbers.     *)
CountiesNotBehind ==
  \A r \in Readers : answer[r].statewide # None /\ answer[r].counties # None =>
    answer[r].statewide <= answer[r].counties

(* Unless elections came or went meanwhile, the offered categories are     *)
(* those a list would not be empty for, every election is in the list of   *)
(* one of them, and the total is the number the lists add up to.           *)
OptionsAreUseful ==
  options.step = 3 /\ options.alone =>
    /\ options.categories = {c \in Categories : Listed(c) # {}}
    /\ UNION {Listed(c) : c \in options.categories} = Live
    /\ \A b, c \in options.categories : b # c => Listed(b) \cap Listed(c) = {}
    /\ options.total = Cardinality(Live) /\ options.dates = {DateOf[e] : e \in Live}

AnswersHold == DayCachedIsFinal /\ CountiesNotBehind /\ OptionsAreUseful

(* Not so of the county GeoJSON endpoint: rows read before the election    *)
(* was finalized are kept for a day, the answer itself saying active.      *)
NothingOldForADay ==
  \A r \in Readers : answer[r].keep = "day" => ~Behind(r, answer[r].decided)
================================================================================
