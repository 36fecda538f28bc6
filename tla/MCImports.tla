------------------------------- MODULE MCImports -------------------------------
(* Model-checking instance of what is imported.                            *)
EXTENDS ImportedRecords, TLC

CONSTANTS i1, i2, i3

(* Two imports of one history file, and another file with the same rows.   *)
TwoFiles == i1 :> "f" @@ i2 :> "f" @@ i3 :> "g"
Symmetry == Permutations(Keys)

(* Candidates: one file lists two people, and one of them again, withdrawn *)
(* before, under another spelling; the other file has one person twice, in *)
(* two spellings and from two counties.                                    *)
Filing(who, form, place, filing, site) ==
  [who |-> who, contest |-> "g", form |-> form, place |-> place, filing |-> filing, site |-> site]
CandidateFiles ==
  "j1" :> << <<Filing("p", 1, "x", "withdrawn", "w"), Filing("q", 1, "x", "qualified", "none")>>,
             <<Filing("p", 2, "y", "qualified", "none")>> >> @@
  "j2" :> << <<Filing("p", 2, "x", "deceased", "w"), Filing("p", 1, "y", "disqualified", "none"),
               Filing("q", 2, "x", "bad", "none")>> >>

AllFilings ==
  {Filing(who, form, place, filing, site) :
     who \in {"p", "q"}, form \in {1, 2}, place \in {"x", "y"}, site \in {"w", "none"},
     filing \in {"qualified", "withdrawn", "disqualified", "deceased", "bad"}}

(* The JSONL directory in four states: complete, with the optional columns *)
(* exchanged and a candidacy twice, with the candidacies corrected, and    *)
(* without its events.                                                     *)
Events == <<[id |-> "1", name |-> "a", url |-> "a"], [id |-> "2", name |-> "b"]>>
Persons == <<[id |-> "1", full_name |-> "a", bio |-> "a"], [id |-> "2", full_name |-> "a"]>>
Elections1 == <<[id |-> "1", name |-> "a", event |-> "1", url |-> "a"],
                [id |-> "2", name |-> "b", event |-> "placeholder", status |-> "b"]>>
Elections2 == <<[id |-> "1", name |-> "a", interval |-> "a"], [id |-> "2", name |-> "b"]>>
Candidacies1 ==
  <<[id |-> "1", candidate |-> "1", election |-> "2", party |-> "a"],
    [id |-> "2", candidate |-> "2", election |-> "2", order |-> "a", filing |-> "a"],
    [id |-> "1", candidate |-> "1", election |-> "2"]>>
Candidacies2 ==
  <<[id |-> "1", candidate |-> "1", election |-> "2"],
    [id |-> "2", candidate |-> "1", election |-> "2"]>>
Candidacies3 == <<[id |-> "2", candidate |-> "2", election |-> "2", incumbent |-> "a"]>>
FourStates ==
  {[events |-> Events, elections |-> Elections1, candidates |-> Persons,
    candidacies |-> Candidacies1],
   [events |-> Events, elections |-> Elections2, candidates |-> Persons,
    candidacies |-> Candidacies2],
   [candidacies |-> Candidacies3],
   [elections |-> Elections1, candidates |-> Persons, candidacies |-> <<>>]}

-----------------------------------------------------------------------------
(* Results: the preliminary file, which has an item twice, and the         *)
(* certified one, of two ballot items; elections of theirs in the tables.  *)
Item(id, name, district, options, votes, counties) ==
  [id |-> id, name |-> name, district |-> district, recount |-> FALSE, event |-> "ev",
   options |-> options, votes |-> votes, counties |-> counties]
Option(who, party, incumbent) == [who |-> who, party |-> party, incumbent |-> incumbent]
Null == "null"
District(type) == [type |-> type, party |-> Null, county |-> Null]
Ballot(votes) ==
  <<Item("a", "na", District("s5"), <<Option("p", "r", FALSE), Option("q", Null, TRUE)>>, votes, {"c"}),
    Item("b", "nb", District(Null), <<Option("p", "r", FALSE)>>, votes, {})>>
TwoReturns == "j1" :> Ballot("v1") @@ "j2" :> Append(Ballot("v0"), Ballot("v0")[1])
InTable(item) ==
  [item |-> item, type |-> "s5", party |-> Null, county |-> Null, recount |-> FALSE, last |-> <<"nobody", 0>>]
Tables == {<<>>, "nx" :> InTable(Null), "na" :> InTable(Null) @@ "nx" :> InTable(Null),
           "na" :> InTable(Null) @@ "nb" :> [InTable("b") EXCEPT !.type = Null],
           "na" :> InTable("a") @@ "nc" :> [InTable("a") EXCEPT !.party = "r", !.recount = TRUE]}
TwoKnown == <<"na", "p">> :> [party |-> Null, incumbent |-> TRUE] @@
            <<"na", "q">> :> [party |-> "d", incumbent |-> FALSE]
OneListed == {<<"na", "p">>}
TwoCalendars == {<<[name |-> "na", dates |-> [a |-> "x"]], [name |-> "nb", dates |-> [b |-> "x"]]>>,
                 <<[name |-> "na", dates |-> [a |-> "y"]]>>}

(* Resolution: on a day when two voters of different counties voted, an    *)
(* election with the boundary of one county, a district of that county, a  *)
(* district of the state, and a school board of which no county is known.  *)
Contest(by, type, number, length) ==
  [date |-> "d", type |-> "general", county |-> Null, town |-> Null, length |-> length, by |-> by,
   bounded |-> FALSE, home |-> Null,
   text |-> [type |-> type, number |-> number, party |-> Null, county |-> Null]]
Vote(county, voter) == [date |-> "d", type |-> "general", county |-> county, voter |-> voter]
Numbers(senate) ==
  [town |-> "t",
   district |-> [county_commission |-> "5", board_of_education |-> "5", state_senate |-> senate]]
FourContests == "e1" :> [Contest("manual", Null, Null, 3) EXCEPT !.home = "bibb"] @@
                "e2" :> [Contest("import", "county_commission", "5", 3) EXCEPT !.text.county = "bibb"] @@
                "e3" :> Contest("feed", "state_senate", "7", 2) @@
                "e4" :> Contest("results", "board_of_education", "5", 2)
TwoVotes == "r1" :> Vote("bibb", "v1") @@ "r2" :> Vote("clay", "v2")
TwoVoters == "v1" :> Numbers("7") @@ "v2" :> Numbers("8")
NoPsc == <<>>
TwoModes == {[force |-> FALSE, dry |-> FALSE, only |-> Null],
             [force |-> TRUE, dry |-> FALSE, only |-> "d"]}

-----------------------------------------------------------------------------
(* Boundaries: a shapefile without counties, one with a name in two        *)
(* counties, one whose record is not full, and one that has a name without *)
(* a county and then with one; a row from before counties.                 *)
Shape(ident, county, data, full) == [ident |-> ident, county |-> county, data |-> data, full |-> full]
Shapefiles ==
  {<<Shape("1", Nil, "a", TRUE)>>,
   <<Shape("1", "x", "b", TRUE), Shape("1", "y", "b", TRUE)>>,
   <<Shape("2", Nil, "c", TRUE), Shape("1", Nil, "d", FALSE)>>,
   <<Shape("1", Nil, "e", TRUE), Shape("1", "x", "f", TRUE)>>}

(* Absentee ballots: files that repeat each other's, their chunks' and a   *)
(* statement's keys, with an undated and an invalid record among them.     *)
Application(key, dated, data, ok) == [key |-> key, dated |-> dated, data |-> data, ok |-> ok]
AllApplications ==
  {Application(key, dated, data, ok) :
     key \in 1..3, dated \in BOOLEAN, data \in {"a", "b", "c", "d", "e", "f"}, ok \in BOOLEAN}
ThreeBallotFiles ==
  {<< <<Application(1, TRUE, "a", TRUE), Application(2, TRUE, "a", TRUE)>>,
      <<Application(1, TRUE, "b", TRUE), Application(3, FALSE, "a", TRUE)>> >>,
   << <<Application(2, TRUE, "c", TRUE), Application(1, TRUE, "c", TRUE),
        Application(2, TRUE, "d", TRUE)>>,
      <<Application(3, FALSE, "a", TRUE), Application(3, TRUE, "a", FALSE)>> >>,
   << <<Application(1, TRUE, "e", TRUE), Application(1, TRUE, "f", TRUE)>> >>}
================================================================================
