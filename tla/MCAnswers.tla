------------------------------- MODULE MCAnswers -------------------------------
(* Model-checking instance of the batch geocoding jobs and the answers.    *)
EXTENDS PublicAnswers, TLC

CONSTANTS ea, eb, b1, b2, ca, cb

-----------------------------------------------------------------------------
(* An address under two providers, one of which places it outside Georgia; *)
(* a fallback order that begins with the batch job's provider and one that *)
(* does not.                                                               *)
TwoOrders  == {<<ca, cb>>, <<cb, ca, cb>>}
InOrOut    == {[rank |-> 0, inside |-> FALSE, score |-> 1], [rank |-> 1, inside |-> TRUE, score |-> 1]}
OneOfEach  == <<"single", "all", "batch", "verify">>
FirstOfTwo == 3 :> ca

(* Boundaries of two types in two places.                                  *)
TwoTypes  == b1 :> 1 @@ b2 :> 2
TwoPlaces == b1 :> ca @@ b2 :> cb

(* Two elections of a day, one of a district type nobody could parse.      *)
OneDay   == ea :> 1 @@ eb :> 1
OneKnown == ea :> "congressional" @@ eb :> Nil

(* Precincts that results and metadata name by id, by an id in lower case, *)
(* by none, and by a name that needs normalizing or says nothing.          *)
Votes(id, name, n) == [id |-> id, name |-> name, votes |-> n]
TwoFeeds ==
  {<< <<Votes("p1", "n1", 3), Votes("p2", "n2", 1)>>,
      <<Votes("p1", "n1", 2), Votes("P2", "n2", 1), Votes("p3", "n1b", 4)>> >>,
   << <<Votes("p2", "n1", 2), Votes("", "n2", 2)>>, <<Votes("p3", "--", 1), Votes("p2", "n2", 5)>> >>}
Upper     == [id \in {"p1", "p2", "P2", "p3", ""} |->
               CASE id = "p2" -> "P2" [] id = "" -> Nil [] OTHER -> id]
Normal    == "n1" :> "n1" @@ "n1b" :> "n1" @@ "n2" :> "n2" @@ "--" :> Nil
SomeNames == [pid : {"p1", "x"}, sos : {Nil, "P2"}, name : {"n1", "n2"}]
================================================================================
