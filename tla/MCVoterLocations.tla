--------------------------- MODULE MCVoterLocations ---------------------------
(* Model-checking instances of VoterLocations. *)
EXTENDS VoterLocations, TLC

MCConfidence == [s \in Sources |-> CASE s = "census" -> 2 [] s = "nominatim" -> 1 [] OTHER -> 0]

(* A voter that was never geocoded, and one known to every source.         *)
NoneOrAll == {{}, Sources}

Req(op, srcs, prim) == [op |-> op, srcs |-> srcs, prim |-> prim]

Stores  == {Req("store", <<s>>, FALSE) : s \in Providers}
Manuals == {Req("manual", <<s>>, p) : s \in Manual, p \in BOOLEAN}
Choices == {Req("primary", <<s>>, FALSE) : s \in Sources}
Admin   == {Req("override", <<o>>, FALSE) : o \in Overrides} \cup {Req("clear", <<>>, FALSE)}

(* geocode_voter_all_providers stores several locations in a transaction.  *)
AllProviders == {Req("store", <<"census", "nominatim">>, FALSE)}

Everyone == Stores \cup AllProviders \cup Manuals \cup Choices \cup Admin

Symmetry == Permutations(Txs)
=============================================================================
