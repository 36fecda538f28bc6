------------------------- MODULE MCVoterHistoryImport -------------------------
(* Model-checking instances of VoterHistoryImport: a file imported twice by *)
(* the server and a command line, and another file with the same records.   *)
EXTENDS VoterHistoryImport, TLC
CONSTANTS i1, i2, i3
TwoFiles == i1 :> "f" @@ i2 :> "f" @@ i3 :> "g"
Symmetry == Permutations(Keys)
=============================================================================
