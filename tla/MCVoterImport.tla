---------------------------- MODULE MCVoterImport ----------------------------
(* Model-checking instance of VoterImport: two counties, the first imported *)
(* by the server and the second by a command line, perhaps with a limit.    *)
EXTENDS VoterImport, TLC
CONSTANTS x, y, i1, i2
TwoCounties == i1 :> x @@ i2 :> y
=============================================================================
