--------------------------- MODULE MCImportBracket ---------------------------
(* Model-checking instances of ImportBracket: two brackets of the server    *)
(* and one of a command line, on a table that the boot verifies or not.     *)
EXTENDS ImportBracket, TLC
=============================================================================
