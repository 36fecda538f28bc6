------------------------------- MODULE MCRecords -------------------------------
(* Model-checking instance of the task runner and the record keeping.      *)
EXTENDS RecordKeeping, TLC

CONSTANTS t1, t2, t3, t4, bd1, mt1, fi1, el1, ann, cy, ur1, ur2

(* An agenda of two items; a meeting with a file; an item with an embed.   *)
ThreeTrees == {{ann, bd1, mt1, 1, 2}, {ann, cy, bd1, mt1, fi1}, {ann, bd1, mt1, 1, el1}}

(* A provider that lists two people, one or none.                         *)
OneProvider == <<{1, 2}>>

(* A second feed that has the first one's counties.                        *)
SameCounties == (ur1 :> {1, 2}) @@ (ur2 :> {1, 2})
================================================================================
