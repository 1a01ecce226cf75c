---------------------------- MODULE MCTaskImages ----------------------------
(* An instance of TaskImages for TLC: one name that is reserved, deleted    *)
(* and discovered again, with two deletions at a time.                      *)
EXTENDS TaskImages

CONSTANTS i1, i2, i3, n1

OneName == [i \in Ids |-> n1]
=============================================================================
