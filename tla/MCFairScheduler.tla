--------------------------- MODULE MCFairScheduler ---------------------------
(* An instance of FairScheduler for TLC: projects of different weights with *)
(* jobs of different sizes and priorities.                                  *)
EXTENDS FairScheduler

CONSTANTS p1, p2

EvenAndOdd == [j \in Jobs |-> IF j % 2 = 1 THEN p1 ELSE p2]
MixedGpus  == [j \in Jobs |-> CASE j = 2 -> 2 [] j = 4 -> 0 [] OTHER -> 1]
LaterFirst == [j \in Jobs |-> j]
=============================================================================
