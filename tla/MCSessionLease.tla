--------------------------- MODULE MCSessionLease ---------------------------
(* An instance of SessionLease for TLC: two sessions of one node, and time  *)
(* for each to be renewed, to lapse and to be replaced.                     *)
EXTENDS SessionLease, TLC

CONSTANTS s1, s2

SessionSymmetry == Permutations(Sessions)
=============================================================================
