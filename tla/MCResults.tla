------------------------------ MODULE MCResults ------------------------------
(* An instance of Results: one job with one retry.                         *)
EXTENDS Results, TLC

CONSTANTS j1

RetryOnce == [j \in {j1} |-> 1]

UploadSymmetry == Permutations(Uploads)
=============================================================================
