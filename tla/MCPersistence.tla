---------------------------- MODULE MCPersistence ----------------------------
(* Instances of Persistence for TLC: a job for two GPUs before a job for    *)
(* one, on a node that may lose a GPU; or two jobs for one GPU each, on two *)
(* nodes of two GPUs, whose agents therefore have two workers.              *)
EXTENDS Persistence, TLC

CONSTANTS p1, s1, s2

OneProject == [j \in Jobs |-> p1]
LargeFirst == [j \in Jobs |-> IF j = 1 THEN 2 ELSE 1]
OneGpuEach == [j \in Jobs |-> 1]
NoRetry    == [j \in Jobs |-> 0]
AnyQuota   == {Unlimited}
AnyLicence == {[nodes |-> 0, gpus |-> 0, expired |-> FALSE]}

SessionSymmetry == Permutations(Sessions)
=============================================================================
