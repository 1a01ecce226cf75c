----------------------------- MODULE MCJobStore -----------------------------
(* Instances of JobStore for TLC.  Each cfg bounds the environment to what *)
(* its question needs.                                                     *)
EXTENDS JobStore, TLC

CONSTANTS p1, p2, s1, s2

SessionSymmetry == Permutations(Sessions)

Free  == [queued |-> 0, concurrent |-> 0, gpus |-> 0]
NoLicenceLimit == [nodes |-> 0, gpus |-> 0, expired |-> FALSE]
AnyLicence == {NoLicenceLimit}

(* Takeover: two jobs on one node, of two projects, one retried once.      *)
OneProject  == [j \in Jobs |-> p1]
TwoProjects == [j \in Jobs |-> IF j = 1 THEN p1 ELSE p2]
OneGpuEach == [j \in Jobs |-> 1]
RetryFirst == [j \in Jobs |-> IF j = 1 THEN 1 ELSE 0]
NoQuota    == {Free}
NoRetry    == [j \in Jobs |-> 0]

(* Placement: a later job may fit where an earlier, larger one does not.   *)
LargeFirst == [j \in Jobs |-> IF j = 1 THEN 2 ELSE 1]

(* Sharing: jobs for one, two, one and no GPU.                             *)
MixedGpus == [j \in Jobs |-> CASE j = 2 -> 2 [] j = 4 -> 0 [] OTHER -> 1]

(* Quotas: limits that are set when the default project already has jobs.  *)
Tightened == {[queued |-> 1, concurrent |-> 1, gpus |-> 0],
              [queued |-> 1, concurrent |-> 0, gpus |-> 1]}

(* Licences: one whose GPUs two nodes can outgrow, one for a single node,  *)
(* and an expired one.                                                     *)
Renewals == {[nodes |-> 2, gpus |-> 3, expired |-> FALSE],
             [nodes |-> 1, gpus |-> 0, expired |-> FALSE],
             [nodes |-> 0, gpus |-> 0, expired |-> TRUE]}
=============================================================================
