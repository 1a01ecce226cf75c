------------------------------ MODULE MCAgent ------------------------------
(* Instances of Agent for TLC: a host where the process of session s2 may   *)
(* replace the process of session s1, and another host with session s3.     *)
EXTENDS Agent, TLC

CONSTANTS p1, s1, s2, s3, w1, w2, w3, w4

OneProject == [j \in Jobs |-> p1]
OneGpuEach == [j \in Jobs |-> 1]
NoRetry    == [j \in Jobs |-> 0]
AnyQuota   == {Unlimited}
AnyLicence == {[nodes |-> 0, gpus |-> 0, expired |-> FALSE]}

OneHost == [s \in Sessions |-> 1]

(* Two hosts: work taken back from the first may go to the other.           *)
TwoHosts == [s \in Sessions |-> IF s = s3 THEN 2 ELSE 1]

OneWorkerEach == [w \in Workers |-> IF w = w1 THEN s1 ELSE s2]

(* Two workers of s1 compete for work.                                      *)
TwoInFirst == [w \in Workers |-> CASE w \in {w1, w2} -> s1 [] w = w3 -> s2
                                    [] OTHER -> s3]
WorkerSymmetry == Permutations({w1, w2})
=============================================================================
