----------------------------- MODULE MCDeployJob -----------------------------
(* Instances of DeployJob for TLC: every job targets the one host. *)
EXTENDS DeployJob, TLC

CONSTANTS j1, j2, h1, r1, r2, w1, w2

MCHosts == {h1}
OneHost == [j \in Jobs |-> h1]
OneEndpoint == [j \in Jobs |-> 3306]
TwoEndpoints == [j \in Jobs |-> IF j = j1 THEN 3306 ELSE 3307]
Interchangeable == Permutations({w1, w2}) \cup Permutations({r1, r2})
==============================================================================
