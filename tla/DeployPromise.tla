----------------------------- MODULE DeployPromise -----------------------------
(***************************************************************************)
(* What a deployment promises whoever reads the ledger, whatever order     *)
(* requests and workers run in: a DatabaseInstance row appears only after  *)
(* every earlier step of its job has succeeded, each after the one before  *)
(* it, in this run or a resumed one; an endpoint has one row; and a job is *)
(* reported successful only once it is linked to its row.                  *)
(***************************************************************************)
EXTENDS Naturals

CONSTANTS Jobs, EndpointOf, NSteps

VARIABLES
    proven,  \* the steps of each job that have succeeded at some time
    rows,    \* jobs with a row in the ledger
    linked,  \* jobs that point to their row
    told     \* jobs reported successful

vars == <<proven, rows, linked, told>>

Init ==
    /\ proven = [j \in Jobs |-> {}]
    /\ rows = {}
    /\ linked = {}
    /\ told = {}

Prove(j, k) ==
    /\ 1..(k - 1) \subseteq proven[j]
    /\ k = NSteps => j \in linked
    /\ proven' = [proven EXCEPT ![j] = @ \cup {k}]
    /\ UNCHANGED <<rows, linked, told>>

Register(j) ==
    /\ 1..(NSteps - 1) \subseteq proven[j]
    /\ \A i \in rows : EndpointOf[i] # EndpointOf[j]
    /\ rows' = rows \cup {j}
    /\ UNCHANGED <<proven, linked, told>>

Link(j) ==
    /\ j \in rows
    /\ linked' = linked \cup {j}
    /\ UNCHANGED <<proven, rows, told>>

Tell(j) ==
    /\ 1..NSteps \subseteq proven[j]
    /\ told' = told \cup {j}
    /\ UNCHANGED <<proven, rows, linked>>

\* A report may be withdrawn, by a late request or by a second run of the job.
Withdraw(j) ==
    /\ told' = told \ {j}
    /\ UNCHANGED <<proven, rows, linked>>

Next == \E j \in Jobs :
    \/ \E k \in 1..NSteps : Prove(j, k)
    \/ Register(j)
    \/ Link(j)
    \/ Tell(j)
    \/ Withdraw(j)

Spec == Init /\ [][Next]_vars
================================================================================
