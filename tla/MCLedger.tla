-------------------------------- MODULE MCLedger -------------------------------
(* The ledger for TLC.  One behaviour is about the tables below an instance  *)
(* (Members), another about instances and clusters (Ledger), a third about    *)
(* the deployment of a replica, up to its row (Replica): they share no row    *)
(* but the instance's existence, which each of them models, so that their     *)
(* states can be added instead of multiplied.  All model values but None are  *)
(* interchangeable.                                                           *)
EXTENDS Ledger, Naturals, TLC

CONSTANTS MaxRows, MaxRuns

ASSUME LedgerAssumption ==
    /\ IsFiniteSet(Instances) /\ IsFiniteSet(Requests) /\ MaxRows \in Nat /\ MaxRuns \in Nat
    /\ None \notin Instances \cup Clusters \cup Engines
    /\ Instances \cap Clusters = {}
    /\ "replication" \in Topologies

VARIABLES
    area,
    kind, live, row, used, rowReq, disturbed,
    status, steps, form, params, master, target, registered, instance, runs, late

memberVars == <<kind, live, row, used, rowReq, disturbed>>
replicaVars == <<status, steps, form, params, master, target, registered, instance, runs, late>>

M == INSTANCE Members WITH req <- rowReq
R == INSTANCE Replica

\* A part that a behaviour is not about starts in one state.
MCInit ==
    /\ M!Init /\ Init /\ R!Init
    /\ area \in {"members", "links", "replica"}
    /\ area # "members" => kind = "nodes"
    /\ area # "replica" => master = [sid |-> "derived", root |-> FALSE, node |-> FALSE]

MCNext ==
    \/ area = "members" /\ M!Next /\ UNCHANGED <<area, vars, replicaVars>>
    \/ area = "links" /\ Next /\ UNCHANGED <<area, memberVars, replicaVars>>
    \/ area = "replica" /\ R!Next /\ UNCHANGED <<area, vars, memberVars>>

MCSpec == MCInit /\ [][MCNext]_<<area, memberVars, vars, replicaVars>>

Symmetry == Permutations(Instances) \cup Permutations(Clusters)
            \cup Permutations(Engines) \cup Permutations(Requests)

\* Every row, request and replica job of the three parts has its type.
RowsTyped == M!TypeOK /\ TypeOK /\ R!TypeOK

\* The properties of Members and Replica, as they are stated there.
SinglePrimary == M!SinglePrimary
OneDefault == M!OneDefault
OwnServerId == R!OwnServerId
RegisteredLast == R!RegisteredLast
================================================================================
