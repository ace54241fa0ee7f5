--------------------------------- MODULE Ledger --------------------------------
(***************************************************************************)
(* Database instances and replication clusters (dbmgr/services.py): the    *)
(* forms that create, update and delete them and the links between them.   *)
(* Every request first reads and checks, then writes, without transactions  *)
(* or locks, so a check may be out of date when the write happens.          *)
(***************************************************************************)
EXTENDS FiniteSets

CONSTANTS
    Instances,   \* primary keys of DatabaseInstance rows; never used twice
    Clusters,    \* primary keys of DatabaseReplicationCluster rows; likewise
    Engines,
    Topologies,  \* "replication" and others, between which no link differs
    Requests,    \* requests in progress at a time
    None

VARIABLES
    inst,        \* the instances' rows; NoRow if there is none
    clus,        \* the clusters' rows; likewise
    issued,      \* primary keys handed out
    req,         \* how far each request has come
    edited,      \* history: clusters whose engine an update changed
    adopted,     \* history: instances that the creation of a cluster linked to it
    orphaned     \* history: instances that joined a cluster after the request
                 \* that deleted it found no members

vars == <<inst, clus, issued, req, edited, adopted, orphaned>>

--------------------------------------------------------------------------------
NoRow == [engine |-> None]
InstanceRows == [engine : Engines, topology : Topologies, cluster : Clusters \cup {None}]
ClusterRows == [engine : Engines, primary : Instances \cup {None}]

\* before: members of the cluster when the request that deletes it looked
Idle == [pc |-> "idle", id |-> None, row |-> NoRow, before |-> {}]

Exists(i) == inst[i] # NoRow
ClusterExists(c) == clus[c] # NoRow
Members(c) == {i \in Instances : Exists(i) /\ inst[i].cluster = c}

Init ==
    /\ inst = [i \in Instances |-> NoRow]
    /\ clus = [c \in Clusters |-> NoRow]
    /\ issued = {}
    /\ req = [r \in Requests |-> Idle]
    /\ edited = {}
    /\ adopted = {}
    /\ orphaned = {}

Begin(r, pc, id, row) ==
    /\ req[r] = Idle
    /\ req' = [req EXCEPT ![r] = [Idle EXCEPT !.pc = pc, !.id = id, !.row = row,
                                              !.before = IF pc = "drop" THEN Members(id) ELSE {}]]
    /\ UNCHANGED <<inst, clus, issued, edited, adopted, orphaned>>

End(r) == req' = [req EXCEPT ![r] = Idle]
Fail(r) == End(r) /\ UNCHANGED <<inst, clus, issued, edited, adopted, orphaned>>

--------------------------------------------------------------------------------
(* Clusters *)

\* The primary must exist and be of the cluster's engine; nothing asks for
\* its topology or for the cluster it belongs to.
PrimaryFits(p, e) == p # None => Exists(p) /\ inst[p].engine = e

CheckCreateCluster(r) ==
    \E c \in Clusters \ issued, e \in Engines, p \in Instances \cup {None} :
        /\ \A s \in Requests : req[s].id # c
        /\ PrimaryFits(p, e)
        /\ Begin(r, "insert cluster", c, [engine |-> e, primary |-> p])

CheckUpdateCluster(r) ==
    \E c \in Clusters, e \in Engines, p \in Instances \cup {None} :
        /\ ClusterExists(c)
        /\ PrimaryFits(p, e)
        /\ Begin(r, "save cluster", c, [engine |-> e, primary |-> p])

\* The foreign key to the primary instance is checked by the database.
WriteCluster(r) ==
    LET c == req[r].id  row == req[r].row IN
    /\ req[r].pc \in {"insert cluster", "save cluster"}
    /\ IF row.primary # None /\ ~Exists(row.primary)
       THEN Fail(r)
       ELSE /\ clus' = [clus EXCEPT ![c] = row]
            /\ issued' = issued \cup {c}
            /\ edited' = IF req[r].pc = "save cluster" /\ clus[c].engine # row.engine
                         THEN edited \cup {c} ELSE edited
            /\ IF req[r].pc = "insert cluster" /\ row.primary # None
               THEN req' = [req EXCEPT ![r].pc = "link"]
               ELSE End(r)
            /\ UNCHANGED <<inst, adopted, orphaned>>

\* UPDATE ... SET replication_cluster_id = c WHERE id = primary
LinkPrimary(r) ==
    LET c == req[r].id  p == req[r].row.primary IN
    /\ req[r].pc = "link"
    /\ IF Exists(p) /\ ClusterExists(c)
       THEN /\ inst' = [inst EXCEPT ![p].cluster = c]
            /\ adopted' = adopted \cup {p}
       ELSE UNCHANGED <<inst, adopted>>
    /\ End(r)
    /\ UNCHANGED <<clus, issued, edited, orphaned>>

CheckDeleteClusterAnyBug(r) ==
    \E c \in Clusters :
        /\ ClusterExists(c)
        /\ Begin(r, "drop", c, NoRow)

CheckDeleteCluster(r) ==
    \E c \in Clusters :
        /\ ClusterExists(c)
        /\ Members(c) = {}
        /\ Begin(r, "drop", c, NoRow)

\* on_delete=SET_NULL lets go of whoever joined since the check.
DropCluster(r) ==
    LET c == req[r].id IN
    /\ req[r].pc = "drop"
    /\ clus' = [clus EXCEPT ![c] = NoRow]
    /\ inst' = [i \in Instances |-> IF i \in Members(c) THEN [inst[i] EXCEPT !.cluster = None]
                                    ELSE inst[i]]
    /\ orphaned' = orphaned \cup (Members(c) \ req[r].before)
    /\ End(r)
    /\ UNCHANGED <<issued, edited, adopted>>

--------------------------------------------------------------------------------
(* Instances *)

\* _validate_instance_topology and the lookup of the cluster
AllowedAnyEngineBug(row) ==
    /\ row.topology = "replication" <=> row.cluster # None
    /\ row.cluster # None => ClusterExists(row.cluster)

Allowed(row) ==
    /\ row.topology = "replication" <=> row.cluster # None
    /\ row.cluster # None => ClusterExists(row.cluster) /\ clus[row.cluster].engine = row.engine

\* A replica's job makes the same choice when it is created and registers the
\* instance, in the same way, when it is done.
CheckCreateInstance(r) ==
    \E i \in Instances \ issued, row \in InstanceRows :
        /\ \A s \in Requests : req[s].id # i
        /\ Allowed(row)
        /\ Begin(r, "insert instance", i, row)

CheckUpdateInstance(r) ==
    \E i \in Instances, row \in InstanceRows :
        /\ Exists(i)
        /\ row.engine = inst[i].engine
        /\ Allowed(row)
        /\ Begin(r, "save instance", i, row)

\* The whole row is written; a row deleted since the check is inserted again.
WriteInstance(r) ==
    LET i == req[r].id  row == req[r].row IN
    /\ req[r].pc \in {"insert instance", "save instance"}
    /\ IF row.cluster # None /\ ~ClusterExists(row.cluster)
       THEN Fail(r)
       ELSE /\ inst' = [inst EXCEPT ![i] = row]
            /\ issued' = issued \cup {i}
            /\ adopted' = adopted \ {i}
            /\ orphaned' = orphaned \ {i}
            /\ End(r)
            /\ UNCHANGED <<clus, edited>>

\* delete_instance clears it as primary first, and the cascade does so again.
ReadInstance(r) ==
    \E i \in Instances :
        /\ Exists(i)
        /\ Begin(r, "unlink", i, NoRow)

WithoutPrimary(i) ==
    [c \in Clusters |-> IF ClusterExists(c) /\ clus[c].primary = i
                        THEN [clus[c] EXCEPT !.primary = None] ELSE clus[c]]

UnlinkPrimary(r) ==
    /\ req[r].pc = "unlink"
    /\ clus' = WithoutPrimary(req[r].id)
    /\ req' = [req EXCEPT ![r].pc = "delete"]
    /\ UNCHANGED <<inst, issued, edited, adopted, orphaned>>

DeleteInstance(r) ==
    /\ req[r].pc = "delete"
    /\ inst' = [inst EXCEPT ![req[r].id] = NoRow]
    /\ clus' = WithoutPrimary(req[r].id)
    /\ End(r)
    /\ UNCHANGED <<issued, edited, adopted, orphaned>>

Next ==
    \E r \in Requests :
        \/ CheckCreateCluster(r)
        \/ CheckUpdateCluster(r)
        \/ WriteCluster(r)
        \/ LinkPrimary(r)
        \/ CheckDeleteCluster(r)
        \/ DropCluster(r)
        \/ CheckCreateInstance(r)
        \/ CheckUpdateInstance(r)
        \/ WriteInstance(r)
        \/ ReadInstance(r)
        \/ UnlinkPrimary(r)
        \/ DeleteInstance(r)

Spec == Init /\ [][Next]_vars

--------------------------------------------------------------------------------
(* Properties *)

TypeOK ==
    /\ inst \in [Instances -> InstanceRows \cup {NoRow}]
    /\ clus \in [Clusters -> ClusterRows \cup {NoRow}]
    /\ issued \subseteq Instances \cup Clusters
    /\ edited \subseteq Clusters
    /\ adopted \subseteq Instances
    /\ orphaned \subseteq Instances
    /\ \A r \in Requests :
        /\ req[r].id \in Instances \cup Clusters \cup {None}
        /\ req[r].row \in InstanceRows \cup ClusterRows \cup {NoRow}
        /\ req[r].before \subseteq Instances

\* create_instance, update_instance and the cluster forms each compare engines
\* when they read: in spite of everything that may happen before they write, a
\* cluster, its members and its primary are of one engine, as long as nobody
\* edits the engine of the cluster itself, which no form refuses.
EngineAgrees ==
    \A c \in Clusters \ edited : ClusterExists(c) =>
        /\ \A i \in Members(c) : inst[i].engine = clus[c].engine
        /\ LET p == clus[c].primary IN
           p # None => Exists(p) /\ inst[p].engine = clus[c].engine

\* _validate_instance_topology: an instance names a cluster exactly if it is
\* part of a replication.  Only two things undo that: the cluster's form takes
\* whatever instance is chosen as its primary, and a cluster is deleted in
\* spite of members that joined after the request had found none.
MembershipFits ==
    \A i \in Instances : Exists(i) =>
        \/ inst[i].topology = "replication" <=> inst[i].cluster # None
        \/ i \in adopted \cup orphaned
================================================================================
