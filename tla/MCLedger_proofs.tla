------------------------------ MODULE MCLedger_proofs ----------------------------
(***************************************************************************)
(* Theorems about the ledger, for any instances, clusters and engines and   *)
(* any number of requests at a time: what Ledger promises, and that the     *)
(* composition keeps the promises of all its parts.                         *)
(***************************************************************************)
EXTENDS MCLedger, TLAPS

\* None is no key and no engine, and an instance's key is no cluster's.
Apart ==
    /\ None \notin Instances \cup Clusters \cup Engines
    /\ Instances \cap Clusters = {}

--------------------------------------------------------------------------------
(* Inductive invariants *)

InstanceForm(r) == req[r].pc \in {"insert instance", "save instance"}
ClusterForm(r) == req[r].pc \in {"insert cluster", "save cluster", "link"}

\* A request holds a row of the table that it writes to.
Holds(r) ==
    /\ InstanceForm(r) => req[r].id \in Instances /\ req[r].row \in InstanceRows
    /\ ClusterForm(r) => req[r].id \in Clusters /\ req[r].row \in ClusterRows
    /\ req[r].pc \in {"unlink", "delete"} => req[r].id \in Instances
    /\ req[r].pc = "drop" => req[r].id \in Clusters /\ req[r].before = {}
    /\ req[r].pc = "link" => req[r].row.primary # None

\* The fields of a request.
ReqState == [pc : {"idle", "insert cluster", "save cluster", "link", "drop",
                   "insert instance", "save instance", "unlink", "delete"},
             id : Instances \cup Clusters \cup {None},
             row : InstanceRows \cup ClusterRows \cup {NoRow},
             before : SUBSET Instances]

TypeInv ==
    /\ TypeOK
    /\ req \in [Requests -> ReqState]
    /\ \A r \in Requests : Holds(r)

\* Only keys that were handed out exist or are pointed at.
IssuedInv ==
    /\ \A i \in Instances : Exists(i) => i \in issued /\ inst[i].cluster \in issued \cup {None}
    /\ \A c \in Clusters : ClusterExists(c) =>
           c \in issued /\ clus[c].primary \in issued \cup {None}
    /\ \A r \in Requests :
        /\ InstanceForm(r) => req[r].row.cluster \in issued \cup {None}
        /\ ClusterForm(r) => req[r].row.primary \in issued \cup {None}

\* Each instance has one engine for all time, ie[i], and each cluster that no
\* form changed the engine of has ce[c]: rows and the forms that are about to
\* write them say the same.
InstanceTie(ie, ce, i) == Exists(i) =>
    /\ inst[i].engine = ie[i]
    /\ inst[i].cluster \in Clusters \ edited => ie[i] = ce[inst[i].cluster]
ClusterTie(ie, ce, c) == ClusterExists(c) =>
    /\ clus[c].primary # None => Exists(clus[c].primary) /\ ie[clus[c].primary] = clus[c].engine
    /\ c \notin edited => clus[c].engine = ce[c]
RequestTie(ie, ce, r) ==
    /\ InstanceForm(r) =>
        /\ req[r].row.engine = ie[req[r].id]
        /\ req[r].row.cluster \in Clusters \ edited => req[r].row.engine = ce[req[r].row.cluster]
    /\ ClusterForm(r) =>
        /\ req[r].row.primary # None => ie[req[r].row.primary] = req[r].row.engine
        /\ req[r].pc # "save cluster" /\ req[r].id \notin edited => req[r].row.engine = ce[req[r].id]
Ties(ie, ce) ==
    /\ \A i \in Instances : InstanceTie(ie, ce, i)
    /\ \A c \in Clusters : ClusterTie(ie, ce, c)
    /\ \A r \in Requests : RequestTie(ie, ce, r)
TieInv == \E ie \in [Instances -> Engines], ce \in [Clusters -> Engines] : Ties(ie, ce)

\* A row that a form is about to write fits the choice of topology.
FitInv ==
    /\ MembershipFits
    /\ \A r \in Requests : InstanceForm(r) =>
           (req[r].row.topology = "replication" <=> req[r].row.cluster # None)

IInv == TypeInv /\ IssuedInv /\ TieInv /\ FitInv

--------------------------------------------------------------------------------
(* Rows and requests *)

\* A row that is there is one of its table, and is told from a missing one by
\* its engine.
LEMMA Rows ==
    ASSUME Apart, TypeOK
    PROVE  /\ NoRow \notin InstanceRows \cup ClusterRows
           /\ \A i \in Instances : Exists(i) <=> inst[i] \in InstanceRows
           /\ \A c \in Clusters : ClusterExists(c) <=> clus[c] \in ClusterRows
           /\ \A c \in Clusters : ClusterExists(c) <=> clus[c].engine \in Engines
<1>1. \A x \in InstanceRows \cup ClusterRows : x.engine \in Engines
  BY DEF InstanceRows, ClusterRows
<1>2. NoRow.engine = None
  BY DEF NoRow
<1>3. NoRow \notin InstanceRows \cup ClusterRows
  BY <1>1, <1>2 DEF Apart
<1> QED
  BY <1>1, <1>2, <1>3 DEF TypeOK, Apart, Exists, ClusterExists

\* Begin changes one request, from idle, and nothing else.
LEMMA Begins ==
    ASSUME TypeInv, NEW r \in Requests, NEW pc, NEW id, NEW entry, Begin(r, pc, id, entry)
    PROVE  /\ req[r] = Idle
           /\ req'[r].pc = pc /\ req'[r].id = id /\ req'[r].row = entry
           /\ req'[r].before = IF pc = "drop" THEN Members(id) ELSE {}
           /\ \A s \in Requests \ {r} : req'[s] = req[s]
           /\ DOMAIN req' = DOMAIN req
           /\ UNCHANGED <<inst, clus, issued, edited, adopted, orphaned>>
  BY DEF Begin, TypeInv, ReqState, Idle

\* End puts one request back to idle.
LEMMA Ends ==
    ASSUME TypeInv, NEW r \in Requests, End(r)
    PROVE  /\ req' \in [Requests -> ReqState]
           /\ ~InstanceForm(r)' /\ ~ClusterForm(r)' /\ Holds(r)'
           /\ \A s \in Requests \ {r} : req'[s] = req[s]
  BY DEF End, TypeInv, ReqState, Idle, InstanceForm, ClusterForm, Holds

\* What is said of the next state follows from the lemma Rows as well.
LEMMA Others ==
    ASSUME NEW r \in Requests, NEW s \in Requests \ {r}, req'[s] = req[s]
    PROVE  /\ InstanceForm(s)' <=> InstanceForm(s)
           /\ ClusterForm(s)' <=> ClusterForm(s)
           /\ Holds(s)' <=> Holds(s)
  BY DEF InstanceForm, ClusterForm, Holds

--------------------------------------------------------------------------------
(* Types *)

LEMMA StepTypes == ASSUME Apart PROVE TypeInv /\ [Next]_vars => TypeInv'
<1> SUFFICES ASSUME TypeInv, [Next]_vars PROVE TypeInv'
  OBVIOUS
<1>a. ASSUME NEW r \in Requests, NEW pc \in {"insert cluster", "save cluster", "drop",
               "insert instance", "save instance", "unlink"},
             NEW id \in Instances \cup Clusters,
             NEW entry \in InstanceRows \cup ClusterRows \cup {NoRow}, Begin(r, pc, id, entry),
             pc \in {"insert instance", "save instance"} => id \in Instances /\ entry \in InstanceRows,
             pc \in {"insert cluster", "save cluster"} => id \in Clusters /\ entry \in ClusterRows,
             pc = "unlink" => id \in Instances,
             pc = "drop" => id \in Clusters /\ Members(id) = {}
      PROVE  TypeInv'
  <2>1. req' \in [Requests -> ReqState] /\ Holds(r)'
    <3>1. req' \in [Requests -> ReqState]
      BY <1>a DEF Begin, TypeInv, ReqState, Idle, Members
    <3>2. /\ req'[r].pc = pc /\ req'[r].id = id /\ req'[r].row = entry
          /\ pc = "drop" => req'[r].before = {}
      BY <1>a, Begins, ZenonT(30)
    <3>3. Holds(r)'
      BY <3>2, <1>a DEF Holds, InstanceForm, ClusterForm
    <3> QED
      BY <3>1, <3>3
  <2>2. \A s \in Requests : Holds(s)'
    BY <2>1, <1>a, Begins, Others DEF TypeInv
  <2>3. TypeOK'
    BY <2>1, <1>a, Begins DEF TypeInv, TypeOK, ReqState
  <2> QED
    BY <2>1, <2>2, <2>3 DEF TypeInv
<1>b. ASSUME NEW r \in Requests, End(r),
             inst' \in [Instances -> InstanceRows \cup {NoRow}],
             clus' \in [Clusters -> ClusterRows \cup {NoRow}],
             issued' \subseteq Instances \cup Clusters,
             edited' \subseteq Clusters, adopted' \subseteq Instances, orphaned' \subseteq Instances
      PROVE  TypeInv'
  <2>1. req' \in [Requests -> ReqState] /\ \A s \in Requests : Holds(s)'
    BY <1>b, Ends, Others DEF TypeInv
  <2> QED
    BY <2>1, <1>b DEF TypeInv, TypeOK, ReqState
<1>1. ASSUME NEW r \in Requests,
             CheckCreateCluster(r) \/ CheckUpdateCluster(r) \/ CheckDeleteCluster(r)
      PROVE  TypeInv'
  <2>1. CASE CheckCreateCluster(r)
    <3>1. PICK c \in Clusters, e \in Engines, p \in Instances \cup {None} :
              Begin(r, "insert cluster", c, [engine |-> e, primary |-> p])
      BY <2>1 DEF CheckCreateCluster
    <3>2. [engine |-> e, primary |-> p] \in ClusterRows
      BY DEF ClusterRows
    <3> QED
      BY <3>1, <3>2, <1>a
  <2>2. CASE CheckUpdateCluster(r)
    <3>1. PICK c \in Clusters, e \in Engines, p \in Instances \cup {None} :
              Begin(r, "save cluster", c, [engine |-> e, primary |-> p])
      BY <2>2 DEF CheckUpdateCluster
    <3>2. [engine |-> e, primary |-> p] \in ClusterRows
      BY DEF ClusterRows
    <3> QED
      BY <3>1, <3>2, <1>a
  <2>3. CASE CheckDeleteCluster(r)
    BY <2>3, <1>a DEF CheckDeleteCluster
  <2> QED
    BY <1>1, <2>1, <2>2, <2>3
<1>2. ASSUME NEW r \in Requests,
             CheckCreateInstance(r) \/ CheckUpdateInstance(r) \/ ReadInstance(r)
      PROVE  TypeInv'
  <2>1. CASE CheckCreateInstance(r)
    BY <2>1, <1>a DEF CheckCreateInstance
  <2>2. CASE CheckUpdateInstance(r)
    BY <2>2, <1>a DEF CheckUpdateInstance
  <2>3. CASE ReadInstance(r)
    BY <2>3, <1>a DEF ReadInstance
  <2> QED
    BY <1>2, <2>1, <2>2, <2>3
<1>3. ASSUME NEW r \in Requests, WriteCluster(r) PROVE TypeInv'
  <2> DEFINE c == req[r].id  entry == req[r].row
  <2>0. c \in Clusters /\ entry \in ClusterRows
    BY <1>3 DEF WriteCluster, TypeInv, Holds, ClusterForm
  <2>1. CASE Fail(r)
    BY <2>1, <1>b DEF Fail, TypeInv, TypeOK
  <2>2. CASE ~Fail(r)
    <3>1. /\ clus' = [clus EXCEPT ![c] = entry]
          /\ issued' = issued \cup {c}
          /\ edited' \in {edited, edited \cup {c}}
          /\ UNCHANGED <<inst, adopted, orphaned>>
          /\ \/ entry.primary # None /\ req' = [req EXCEPT ![r].pc = "link"]
             \/ End(r)
      BY <1>3, <2>2 DEF WriteCluster
    <3>2. CASE End(r)
      BY <3>1, <3>2, <2>0, <1>b DEF TypeInv, TypeOK
    <3>3. CASE entry.primary # None /\ req' = [req EXCEPT ![r].pc = "link"]
      <4>1. req' \in [Requests -> ReqState] /\ Holds(r)'
        BY <3>3, <2>0 DEF TypeInv, ReqState, Holds, InstanceForm, ClusterForm
      <4>2. \A s \in Requests : Holds(s)'
        BY <4>1, <3>3, Others DEF TypeInv
      <4> QED
        BY <4>1, <4>2, <3>1, <2>0 DEF TypeInv, TypeOK, ReqState
    <3> QED
      BY <3>1, <3>2, <3>3
  <2> QED
    BY <2>1, <2>2
<1>4. ASSUME NEW r \in Requests, LinkPrimary(r) PROVE TypeInv'
  <2>1. req[r].id \in Clusters /\ req[r].row.primary \in Instances
    BY <1>4 DEF LinkPrimary, TypeInv, Holds, ClusterForm, ClusterRows
  <2>2. inst' \in [Instances -> InstanceRows \cup {NoRow}]
    BY <1>4, <2>1, Rows DEF LinkPrimary, TypeInv, TypeOK, InstanceRows
  <2> QED
    BY <1>4, <2>1, <2>2, <1>b DEF LinkPrimary, TypeInv, TypeOK
<1>5. ASSUME NEW r \in Requests, DropCluster(r) PROVE TypeInv'
  <2>1. inst' \in [Instances -> InstanceRows \cup {NoRow}]
    BY <1>5, Rows DEF DropCluster, Members, TypeInv, TypeOK, InstanceRows
  <2> QED
    BY <1>5, <2>1, <1>b DEF DropCluster, Members, TypeInv, TypeOK
<1>6. ASSUME NEW r \in Requests, WriteInstance(r) PROVE TypeInv'
  <2>1. req[r].id \in Instances /\ req[r].row \in InstanceRows
    BY <1>6 DEF WriteInstance, TypeInv, Holds, InstanceForm
  <2>2. CASE Fail(r)
    BY <2>2, <1>b DEF Fail, TypeInv, TypeOK
  <2>3. CASE ~Fail(r)
    BY <1>6, <2>1, <2>3, <1>b DEF WriteInstance, TypeInv, TypeOK
  <2> QED
    BY <2>2, <2>3
<1>c. ASSUME NEW i \in Instances PROVE WithoutPrimary(i) \in [Clusters -> ClusterRows \cup {NoRow}]
  BY Rows DEF WithoutPrimary, TypeInv, TypeOK, ClusterRows
<1>7. ASSUME NEW r \in Requests, UnlinkPrimary(r) PROVE TypeInv'
  <2>1. req[r].id \in Instances
    BY <1>7 DEF UnlinkPrimary, TypeInv, Holds
  <2>2. req' \in [Requests -> ReqState] /\ Holds(r)'
    BY <1>7, <2>1 DEF UnlinkPrimary, TypeInv, ReqState, Holds, InstanceForm, ClusterForm
  <2>3. \A s \in Requests : Holds(s)'
    BY <2>2, <1>7, Others DEF UnlinkPrimary, TypeInv
  <2> QED
    BY <2>1, <2>2, <2>3, <1>c, <1>7 DEF UnlinkPrimary, TypeInv, TypeOK, ReqState
<1>8. ASSUME NEW r \in Requests, DeleteInstance(r) PROVE TypeInv'
  <2>1. req[r].id \in Instances
    BY <1>8 DEF DeleteInstance, TypeInv, Holds
  <2> QED
    BY <2>1, <1>8, <1>b, <1>c DEF DeleteInstance, TypeInv, TypeOK
<1>9. CASE UNCHANGED vars
  BY <1>9 DEF vars, TypeInv, TypeOK, Holds, InstanceForm, ClusterForm
<1> QED
  BY <1>1, <1>2, <1>3, <1>4, <1>5, <1>6, <1>7, <1>8, <1>9 DEF Next

--------------------------------------------------------------------------------
(* Keys *)

LEMMA StepIssued == ASSUME Apart PROVE TypeInv /\ IssuedInv /\ [Next]_vars => IssuedInv'
<1> SUFFICES ASSUME TypeInv, IssuedInv, [Next]_vars PROVE IssuedInv'
  OBVIOUS
<1> DEFINE FormOK(s) == /\ InstanceForm(s) => req[s].row.cluster \in issued \cup {None}
                        /\ ClusterForm(s) => req[s].row.primary \in issued \cup {None}
<1>a. ASSUME NEW r \in Requests, NEW pc, NEW id, NEW entry, Begin(r, pc, id, entry),
             pc \in {"insert instance", "save instance"} => entry.cluster \in issued \cup {None},
             pc \in {"insert cluster", "save cluster"} => entry.primary \in issued \cup {None},
             pc # "link"
      PROVE  IssuedInv'
  <2>1. /\ req'[r].pc = pc /\ req'[r].row = entry
        /\ \A s \in Requests \ {r} : req'[s] = req[s]
        /\ UNCHANGED <<inst, clus, issued>>
    BY <1>a, Begins
  <2>2. FormOK(r)'
    BY <2>1, <1>a DEF InstanceForm, ClusterForm
  <2>3. \A s \in Requests \ {r} : FormOK(s)'
    BY <2>1 DEF InstanceForm, ClusterForm, IssuedInv
  <2> QED
    BY <2>1, <2>2, <2>3 DEF IssuedInv, Exists, ClusterExists
<1>b. ASSUME NEW r \in Requests, End(r), issued \subseteq issued',
             \A i \in Instances : Exists(i)' =>
                 i \in issued' /\ inst'[i].cluster \in issued' \cup {None},
             \A c \in Clusters : ClusterExists(c)' =>
                 c \in issued' /\ clus'[c].primary \in issued' \cup {None}
      PROVE  IssuedInv'
  <2>1. ~InstanceForm(r)' /\ ~ClusterForm(r)'
    BY <1>b, Ends
  <2>2. \A s \in Requests \ {r} : FormOK(s)'
    BY <1>b, Ends DEF InstanceForm, ClusterForm, IssuedInv
  <2> QED
    BY <1>b, <2>1, <2>2 DEF IssuedInv
<1>1. ASSUME NEW r \in Requests,
             CheckCreateCluster(r) \/ CheckUpdateCluster(r) \/ CheckDeleteCluster(r)
      PROVE  IssuedInv'
  <2>1. ASSUME NEW c \in Clusters, NEW e \in Engines, NEW p \in Instances \cup {None},
               PrimaryFits(p, e), NEW pc \in {"insert cluster", "save cluster"},
               Begin(r, pc, c, [engine |-> e, primary |-> p])
        PROVE  IssuedInv'
    BY <2>1, <1>a DEF PrimaryFits, IssuedInv
  <2>2. CASE CheckDeleteCluster(r)
    BY <2>2, <1>a DEF CheckDeleteCluster
  <2> QED
    BY <1>1, <2>1, <2>2 DEF CheckCreateCluster, CheckUpdateCluster
<1>2. ASSUME NEW r \in Requests,
             CheckCreateInstance(r) \/ CheckUpdateInstance(r) \/ ReadInstance(r)
      PROVE  IssuedInv'
  <2>1. ASSUME NEW i \in Instances, NEW entry \in InstanceRows, Allowed(entry),
               NEW pc \in {"insert instance", "save instance"}, Begin(r, pc, i, entry)
        PROVE  IssuedInv'
    <3>1. entry.cluster \in issued \cup {None}
      BY <2>1 DEF Allowed, IssuedInv, InstanceRows
    <3> QED
      BY <2>1, <3>1, <1>a
  <2>2. CASE ReadInstance(r)
    BY <2>2, <1>a DEF ReadInstance
  <2> QED
    BY <1>2, <2>1, <2>2 DEF CheckCreateInstance, CheckUpdateInstance
<1>3. ASSUME NEW r \in Requests, WriteCluster(r) PROVE IssuedInv'
  <2> DEFINE c == req[r].id  entry == req[r].row
  <2>0. c \in Clusters /\ entry.primary \in issued \cup {None}
    BY <1>3 DEF WriteCluster, TypeInv, Holds, ClusterForm, IssuedInv
  <2>1. CASE Fail(r)
    BY <2>1, <1>b DEF Fail, IssuedInv, Exists, ClusterExists
  <2>2. CASE ~Fail(r)
    <3>1. /\ clus' = [clus EXCEPT ![c] = entry]
          /\ issued' = issued \cup {c}
          /\ inst' = inst
          /\ req' = [req EXCEPT ![r].pc = "link"] \/ End(r)
      BY <1>3, <2>2 DEF WriteCluster
    <3>2. /\ \A i \in Instances : Exists(i)' =>
                 i \in issued' /\ inst'[i].cluster \in issued' \cup {None}
          /\ \A d \in Clusters : ClusterExists(d)' =>
                 d \in issued' /\ clus'[d].primary \in issued' \cup {None}
      BY <3>1, <2>0 DEF TypeInv, TypeOK, IssuedInv, Exists, ClusterExists
    <3>3. CASE End(r)
      BY <3>1, <3>2, <3>3, <1>b
    <3>4. CASE req' = [req EXCEPT ![r].pc = "link"]
      <4>1. \A s \in Requests : FormOK(s)'
        <5>1. req \in [Requests -> ReqState]
          BY DEF TypeInv
        <5>2. /\ req'[r].pc = "link" /\ req'[r].row = req[r].row
              /\ \A s \in Requests \ {r} : req'[s] = req[s]
          BY <3>4, <5>1 DEF ReqState
        <5>3. req[r].row.primary \in issued' \cup {None}
          BY <2>0, <3>1
        <5>4. FormOK(r)'
          BY <5>2, <5>3 DEF InstanceForm, ClusterForm
        <5>5. \A s \in Requests \ {r} : FormOK(s)'
          BY <3>1, <5>2 DEF IssuedInv, InstanceForm, ClusterForm
        <5> QED
          BY <5>4, <5>5
      <4> QED
        BY <4>1, <3>2 DEF IssuedInv
    <3> QED
      BY <3>1, <3>3, <3>4
  <2> QED
    BY <2>1, <2>2
<1>4. ASSUME NEW r \in Requests, LinkPrimary(r) PROVE IssuedInv'
  <2>1. req[r].id \in Clusters /\ req[r].row.primary \in Instances
    BY <1>4 DEF LinkPrimary, TypeInv, Holds, ClusterForm, ClusterRows
  <2>2. CASE Exists(req[r].row.primary) /\ ClusterExists(req[r].id)
    <3>1. \A i \in Instances : Exists(i)' => i \in issued /\ inst'[i].cluster \in issued \cup {None}
      BY <1>4, <2>1, <2>2, Rows DEF LinkPrimary, TypeInv, TypeOK, IssuedInv, Exists, InstanceRows
    <3> QED
      BY <1>4, <3>1, <1>b DEF LinkPrimary, IssuedInv, ClusterExists
  <2>3. CASE ~(Exists(req[r].row.primary) /\ ClusterExists(req[r].id))
    BY <1>4, <2>3, <1>b DEF LinkPrimary, IssuedInv, Exists, ClusterExists
  <2> QED
    BY <2>2, <2>3
<1>5. ASSUME NEW r \in Requests, DropCluster(r) PROVE IssuedInv'
  <2>1. \A i \in Instances : Exists(i)' => i \in issued /\ inst'[i].cluster \in issued \cup {None}
    BY <1>5, Rows DEF DropCluster, Members, TypeInv, TypeOK, IssuedInv, Exists, InstanceRows
  <2>2. \A c \in Clusters : ClusterExists(c)' =>
            c \in issued /\ clus'[c].primary \in issued \cup {None}
    BY <1>5 DEF DropCluster, TypeInv, TypeOK, IssuedInv, ClusterExists
  <2> QED
    BY <1>5, <2>1, <2>2, <1>b DEF DropCluster
<1>6. ASSUME NEW r \in Requests, WriteInstance(r) PROVE IssuedInv'
  <2>1. req[r].id \in Instances /\ req[r].row.cluster \in issued \cup {None}
    BY <1>6 DEF WriteInstance, TypeInv, Holds, InstanceForm, IssuedInv
  <2>2. CASE Fail(r)
    BY <2>2, <1>b DEF Fail, IssuedInv, Exists, ClusterExists
  <2>3. CASE ~Fail(r)
    BY <1>6, <2>1, <2>3, <1>b DEF WriteInstance, TypeInv, TypeOK, IssuedInv, Exists, ClusterExists
  <2> QED
    BY <2>2, <2>3
<1>7. ASSUME NEW r \in Requests, UnlinkPrimary(r) \/ DeleteInstance(r) PROVE IssuedInv'
  <2>1. \A c \in Clusters : ClusterExists(c)' =>
            c \in issued /\ clus'[c].primary \in issued \cup {None}
    BY <1>7, Rows DEF UnlinkPrimary, DeleteInstance, WithoutPrimary, TypeInv, TypeOK, IssuedInv,
                      ClusterExists, ClusterRows
  <2>2. \A i \in Instances : Exists(i)' => Exists(i) /\ inst'[i] = inst[i]
    BY <1>7 DEF UnlinkPrimary, DeleteInstance, TypeInv, TypeOK, Exists
  <2>3. CASE UnlinkPrimary(r)
    BY <2>3, <2>1, <2>2 DEF UnlinkPrimary, IssuedInv, InstanceForm, ClusterForm, TypeInv, ReqState
  <2>4. CASE DeleteInstance(r)
    BY <2>4, <2>1, <2>2, <1>b DEF DeleteInstance, IssuedInv
  <2> QED
    BY <1>7, <2>3, <2>4
<1>8. CASE UNCHANGED vars
  BY <1>8 DEF vars, IssuedInv, Exists, ClusterExists, InstanceForm, ClusterForm
<1> QED
  BY <1>1, <1>2, <1>3, <1>4, <1>5, <1>6, <1>7, <1>8 DEF Next

--------------------------------------------------------------------------------
(* Topologies *)

Fitting(entry) == entry.topology = "replication" <=> entry.cluster # None
InstanceFits(i) == Exists(i) => Fitting(inst[i]) \/ i \in adopted \cup orphaned
FormFits(r) == InstanceForm(r) => Fitting(req[r].row)

LEMMA FitParts == FitInv <=> (\A i \in Instances : InstanceFits(i)) /\ (\A r \in Requests : FormFits(r))
  BY DEF FitInv, MembershipFits, InstanceFits, FormFits, Fitting

LEMMA StepFits == ASSUME Apart PROVE TypeInv /\ FitInv /\ [Next]_vars => FitInv'
<1> SUFFICES ASSUME TypeInv, FitInv, [Next]_vars
             PROVE  (\A i \in Instances : InstanceFits(i))' /\ (\A r \in Requests : FormFits(r))'
  BY FitParts, PTL
<1>0. (\A i \in Instances : InstanceFits(i)) /\ (\A r \in Requests : FormFits(r))
  BY FitParts
<1> USE <1>0
<1>a. ASSUME NEW r \in Requests, NEW pc, NEW id, NEW entry, Begin(r, pc, id, entry),
             pc \in {"insert instance", "save instance"} => Fitting(entry)
      PROVE  (\A i \in Instances : InstanceFits(i))' /\ (\A s \in Requests : FormFits(s))'
  <2>1. /\ req'[r].pc = pc /\ req'[r].row = entry
        /\ \A s \in Requests \ {r} : req'[s] = req[s]
        /\ UNCHANGED <<inst, adopted, orphaned>>
    BY <1>a, Begins
  <2>2. FormFits(r)'
    BY <2>1, <1>a DEF FormFits, InstanceForm, Fitting
  <2>3. \A s \in Requests \ {r} : FormFits(s)'
    BY <2>1 DEF InstanceForm, FormFits, Fitting
  <2> QED
    BY <2>1, <2>2, <2>3 DEF InstanceFits, Fitting, Exists
<1>b. ASSUME NEW r \in Requests,
             \/ End(r)
             \/ req'[r].pc \in {"link", "delete"} /\ \A s \in Requests \ {r} : req'[s] = req[s],
             \A i \in Instances : InstanceFits(i)'
      PROVE  (\A i \in Instances : InstanceFits(i))' /\ (\A s \in Requests : FormFits(s))'
  <2>1. ~InstanceForm(r)' /\ \A s \in Requests \ {r} : req'[s] = req[s]
    BY <1>b, Ends DEF InstanceForm
  <2> QED
    BY <1>b, <2>1 DEF FormFits, InstanceForm, Fitting
<1>c. ASSUME UNCHANGED <<inst, adopted, orphaned>> PROVE \A i \in Instances : InstanceFits(i)'
  BY <1>c DEF InstanceFits, Fitting, Exists
<1>1. ASSUME NEW r \in Requests,
             \/ CheckCreateCluster(r) \/ CheckUpdateCluster(r) \/ CheckDeleteCluster(r)
             \/ ReadInstance(r)
      PROVE  (\A i \in Instances : InstanceFits(i))' /\ (\A s \in Requests : FormFits(s))'
  BY <1>1, <1>a DEF CheckCreateCluster, CheckUpdateCluster, CheckDeleteCluster, ReadInstance
<1>2. ASSUME NEW r \in Requests, CheckCreateInstance(r) \/ CheckUpdateInstance(r)
      PROVE  (\A i \in Instances : InstanceFits(i))' /\ (\A s \in Requests : FormFits(s))'
  BY <1>2, <1>a DEF CheckCreateInstance, CheckUpdateInstance, Allowed, Fitting
<1>3. ASSUME NEW r \in Requests, WriteCluster(r)
      PROVE  (\A i \in Instances : InstanceFits(i))' /\ (\A s \in Requests : FormFits(s))'
  <2>1. UNCHANGED <<inst, adopted, orphaned>>
    BY <1>3 DEF WriteCluster, Fail
  <2>2. \/ End(r)
        \/ req'[r].pc = "link" /\ \A s \in Requests \ {r} : req'[s] = req[s]
    <3>1. End(r) \/ req' = [req EXCEPT ![r].pc = "link"]
      BY <1>3 DEF WriteCluster, Fail
    <3>2. CASE End(r)
      BY <3>2, Ends
    <3>3. CASE req' = [req EXCEPT ![r].pc = "link"]
      BY <3>3 DEF TypeInv, ReqState
    <3> QED
      BY <3>1, <3>2, <3>3
  <2> QED
    BY <2>1, <2>2, <1>b, <1>c
<1>4. ASSUME NEW r \in Requests, LinkPrimary(r)
      PROVE  (\A i \in Instances : InstanceFits(i))' /\ (\A s \in Requests : FormFits(s))'
  <2>1. \A i \in Instances : InstanceFits(i)'
    BY <1>4 DEF LinkPrimary, InstanceFits, Fitting, Exists, TypeInv, TypeOK
  <2> QED
    BY <1>4, <2>1, <1>b DEF LinkPrimary
<1>5. ASSUME NEW r \in Requests, DropCluster(r)
      PROVE  (\A i \in Instances : InstanceFits(i))' /\ (\A s \in Requests : FormFits(s))'
  <2>1. req[r].before = {}
    BY <1>5 DEF DropCluster, TypeInv, Holds
  <2>2. \A i \in Instances : InstanceFits(i)'
    BY <1>5, <2>1 DEF DropCluster, Members, InstanceFits, Fitting, Exists, TypeInv, TypeOK
  <2> QED
    BY <1>5, <2>2, <1>b DEF DropCluster
<1>6. ASSUME NEW r \in Requests, WriteInstance(r)
      PROVE  (\A i \in Instances : InstanceFits(i))' /\ (\A s \in Requests : FormFits(s))'
  <2>1. Fitting(req[r].row)
    BY <1>6 DEF WriteInstance, FormFits, InstanceForm
  <2>2. \A i \in Instances : InstanceFits(i)'
    BY <1>6, <2>1 DEF WriteInstance, Fail, InstanceFits, Fitting, Exists, TypeInv, TypeOK
  <2> QED
    BY <1>6, <2>2, <1>b DEF WriteInstance, Fail
<1>7. ASSUME NEW r \in Requests, UnlinkPrimary(r) \/ DeleteInstance(r)
      PROVE  (\A i \in Instances : InstanceFits(i))' /\ (\A s \in Requests : FormFits(s))'
  <2>1. \A i \in Instances : InstanceFits(i)'
    BY <1>7 DEF UnlinkPrimary, DeleteInstance, InstanceFits, Fitting, Exists, TypeInv, TypeOK
  <2>2. \/ End(r)
        \/ req'[r].pc = "delete" /\ \A s \in Requests \ {r} : req'[s] = req[s]
    BY <1>7 DEF UnlinkPrimary, DeleteInstance, TypeInv, ReqState
  <2> QED
    BY <2>1, <2>2, <1>b
<1>8. CASE UNCHANGED vars
  BY <1>8 DEF vars, InstanceFits, FormFits, InstanceForm, Fitting, Exists
<1> QED
  BY <1>1, <1>2, <1>3, <1>4, <1>5, <1>6, <1>7, <1>8 DEF Next

--------------------------------------------------------------------------------
(* Engines *)

\* The part of the tie that rows make up, which a request that only reads or
\* gives up leaves as it is.
RowTies(ie, ce) ==
    (\A i \in Instances : InstanceTie(ie, ce, i)) /\ (\A c \in Clusters : ClusterTie(ie, ce, c))

\* A request that ends has nothing left to write.
LEMMA EndTies ==
    ASSUME TypeInv, NEW ie, NEW ce, Ties(ie, ce), NEW r \in Requests, End(r),
           edited \subseteq edited', RowTies(ie, ce)'
    PROVE  Ties(ie, ce)'
<1>1. RequestTie(ie, ce, r)'
  BY Ends DEF RequestTie
<1>2. \A s \in Requests \ {r} : RequestTie(ie, ce, s)'
  BY Ends, ZenonT(30) DEF Ties, RequestTie, InstanceForm, ClusterForm
<1> QED
  BY <1>1, <1>2 DEF Ties, RowTies

\* A request that begins changes no row, and takes on one that is tied already.
LEMMA BeginTies ==
    ASSUME TypeInv, NEW ie, NEW ce, Ties(ie, ce), NEW r \in Requests,
           NEW pc, NEW id, NEW entry, Begin(r, pc, id, entry), pc # "link",
           pc \in {"insert instance", "save instance"} =>
               /\ entry.engine = ie[id]
               /\ entry.cluster \in Clusters \ edited => entry.engine = ce[entry.cluster],
           pc \in {"insert cluster", "save cluster"} =>
               (entry.primary # None => ie[entry.primary] = entry.engine),
           pc = "insert cluster" => entry.engine = ce[id]
    PROVE  Ties(ie, ce)'
<1>1. UNCHANGED <<inst, clus, edited>> /\ \A s \in Requests \ {r} : req'[s] = req[s]
  BY Begins
<1>2. \A s \in Requests \ {r} : RequestTie(ie, ce, s)'
  BY <1>1, ZenonT(30) DEF Ties, RequestTie, InstanceForm, ClusterForm
<1>3. RequestTie(ie, ce, r)'
  <2>1. req'[r].pc = pc /\ req'[r].id = id /\ req'[r].row = entry
    BY Begins, ZenonT(30)
  <2> QED
    BY <2>1, <1>1 DEF RequestTie, InstanceForm, ClusterForm
<1> QED
  BY <1>1, <1>2, <1>3 DEF Ties, InstanceTie, ClusterTie, Exists, ClusterExists

\* The forms of clusters and instances: what the check compares is what ties
\* the row it will write; a key not handed out yet is tied to nothing so far.
LEMMA CheckTies ==
    ASSUME Apart, TypeInv, IssuedInv, TieInv, NEW r \in Requests,
           \/ CheckCreateCluster(r) \/ CheckUpdateCluster(r) \/ CheckDeleteCluster(r)
           \/ CheckCreateInstance(r) \/ CheckUpdateInstance(r) \/ ReadInstance(r)
    PROVE  TieInv'
<1>0. PICK ie \in [Instances -> Engines], ce \in [Clusters -> Engines] : Ties(ie, ce)
  BY DEF TieInv
<1>p. ASSUME NEW p \in Instances \cup {None}, NEW e \in Engines, PrimaryFits(p, e), p # None
      PROVE  ie[p] = e
  BY <1>0, <1>p DEF Ties, InstanceTie, PrimaryFits, Exists
<1>1. CASE CheckCreateCluster(r)
  <2>1. PICK c \in Clusters \ issued, entry \in ClusterRows :
            /\ \A s \in Requests : req[s].id # c
            /\ PrimaryFits(entry.primary, entry.engine)
            /\ Begin(r, "insert cluster", c, entry)
    BY <1>1 DEF CheckCreateCluster, ClusterRows
  <2> DEFINE ce2 == [ce EXCEPT ![c] = entry.engine]
  <2>2. ce2 \in [Clusters -> Engines] /\ ce2[c] = entry.engine
        /\ \A d \in Clusters \ {c} : ce2[d] = ce[d]
    BY DEF ClusterRows
  <2> HIDE DEF ce2
  <2>3. \A i \in Instances : InstanceTie(ie, ce2, i)
    BY <1>0, <2>1, <2>2, ZenonT(30) DEF Ties, InstanceTie, IssuedInv, Apart
  <2>4. \A d \in Clusters : ClusterTie(ie, ce2, d)
    BY <1>0, <2>1, <2>2 DEF Ties, ClusterTie, IssuedInv
  <2>5. \A s \in Requests : RequestTie(ie, ce2, s)
    BY <1>0, <2>1, <2>2, ZenonT(30) DEF Ties, RequestTie, IssuedInv, TypeInv, Holds, InstanceForm, ClusterForm, Apart
  <2>6. entry.primary # None => ie[entry.primary] = entry.engine
    BY <2>1, <1>p DEF ClusterRows
  <2>7. Ties(ie, ce2)'
    BY <2>1, <2>2, <2>3, <2>4, <2>5, <2>6, BeginTies DEF Ties
  <2> QED
    BY <2>2, <2>7 DEF TieInv
<1>2. CASE CheckUpdateCluster(r)
  <2>1. PICK c \in Clusters, entry \in ClusterRows :
            PrimaryFits(entry.primary, entry.engine) /\ Begin(r, "save cluster", c, entry)
    BY <1>2 DEF CheckUpdateCluster, ClusterRows
  <2>2. entry.primary # None => ie[entry.primary] = entry.engine
    BY <2>1, <1>p DEF ClusterRows
  <2>3. Ties(ie, ce)'
    BY <1>0, <2>1, <2>2, BeginTies
  <2> QED
    BY <2>3 DEF TieInv
<1>3. CASE CheckDeleteCluster(r) \/ ReadInstance(r)
  <2>1. PICK pc \in {"drop", "unlink"}, id \in Instances \cup Clusters : Begin(r, pc, id, NoRow)
    BY <1>3 DEF CheckDeleteCluster, ReadInstance
  <2>2. Ties(ie, ce)'
    BY <1>0, <2>1, BeginTies
  <2> QED
    BY <2>2 DEF TieInv
<1>4. CASE CheckCreateInstance(r)
  <2>1. PICK i \in Instances \ issued, entry \in InstanceRows :
            /\ \A s \in Requests : req[s].id # i
            /\ Allowed(entry)
            /\ Begin(r, "insert instance", i, entry)
    BY <1>4 DEF CheckCreateInstance
  <2> DEFINE ie2 == [ie EXCEPT ![i] = entry.engine]
  <2>2. ie2 \in [Instances -> Engines] /\ ie2[i] = entry.engine
        /\ \A j \in Instances \ {i} : ie2[j] = ie[j]
    BY DEF InstanceRows
  <2> HIDE DEF ie2
  <2>3. \A j \in Instances : InstanceTie(ie2, ce, j)
    BY <1>0, <2>1, <2>2 DEF Ties, InstanceTie, IssuedInv
  <2>4. \A d \in Clusters : ClusterTie(ie2, ce, d)
    BY <1>0, <2>1, <2>2, Rows DEF Ties, ClusterTie, IssuedInv, TypeInv, ClusterRows
  <2>5. \A s \in Requests : RequestTie(ie2, ce, s)
    BY <1>0, <2>1, <2>2 DEF Ties, RequestTie, IssuedInv, TypeInv, Holds, InstanceForm, ClusterForm,
                            ClusterRows
  <2>6. entry.cluster \in Clusters \ edited => entry.engine = ce[entry.cluster]
    BY <1>0, <2>1 DEF Ties, ClusterTie, Allowed, Apart
  <2>7. Ties(ie2, ce)'
    BY <2>1, <2>2, <2>3, <2>4, <2>5, <2>6, BeginTies DEF Ties
  <2> QED
    BY <2>2, <2>7 DEF TieInv
<1>5. CASE CheckUpdateInstance(r)
  <2>1. PICK i \in Instances, entry \in InstanceRows :
            /\ Exists(i)
            /\ entry.engine = inst[i].engine
            /\ Allowed(entry)
            /\ Begin(r, "save instance", i, entry)
    BY <1>5 DEF CheckUpdateInstance
  <2>2. entry.engine = ie[i]
    BY <1>0, <2>1 DEF Ties, InstanceTie
  <2>3. entry.cluster \in Clusters \ edited => entry.engine = ce[entry.cluster]
    BY <1>0, <2>1 DEF Ties, ClusterTie, Allowed, Apart
  <2>4. Ties(ie, ce)'
    BY <1>0, <2>1, <2>2, <2>3, BeginTies
  <2> QED
    BY <2>4 DEF TieInv
<1> QED
  BY <1>1, <1>2, <1>3, <1>4, <1>5

\* The writes: each row comes from a form that is tied, and only a form that
\* says something new of a cluster's engine gets round the tie, as an edit.
LEMMA WriteTies ==
    ASSUME Apart, TypeInv, TieInv, NEW r \in Requests,
           \/ WriteCluster(r) \/ LinkPrimary(r) \/ DropCluster(r)
           \/ WriteInstance(r) \/ UnlinkPrimary(r) \/ DeleteInstance(r)
    PROVE  TieInv'
<1>0. PICK ie \in [Instances -> Engines], ce \in [Clusters -> Engines] : Ties(ie, ce)
  BY DEF TieInv
<1> SUFFICES Ties(ie, ce)'
  BY DEF TieInv
<1>f. ASSUME Fail(r) PROVE Ties(ie, ce)'
  <2>1. End(r) /\ UNCHANGED <<inst, clus, edited>>
    BY <1>f DEF Fail
  <2>2. RowTies(ie, ce)'
    BY <1>0, <2>1 DEF Ties, RowTies, InstanceTie, ClusterTie, Exists, ClusterExists
  <2> QED
    BY <1>0, <2>1, <2>2, EndTies
<1>1. CASE WriteCluster(r)
  <2>a. PICK c \in Clusters, entry \in ClusterRows : c = req[r].id /\ entry = req[r].row
    BY <1>1 DEF WriteCluster, TypeInv, Holds, ClusterForm
  <2>0. RequestTie(ie, ce, r) /\ ClusterForm(r)
    BY <1>0, <1>1 DEF WriteCluster, ClusterForm, Ties
  <2>1. CASE ~Fail(r)
    <3>1. /\ entry.primary = None \/ Exists(entry.primary)
          /\ clus' = [clus EXCEPT ![c] = entry]
          /\ inst' = inst
          /\ edited' = IF req[r].pc = "save cluster" /\ clus[c].engine # entry.engine
                       THEN edited \cup {c} ELSE edited
      BY <1>1, <2>a, <2>1 DEF WriteCluster
    <3>2. c \notin edited' => entry.engine = ce[c]
      BY <1>0, <2>a, <2>0, <3>1, Rows DEF Ties, ClusterTie, RequestTie, TypeInv, ClusterRows
    <3>3. RowTies(ie, ce)'
      <4>1. \A i \in Instances : InstanceTie(ie, ce, i)'
        BY <1>0, <3>1 DEF Ties, InstanceTie, Exists
      <4>2. ClusterTie(ie, ce, c)'
        BY <2>a, <2>0, <3>1, <3>2 DEF ClusterTie, RequestTie, Exists, TypeInv, TypeOK
      <4>3. \A d \in Clusters \ {c} : ClusterTie(ie, ce, d)'
        BY <1>0, <3>1 DEF Ties, ClusterTie, Exists, ClusterExists, TypeInv, TypeOK
      <4> QED
        BY <4>1, <4>2, <4>3 DEF RowTies
    <3>4. CASE End(r)
      BY <1>0, <3>1, <3>3, <3>4, EndTies
    <3>5. CASE req' = [req EXCEPT ![r].pc = "link"]
      <4>1. /\ req'[r].pc = "link" /\ req'[r].id = c /\ req'[r].row = entry
            /\ \A s \in Requests \ {r} : req'[s] = req[s]
        BY <2>a, <3>5 DEF TypeInv, ReqState
      <4>2. RequestTie(ie, ce, r)'
        BY <2>a, <2>0, <3>2, <4>1 DEF RequestTie, InstanceForm, ClusterForm
      <4>3. \A s \in Requests \ {r} : RequestTie(ie, ce, s)'
        BY <1>0, <3>1, <4>1 DEF Ties, RequestTie, InstanceForm, ClusterForm
      <4> QED
        BY <3>3, <4>2, <4>3 DEF Ties, RowTies
    <3> QED
      BY <1>1, <2>a, <2>1, <3>4, <3>5 DEF WriteCluster
  <2> QED
    BY <2>1, <1>f
<1>2. CASE LinkPrimary(r)
  <2> DEFINE c == req[r].id  p == req[r].row.primary
  <2>0. /\ c \in Clusters /\ p \in Instances /\ ie[p] = req[r].row.engine
        /\ c \notin edited => req[r].row.engine = ce[c]
    BY <1>0, <1>2 DEF LinkPrimary, TypeInv, Holds, ClusterForm, ClusterRows, Ties, RequestTie
  <2>1. \A i \in Instances : Exists(i)' <=> Exists(i)
    BY <1>2, <2>0, Rows DEF LinkPrimary, TypeInv, TypeOK, InstanceRows, Exists
  <2>2. \A i \in Instances : InstanceTie(ie, ce, i)'
    BY <1>0, <1>2, <2>0, <2>1, Rows DEF LinkPrimary, Ties, InstanceTie, TypeInv, TypeOK, InstanceRows
  <2>3. \A d \in Clusters : ClusterTie(ie, ce, d)'
    BY <1>0, <1>2, <2>1, Rows DEF LinkPrimary, Ties, ClusterTie, ClusterExists, TypeInv, ClusterRows
  <2> QED
    BY <1>0, <1>2, <2>2, <2>3, EndTies DEF LinkPrimary, RowTies
<1>3. CASE DropCluster(r)
  <2>1. \A i \in Instances : Exists(i)' <=> Exists(i)
    BY <1>3, Rows DEF DropCluster, Members, TypeInv, TypeOK, InstanceRows, Exists
  <2>2. \A i \in Instances : InstanceTie(ie, ce, i)'
    BY <1>0, <1>3, <2>1, Rows DEF DropCluster, Members, Ties, InstanceTie, TypeInv, TypeOK,
                                  InstanceRows, Apart
  <2>3. \A d \in Clusters : ClusterTie(ie, ce, d)'
    BY <1>0, <1>3, <2>1, Rows DEF DropCluster, Ties, ClusterTie, ClusterExists, TypeInv, TypeOK,
                                  ClusterRows
  <2> QED
    BY <1>0, <1>3, <2>2, <2>3, EndTies DEF DropCluster, RowTies
<1>4. CASE WriteInstance(r)
  <2>a. PICK i \in Instances, entry \in InstanceRows : i = req[r].id /\ entry = req[r].row
    BY <1>4 DEF WriteInstance, TypeInv, Holds, InstanceForm
  <2>0. RequestTie(ie, ce, r) /\ InstanceForm(r)
    BY <1>0, <1>4 DEF WriteInstance, InstanceForm, Ties
  <2>1. CASE ~Fail(r)
    <3>1. inst' = [inst EXCEPT ![i] = entry] /\ clus' = clus /\ edited' = edited /\ End(r)
      BY <1>4, <2>a, <2>1 DEF WriteInstance
    <3>2. InstanceTie(ie, ce, i)'
      BY <2>a, <2>0, <3>1 DEF InstanceTie, RequestTie, TypeInv, TypeOK
    <3>3. \A j \in Instances \ {i} : InstanceTie(ie, ce, j)'
      BY <1>0, <3>1 DEF Ties, InstanceTie, Exists, TypeInv, TypeOK
    <3>4. \A j \in Instances : Exists(j) => Exists(j)'
      BY <2>0, <3>1, Rows DEF Exists, TypeInv, TypeOK
    <3>5. \A d \in Clusters : ClusterTie(ie, ce, d)'
      BY <1>0, <3>1, <3>4, Rows DEF Ties, ClusterTie, ClusterExists, TypeInv, ClusterRows
    <3> QED
      BY <1>0, <3>1, <3>2, <3>3, <3>5, EndTies DEF RowTies
  <2> QED
    BY <2>1, <1>f
<1>5. CASE UnlinkPrimary(r) \/ DeleteInstance(r)
  <2>0. req[r].id \in Instances /\ clus' = WithoutPrimary(req[r].id) /\ edited' = edited
    BY <1>5 DEF UnlinkPrimary, DeleteInstance, TypeInv, Holds
  <2>1. \A i \in Instances : InstanceTie(ie, ce, i)'
    BY <1>0, <1>5 DEF UnlinkPrimary, DeleteInstance, Ties, InstanceTie, Exists, TypeInv, TypeOK
  <2>2. \A j \in Instances \ {req[r].id} : Exists(j) => Exists(j)'
    BY <1>5 DEF UnlinkPrimary, DeleteInstance, Exists, TypeInv, TypeOK
  <2>3. \A d \in Clusters : ClusterExists(d)' =>
            /\ ClusterExists(d)
            /\ clus'[d].engine = clus[d].engine
            /\ clus'[d].primary \in {clus[d].primary, None} \ {req[r].id}
    BY <2>0, Rows DEF WithoutPrimary, ClusterExists, TypeInv, TypeOK, ClusterRows, Apart
  <2>4. \A d \in Clusters : ClusterTie(ie, ce, d)'
    BY <1>0, <2>0, <2>2, <2>3, Rows DEF Ties, ClusterTie, TypeInv, ClusterRows
  <2>5. CASE UnlinkPrimary(r)
    <3>1. /\ req'[r].pc = "delete"
          /\ \A s \in Requests \ {r} : req'[s] = req[s]
      BY <2>5 DEF UnlinkPrimary, TypeInv, ReqState
    <3>2. \A s \in Requests : RequestTie(ie, ce, s)'
      BY <1>0, <2>0, <3>1, ZenonT(30) DEF Ties, RequestTie, InstanceForm, ClusterForm
    <3> QED
      BY <2>1, <2>4, <3>2 DEF Ties
  <2>6. CASE DeleteInstance(r)
    BY <1>0, <2>0, <2>1, <2>4, <2>6, EndTies DEF DeleteInstance, RowTies
  <2> QED
    BY <1>5, <2>5, <2>6
<1> QED
  BY <1>1, <1>2, <1>3, <1>4, <1>5

LEMMA StepTies == ASSUME Apart PROVE TypeInv /\ IssuedInv /\ TieInv /\ [Next]_vars => TieInv'
<1> SUFFICES ASSUME TypeInv, IssuedInv, TieInv, [Next]_vars PROVE TieInv'
  OBVIOUS
<1>1. CASE UNCHANGED vars
  <2>1. PICK ie \in [Instances -> Engines], ce \in [Clusters -> Engines] : Ties(ie, ce)
    BY DEF TieInv
  <2>2. Ties(ie, ce)'
    BY <1>1, <2>1 DEF vars, Ties, InstanceTie, ClusterTie, RequestTie, Exists, ClusterExists,
                      InstanceForm, ClusterForm
  <2> QED
    BY <2>2 DEF TieInv
<1>2. CASE Next
  BY <1>2, CheckTies, WriteTies DEF Next
<1> QED
  BY <1>1, <1>2

--------------------------------------------------------------------------------
(* Theorems *)

LEMMA InitIInv == ASSUME Apart, Engines # {} PROVE Init => IInv
<1> SUFFICES ASSUME Init PROVE IInv
  OBVIOUS
<1>1. TypeInv
  BY DEF Init, TypeInv, TypeOK, Idle, ReqState, Holds, InstanceForm, ClusterForm
<1>2. (\A i \in Instances : ~Exists(i)) /\ (\A c \in Clusters : ~ClusterExists(c))
      /\ (\A r \in Requests : ~InstanceForm(r) /\ ~ClusterForm(r))
  BY DEF Init, Exists, ClusterExists, Idle, InstanceForm, ClusterForm
<1>3. IssuedInv /\ FitInv
  BY <1>2 DEF IssuedInv, FitInv, MembershipFits
<1>4. TieInv
  <2>1. PICK e : e \in Engines
    OBVIOUS
  <2>2. Ties([i \in Instances |-> e], [c \in Clusters |-> e])
    BY <1>2 DEF Ties, InstanceTie, ClusterTie, RequestTie
  <2> QED
    BY <2>1, <2>2 DEF TieInv
<1> QED
  BY <1>1, <1>3, <1>4 DEF IInv

\* The inductive invariant holds in every reachable state.
LEMMA Invariance == ASSUME Apart, Engines # {} PROVE Spec => []IInv
<1>1. Init => IInv
  BY InitIInv
<1>2. IInv /\ [Next]_vars => IInv'
  BY StepTypes, StepIssued, StepTies, StepFits DEF IInv
<1> QED
  BY <1>1, <1>2, PTL DEF Spec

\* Rows, keys and requests have their types.
THEOREM LedgerTypes == ASSUME Apart, Engines # {} PROVE Spec => []TypeOK
<1>1. IInv => TypeOK
  BY DEF IInv, TypeInv
<1> QED
  BY Invariance, <1>1, PTL

\* Although every form reads first and writes later (services.py), a cluster
\* whose engine nobody edited is of one engine with its members and primary.
THEOREM OneEngine == ASSUME Apart, Engines # {} PROVE Spec => []EngineAgrees
<1>1. IInv => EngineAgrees
  <2> SUFFICES ASSUME IInv PROVE EngineAgrees
    OBVIOUS
  <2>1. PICK ie \in [Instances -> Engines], ce \in [Clusters -> Engines] : Ties(ie, ce)
    BY DEF IInv, TieInv
  <2>2. \A c \in Clusters : ClusterExists(c) => clus[c].primary \in Instances \cup {None}
    BY Rows DEF IInv, TypeInv, ClusterRows
  <2> QED
    BY <2>1, <2>2 DEF EngineAgrees, Members, Ties, InstanceTie, ClusterTie
<1> QED
  BY Invariance, <1>1, PTL

\* An instance names a cluster exactly if it takes part in a replication, but
\* for the two ways round _validate_instance_topology.
THEOREM TopologyKept == ASSUME Apart, Engines # {} PROVE Spec => []MembershipFits
<1>1. IInv => MembershipFits
  BY DEF IInv, FitInv
<1> QED
  BY Invariance, <1>1, PTL

--------------------------------------------------------------------------------
(* Composition: a behaviour of the whole is one of Ledger, of Members and of  *)
(* Replica.                                                                   *)
(* M and MP are instances of the same module, of which only MP has theorems.  *)

MP == INSTANCE Members_proofs WITH req <- rowReq

LEMMA SameBegin ==
    ASSUME NEW r, NEW q
    PROVE  (M!Begin(r, q) => MP!Begin(r, q)) /\ (M!Start(r, q) => MP!Start(r, q))
  BY DEF M!Begin, MP!Begin, M!Start, MP!Start, M!Idle, MP!Idle

LEMMA SameRows ==
    /\ \A table, i : M!RowsOf(table, i) = MP!RowsOf(table, i)
    /\ \A i : M!Flagged(i) = MP!Flagged(i)
  BY DEF M!RowsOf, MP!RowsOf, M!Flagged, MP!Flagged, M!Ids, MP!Ids

\* What disturbs an instance is the same in both.
LEMMA SameCauses ==
    ASSUME NEW r
    PROVE  /\ \A id : M!Unset(r, id) = MP!Unset(r, id)
           /\ M!Bereaved(r) = MP!Bereaved(r) /\ M!Mispicked(r) = MP!Mispicked(r)
           /\ M!Misread(r) = MP!Misread(r) /\ M!Overtaken(r) = MP!Overtaken(r)
           /\ M!Halfway = MP!Halfway
<1>1. \A id : M!Unset(r, id) = MP!Unset(r, id)
  BY SameRows DEF M!Unset, MP!Unset
<1>2. M!Bereaved(r) = MP!Bereaved(r)
  BY SameRows DEF M!Bereaved, MP!Bereaved
<1>3. M!Mispicked(r) = MP!Mispicked(r)
  BY SameRows DEF M!Mispicked, MP!Mispicked
<1>4. M!Misread(r) = MP!Misread(r)
  BY SameRows DEF M!Misread, MP!Misread
<1>5. M!Overtaken(r) = MP!Overtaken(r)
  BY SameRows DEF M!Overtaken, MP!Overtaken, M!DefaultDue, MP!DefaultDue
<1>6. M!Halfway = MP!Halfway
  BY DEF M!Halfway, MP!Halfway
<1> QED
  BY <1>1, <1>2, <1>3, <1>4, <1>5, <1>6

LEMMA SameWrite ==
    ASSUME NEW r, NEW id
    PROVE  (M!Write(r, id) => MP!Write(r, id)) /\ (M!Fail(r) => MP!Fail(r)) /\ (M!End(r) => MP!End(r))
  BY SameCauses DEF M!Write, MP!Write, M!Fail, MP!Fail, M!End, MP!End, M!Idle, MP!Idle,
                    M!NextAfter, MP!NextAfter

LEMMA SameCardinality == ASSUME NEW S PROVE M!Cardinality(S) = MP!Cardinality(S)
  BY DEF M!Cardinality, MP!Cardinality

LEMMA SameRegistered == M!Registered = MP!Registered
<1>1. \A m : M!Copied(m) = MP!Copied(m)
  BY SameCardinality DEF M!Copied, MP!Copied, M!RowsOf, MP!RowsOf, M!Ids, MP!Ids, M!Rank, MP!Rank
<1> QED
  BY <1>1 DEF M!Registered, MP!Registered

LEMMA SameNext == M!Next => MP!Next
<1> SUFFICES ASSUME M!Next PROVE MP!Next
  OBVIOUS
<1>1. ASSUME NEW r \in Requests, M!CheckCreate(r) PROVE MP!CheckCreate(r)
  BY <1>1, SameBegin DEF M!CheckCreate, MP!CheckCreate, M!Idle, MP!Idle
<1>2. ASSUME NEW r \in Requests, M!CheckUpdate(r) PROVE MP!CheckUpdate(r)
  BY <1>2, SameBegin DEF M!CheckUpdate, MP!CheckUpdate, M!Idle, MP!Idle, M!Exists, MP!Exists,
                         M!Absent, MP!Absent, M!Ids, MP!Ids
<1>3. ASSUME NEW r \in Requests, M!Insert(r) PROVE MP!Insert(r)
  BY <1>3, SameWrite DEF M!Insert, MP!Insert
<1>4. ASSUME NEW r \in Requests, M!Save(r) PROVE MP!Save(r)
  BY <1>4, SameWrite DEF M!Save, MP!Save
<1>5. ASSUME NEW r \in Requests, M!ClearOthers(r) PROVE MP!ClearOthers(r)
  BY <1>5, SameWrite, SameRows, SameCauses
     DEF M!ClearOthers, MP!ClearOthers, M!Unflagged, MP!Unflagged, M!Ids, MP!Ids
<1>6. ASSUME NEW r \in Requests, M!SeekDefault(r) PROVE MP!SeekDefault(r)
  BY <1>6, SameWrite DEF M!SeekDefault, MP!SeekDefault, M!Flagged, MP!Flagged, M!RowsOf, MP!RowsOf,
                         M!Ids, MP!Ids, M!Goto, MP!Goto
<1>7. ASSUME NEW r \in Requests, M!SeekFirst(r) PROVE MP!SeekFirst(r)
  BY <1>7, SameWrite DEF M!SeekFirst, MP!SeekFirst, M!RowsOf, MP!RowsOf, M!Ids, MP!Ids
<1>8. ASSUME NEW r \in Requests, M!Promote(r) PROVE MP!Promote(r)
  BY <1>8, SameWrite, SameCauses
     DEF M!Promote, MP!Promote, M!Exists, MP!Exists, M!Absent, MP!Absent
<1>9. ASSUME NEW r \in Requests, M!ReadAccount(r) PROVE MP!ReadAccount(r)
  BY <1>9, SameBegin DEF M!ReadAccount, MP!ReadAccount, M!Idle, MP!Idle, M!Exists, MP!Exists,
                         M!Absent, MP!Absent, M!Ids, MP!Ids
<1>10. ASSUME NEW r \in Requests, M!DeleteAccount(r) PROVE MP!DeleteAccount(r)
  BY <1>10, SameWrite, SameCauses
     DEF M!DeleteAccount, MP!DeleteAccount, M!Absent, MP!Absent, M!Goto, MP!Goto
<1>11. ASSUME NEW r \in Requests, M!Abandon(r) PROVE MP!Abandon(r)
  BY <1>11, SameWrite, SameCauses DEF M!Abandon, MP!Abandon, M!Idle, MP!Idle
<1>12. ASSUME NEW r \in Requests, NEW i \in Instances, NEW flags, M!RegisterInstance(r, i, flags)
       PROVE  MP!RegisterInstance(r, i, flags)
  BY <1>12, SameBegin DEF M!RegisterInstance, MP!RegisterInstance, M!Unborn, MP!Unborn,
                          M!Idle, MP!Idle, M!OneAmong, MP!OneAmong
<1>13. ASSUME NEW r \in Requests, M!InsertRegistered(r) PROVE MP!InsertRegistered(r)
  BY <1>13, SameWrite, SameCauses DEF M!InsertRegistered, MP!InsertRegistered
<1>14. ASSUME NEW id \in M!Ids, M!DeleteNode(id) PROVE id \in MP!Ids /\ MP!DeleteNode(id)
  BY <1>14 DEF M!DeleteNode, MP!DeleteNode, M!Exists, MP!Exists, M!Absent, MP!Absent, M!Ids, MP!Ids
<1>15. ASSUME NEW i \in Instances, M!CreateInstance(i) PROVE MP!CreateInstance(i)
  BY <1>15 DEF M!CreateInstance, MP!CreateInstance, M!Unborn, MP!Unborn
<1>16. ASSUME NEW i \in Instances, M!DeleteInstance(i) PROVE MP!DeleteInstance(i)
  BY <1>16 DEF M!DeleteInstance, MP!DeleteInstance, M!Absent, MP!Absent, M!Ids, MP!Ids
<1> QED
  BY <1>1, <1>2, <1>3, <1>4, <1>5, <1>6, <1>7, <1>8, <1>9, <1>10, <1>11, <1>12, <1>13, <1>14,
     <1>15, <1>16, SameRegistered DEF M!Next, MP!Next

RP == INSTANCE Replica_proofs

\* R and RP are to Replica what M and MP are to Members.
LEMMA SameSteps ==
    /\ \A S : R!ToSet(S) = RP!ToSet(S)
    /\ R!ReplicaSteps = RP!ReplicaSteps
    /\ \A c : R!Pending(c) = RP!Pending(c) /\ R!Indexes(c) = RP!Indexes(c)
    /\ \A c : R!Done(c) = RP!Done(c) /\ R!Running(c) = RP!Running(c)
    /\ \A n : R!OldFailedAt(n) = RP!OldFailedAt(n) /\ R!ResetFrom(n) = RP!ResetFrom(n)
    /\ R!Current = RP!Current /\ R!Failed = RP!Failed /\ R!Converted = RP!Converted
  BY DEF R!ToSet, RP!ToSet, R!ReplicaSteps, RP!ReplicaSteps, R!SingleSteps, RP!SingleSteps,
     R!Pending, RP!Pending, R!Indexes, RP!Indexes, R!Current, RP!Current, R!Done, RP!Done,
     R!Running, RP!Running, R!OldFailedAt, RP!OldFailedAt, R!ResetFrom, RP!ResetFrom, R!Failed,
     RP!Failed, R!StatusOf, RP!StatusOf, R!Converted, RP!Converted

LEMMA SameParams ==
    /\ R!Forms = RP!Forms /\ R!Params = RP!Params /\ R!Masters = RP!Masters
    /\ \A f : R!Resolved(f) = RP!Resolved(f) /\ R!ReplicaResolved(f) = RP!ReplicaResolved(f)
    /\ \A p : R!Repaired(p) = RP!Repaired(p) /\ R!WithRoot(p) = RP!WithRoot(p)
                /\ R!WithInstall(p) = RP!WithInstall(p)
    /\ R!RootAtHand = RP!RootAtHand
  BY DEF R!ServerIds, RP!ServerIds, R!Forms, RP!Forms, R!Installs, RP!Installs, R!Params,
     RP!Params, R!Masters, RP!Masters, R!Resolved, RP!Resolved, R!ReplicaResolved,
     RP!ReplicaResolved, R!Repaired, RP!Repaired, R!WithRoot, RP!WithRoot, R!BySql, RP!BySql,
     R!ByProcess, RP!ByProcess, R!WithInstall, RP!WithInstall, R!RootAtHand, RP!RootAtHand

LEMMA SamePlaybook ==
    /\ \A c : (R!Succeeds(c) <=> RP!Succeeds(c)) /\ (R!Fails(c) <=> RP!Fails(c))
    /\ \A c, sid : R!Playbook(c, sid) <=> RP!Playbook(c, sid)
  BY DEF R!End, RP!End, R!Succeeds, RP!Succeeds, R!Fails, RP!Fails, R!NeedAccounts,
     RP!NeedAccounts, R!Playbook, RP!Playbook, R!Indexes, RP!Indexes

LEMMA SameReplica == R!Next => RP!Next
<1>1. R!Create \/ R!Inherit => RP!Create \/ RP!Inherit
  BY SameSteps, SameParams DEF R!Create, RP!Create, R!Inherit, RP!Inherit
<1>2. R!Cancel \/ R!Resume \/ R!Refresh => RP!Cancel \/ RP!Resume \/ RP!Refresh
  BY SameSteps, SameParams DEF R!Cancel, RP!Cancel, R!Resume, RP!Resume, R!StartsOver,
     RP!StartsOver, R!Refresh, RP!Refresh
<1>3. R!EditMaster \/ R!Start \/ R!BeginStep \/ R!Finish
      => RP!EditMaster \/ RP!Start \/ RP!BeginStep \/ RP!Finish
  BY SameSteps DEF R!EditMaster, RP!EditMaster, R!Start, RP!Start, R!BeginStep, RP!BeginStep,
     R!Finish, RP!Finish
<1>4. R!Configure \/ R!Bootstrap => RP!Configure \/ RP!Bootstrap
  BY SameSteps, SameParams, SamePlaybook DEF R!Configure, RP!Configure, R!Bootstrap, RP!Bootstrap
<1>5. R!SemiSync => RP!SemiSync
  BY SameSteps, SameParams, SamePlaybook, Zenon DEF R!SemiSync, RP!SemiSync
<1>6. R!Setup \/ R!Verify \/ R!Register => RP!Setup \/ RP!Verify \/ RP!Register
  BY SameSteps, SameParams, SamePlaybook DEF R!Setup, RP!Setup, R!Verify, RP!Verify, R!Register,
     RP!Register
<1> QED
  BY <1>1, <1>2, <1>3, <1>4, <1>5, <1>6 DEF R!Next, RP!Next

\* Each step of the whole is one of one part, and leaves the others alone.
LEMMA Composed == MCSpec => Spec /\ MP!Spec /\ RP!Spec
<1>1. MCInit => Init /\ MP!Init /\ RP!Init
  <2>1. R!Init => RP!Init
    BY DEF R!Init, RP!Init, R!NoJob, RP!NoJob, R!Masters, RP!Masters, R!ServerIds, RP!ServerIds,
       R!Resolved, RP!Resolved
  <2> QED
    BY <2>1 DEF MCInit, M!Init, MP!Init, M!Idle, MP!Idle, M!Absent, MP!Absent, M!Ids, MP!Ids
<1>2. [MCNext]_<<area, memberVars, vars, replicaVars>> =>
          [Next]_vars /\ [MP!Next]_(MP!vars) /\ [RP!Next]_(RP!vars)
  <2>1. (UNCHANGED memberVars => UNCHANGED MP!vars) /\ (UNCHANGED replicaVars => UNCHANGED RP!vars)
    BY DEF memberVars, MP!vars, replicaVars, RP!vars
  <2>2. CASE UNCHANGED <<area, memberVars, vars, replicaVars>>
    BY <2>1, <2>2
  <2>3. CASE MCNext
    BY <2>1, <2>3, SameNext, SameReplica DEF MCNext
  <2> QED
    BY <2>2, <2>3
<1> QED
  BY <1>1, <1>2, PTL DEF MCSpec, Spec, MP!Spec, RP!Spec

LEMMA Apartness == Apart
  BY LedgerAssumption DEF Apart

LEMMA Known == None \notin Instances /\ MaxRows \in Nat /\ MaxRuns \in Nat
  BY LedgerAssumption

\* The rows, requests and jobs of the three parts keep their types (RowsTyped).
THEOREM LedgerRows == ASSUME Engines # {} PROVE MCSpec => []RowsTyped
<1>1. MP!TypeOK => M!TypeOK
  BY DEF MP!TypeOK, M!TypeOK, MP!Ids, M!Ids, MP!Rows, M!Rows, MP!Absent, M!Absent
<1>2. MP!Spec => []MP!TypeOK
  BY Known, MP!MemberTypes
<1>3. Spec => []TypeOK
  BY Apartness, LedgerTypes
<1>4. RP!TypeOK => R!TypeOK
  BY SameParams
     DEF R!TypeOK, RP!TypeOK, R!Codes, RP!Codes, R!ToSet, RP!ToSet, R!ReplicaSteps,
     RP!ReplicaSteps, R!SingleSteps, RP!SingleSteps, R!StepStatus, RP!StepStatus, R!ServerIds,
     RP!ServerIds
<1>5. RP!Spec => []RP!TypeOK
  BY Known, RP!ReplicaTypes
<1> QED
  BY <1>1, <1>2, <1>3, <1>4, <1>5, Composed, PTL DEF RowsTyped

\* However the ledger's requests interleave, an instance has one primary node at
\* most, unless it is known to be disturbed or a request is about to clear the
\* others (_ensure_single_primary_host).
THEOREM LedgerPrimary == MCSpec => []SinglePrimary
<1>1. MP!SinglePrimary => M!SinglePrimary
  BY DEF M!SinglePrimary, MP!SinglePrimary, M!Flagged, MP!Flagged, M!RowsOf, MP!RowsOf, M!Ids, MP!Ids
<1>2. MP!Spec => []MP!SinglePrimary
  BY Known, MP!PrimarySingle
<1> QED
  BY <1>1, <1>2, Composed, PTL DEF SinglePrimary

\* However they interleave, two accounts of an instance are default only while a request
\* is about to clear the other, and none of several is only while one is about to pick a
\* default (_ensure_single_default_account and its fallbacks), with the six exceptions
\* that OneDefault and Members_proofs!DefaultAccount name: an update that takes the
\* default away, a clear that comes after another's, a pick or a read out of date, a
\* registration that others got into, and a request that died half-way.
THEOREM LedgerDefault == MCSpec => []OneDefault
<1>1. MP!OneDefault => M!OneDefault
  BY SameRows DEF M!OneDefault, MP!OneDefault, M!DefaultDue, MP!DefaultDue
<1>2. MP!Spec => []MP!OneDefault
  BY Known, MP!DefaultAccount
<1> QED
  BY <1>1, <1>2, Composed, PTL DEF OneDefault

\* However often a replica's job fails, is resumed, cancelled and retried, and for a job
\* from before replicas had steps of their own: a replica that replicates has a server_id of
\* its own, and the ledger has it, unless its configure step counted as done without having
\* asked the master (mysql_replica.py, ensure_mysql_replica_job_steps).
THEOREM LedgerServerId == MCSpec => []OwnServerId
<1>1. RP!OwnServerId => R!OwnServerId
  BY SameSteps DEF R!OwnServerId, RP!OwnServerId
<1>2. RP!Spec => []RP!OwnServerId
  BY Known, RP!ServerIdOwned
<1> QED
  BY <1>1, <1>2, Composed, PTL DEF OwnServerId

\* Of a replica the row comes after every other step of its job, one that is taken up in
\* the middle of the old list included.
THEOREM LedgerRowLast == MCSpec => RegisteredLast
<1>1. [status # "none" /\ registered' # registered =>
         \A code \in RP!ToSet(RP!ReplicaSteps) \ {"register_cmdb"} : RP!Done(code)]_(RP!vars)
      => [status # "none" /\ registered' # registered =>
            \A code \in R!ToSet(R!ReplicaSteps) \ {"register_cmdb"} : R!Done(code)]_(R!vars)
  BY SameSteps DEF R!vars, RP!vars
<1>2. RP!Spec => RP!RegisteredLast
  BY Known, RP!RowComesLast
<1> QED
  BY <1>1, <1>2, Composed, PTL DEF RegisteredLast, R!RegisteredLast, RP!RegisteredLast
================================================================================
