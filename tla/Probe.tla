---------------------------------- MODULE Probe ---------------------------------
(***************************************************************************)
(* The connectivity probe (dbmgr/probe_services.py) and the dashboard that  *)
(* shows its results (dbmgr/services.py).  Celery beat starts a round every *)
(* minute, whether or not an earlier one is still going; a round works down *)
(* the list it loaded at its start while users edit and delete the rows.    *)
(*                                                                          *)
(* A target is <<i, n>>: deploy host n of instance i, or, for n = 0, the    *)
(* instance itself.                                                         *)
(***************************************************************************)
EXTENDS Naturals, FiniteSets

CONSTANTS
    MaxInstance,  \* instances have the ids 1..MaxInstance
    Nodes,        \* the deploy hosts <<i, n>>, n > 0, that an instance i may have
    Clustered,    \* the instances that start as high-availability clusters, with
                  \* all their deploy hosts
    EngineOf,     \* the engine of each instance, which no form can change
    Rounds,       \* rounds that may be under way at a time
    MaxEdits,     \* bound: edits and deletions by users
    Mistyped,     \* bound: the rows whose address users may get wrong
    Gone

Ids == 1..MaxInstance
Targets == (Ids \X {0}) \cup Nodes
Engines == {"mysql", "postgresql", "oracle", "mssql"}

VARIABLES
    inst,    \* topology and status of each instance; Gone if there is no row
    shown,   \* probe_status of each row; Gone if there is no row
    malformed, \* rows with an address that no look-up can take, as an over-long name
    form,    \* the edit in progress: the row as it was loaded
    edits,   \* edits and deletions begun so far
    round    \* the progress of each round

vars == <<inst, shown, malformed, form, edits, round>>

--------------------------------------------------------------------------------
Status == {"alive", "dead", "maintenance", "unknown"}
Rows == [ha : BOOLEAN, maintained : BOOLEAN]
NoForm == [target |-> <<0, 0>>, shown |-> Gone]

Zero == [s \in Status |-> 0]

\* maintained, unusable: the instances in maintenance, and the rows of others
\* with a malformed address, as the round read them at its start;
\* clean: no edit, and no other round, since then; the summary that a round
\* counts up is followed only as long as it is
Resting == [pc |-> "resting", maintained |-> {}, unusable |-> {}, todo |-> {},
            result |-> "unknown", summary |-> Zero, clean |-> TRUE]

Instance(i) == <<i, 0>>
Exists(t) == shown[t] # Gone
NodesOf(i) == {t \in Targets : t[1] = i /\ t[2] > 0 /\ Exists(t)}

Init ==
    /\ inst = [i \in Ids |-> [ha |-> i \in Clustered, maintained |-> FALSE]]
    /\ shown = [t \in Targets |-> IF t[2] = 0 \/ t[1] \in Clustered THEN "unknown" ELSE Gone]
    /\ malformed = {}
    /\ form = NoForm
    /\ edits = 0
    /\ round = [r \in Rounds |-> Resting]

UnderWay(r) == round[r].pc \in {"probing", "saving"}

\* Of a round that was disturbed nothing is kept but what it has yet to do.
Unclean(state) ==
    IF state.pc \in {"probing", "saving"} THEN [state EXCEPT !.clean = FALSE, !.summary = Zero]
    ELSE Resting
Disturb == [r \in Rounds |-> Unclean(round[r])]

--------------------------------------------------------------------------------
(* Rounds *)

Listed == {i \in Ids : inst[i] # Gone}

ProbedEveryNodeBug(i) == {Instance(i)} \cup NodesOf(i)

\* Deploy hosts are probed for high-availability clusters only.
Probed(i) == {Instance(i)} \cup (IF inst[i].ha THEN NodesOf(i) ELSE {})

\* The rows whose contact raises, and ends the round.
Raises(t) == t \in malformed /\ ~inst[t[1]].maintained

BeginRound(r) ==
    /\ ~UnderWay(r)
    /\ round' = [Disturb EXCEPT
                   ![r] = [Resting EXCEPT !.pc = "probing",
                                          !.maintained = {i \in Listed : inst[i].maintained},
                                          !.unusable = {t \in UNION {Probed(i) : i \in Listed} : Raises(t)},
                                          !.todo = UNION {Probed(i) : i \in Listed},
                                          !.clean = \A s \in Rounds : ~UnderWay(s)]]
    /\ UNCHANGED <<inst, shown, malformed, form, edits>>

\* By id, each instance before its deploy hosts.
Before(t, u) == t[1] < u[1] \/ (t[1] = u[1] /\ t[2] <= u[2])
NextTarget(r) == CHOOSE t \in round[r].todo : \A u \in round[r].todo : Before(t, u)

OutcomesOfInstanceBug(r, t) ==
    IF t[2] = 0 /\ t[1] \in round[r].maintained THEN {"maintenance"}
    ELSE IF t \in round[r].unusable THEN {} ELSE {"alive", "dead"}

\* A maintained instance, and its deploy hosts, are not contacted.  A port that
\* does not answer, a host without an address, a login that fails: all dead.
\* Of a malformed address nothing comes back: what it raises is no OSError.
Outcomes(r, t) ==
    IF t[1] \in round[r].maintained THEN {"maintenance"}
    ELSE IF t \in round[r].unusable THEN {} ELSE {"alive", "dead"}

\* Nothing up to the task catches what _tcp_reachable does not: the round ends.
Contact(r) ==
    /\ round[r].pc = "probing"
    /\ round[r].todo # {}
    /\ \/ \E s \in Outcomes(r, NextTarget(r)) :
            round' = [round EXCEPT ![r].pc = "saving", ![r].result = s]
       \/ /\ Outcomes(r, NextTarget(r)) = {}
          /\ round' = [round EXCEPT ![r] = Resting]
    /\ UNCHANGED <<inst, shown, malformed, form, edits>>

\* save(update_fields=...) raises if the row is gone, and the round with it.
SaveResult(r) ==
    LET t == NextTarget(r)  s == round[r].result IN
    /\ round[r].pc = "saving"
    /\ IF Exists(t)
       THEN /\ shown' = [shown EXCEPT ![t] = s]
            /\ round' = [round EXCEPT ![r].pc = "probing", ![r].todo = @ \ {t},
                                      ![r].result = "unknown",
                                      ![r].summary[s] = IF round[r].clean THEN @ + 1 ELSE @]
       ELSE round' = [round EXCEPT ![r] = Resting] /\ UNCHANGED shown
    /\ UNCHANGED <<inst, malformed, form, edits>>

EndRound(r) ==
    /\ round[r].pc = "probing"
    /\ round[r].todo = {}
    /\ round' = [round EXCEPT ![r] = IF @.clean THEN [@ EXCEPT !.pc = "done", !.maintained = {},
                                                                       !.unusable = {}]
                                     ELSE Resting]
    /\ UNCHANGED <<inst, shown, malformed, form, edits>>

--------------------------------------------------------------------------------
(* Users: the forms save whole rows, with the probe columns as loaded *)

Touch == round' = Disturb

\* An address is free text: it is stored as it was typed.
StoreAddress(t) == malformed' \in {malformed \ {t}, malformed \cup ({t} \cap Mistyped)}

\* Ids are never given twice; one that nobody knows any more stands for a new
\* one.
Unborn(t) ==
    /\ ~Exists(t)
    /\ form.target # t
    /\ \A r \in Rounds : t \notin round[r].todo

CreateInstance(i) ==
    /\ edits < MaxEdits
    /\ \A t \in Targets : t[1] = i => Unborn(t)
    /\ \E row \in Rows : inst' = [inst EXCEPT ![i] = row]
    /\ shown' = [shown EXCEPT ![Instance(i)] = "unknown"]
    /\ StoreAddress(Instance(i))
    /\ edits' = edits + 1
    /\ Touch
    /\ UNCHANGED form

CreateNode(t) ==
    /\ edits < MaxEdits
    /\ t[2] > 0 /\ Unborn(t) /\ inst[t[1]] # Gone
    /\ shown' = [shown EXCEPT ![t] = "unknown"]
    /\ StoreAddress(t)
    /\ edits' = edits + 1
    /\ Touch
    /\ UNCHANGED <<inst, form>>

LoadForm(t) ==
    /\ edits < MaxEdits
    /\ form = NoForm
    /\ Exists(t)
    /\ form' = [target |-> t, shown |-> shown[t]]
    /\ edits' = edits + 1
    /\ UNCHANGED <<inst, shown, malformed, round>>

SaveFormUncheckedBug ==
    /\ form # NoForm
    /\ IF form.target[2] = 0
       THEN \E row \in Rows : inst' = [inst EXCEPT ![form.target[1]] = row]
       ELSE UNCHANGED inst
    /\ shown' = [shown EXCEPT ![form.target] = form.shown]
    /\ StoreAddress(form.target)
    /\ form' = NoForm
    /\ Touch
    /\ UNCHANGED edits

\* The save inserts a row that is gone again; of a deploy host, only if its
\* instance is still there.
SaveForm ==
    LET t == form.target IN
    /\ form # NoForm
    /\ IF t[2] = 0
       THEN \E row \in Rows : inst' = [inst EXCEPT ![t[1]] = row]
       ELSE UNCHANGED inst
    /\ IF inst'[t[1]] # Gone
       THEN shown' = [shown EXCEPT ![t] = form.shown] /\ StoreAddress(t)
       ELSE UNCHANGED <<shown, malformed>>
    /\ form' = NoForm
    /\ Touch
    /\ UNCHANGED edits

Delete(t) ==
    /\ edits < MaxEdits
    /\ Exists(t)
    /\ inst' = IF t[2] = 0 THEN [inst EXCEPT ![t[1]] = Gone] ELSE inst
    /\ shown' = [u \in Targets |-> IF u = t \/ (t[2] = 0 /\ u[1] = t[1]) THEN Gone ELSE shown[u]]
    /\ malformed' = {u \in malformed : shown'[u] # Gone}
    /\ edits' = edits + 1
    /\ Touch
    /\ UNCHANGED form

Next ==
    \/ \E r \in Rounds : BeginRound(r) \/ Contact(r) \/ SaveResult(r) \/ EndRound(r)
    \/ \E i \in Ids : CreateInstance(i)
    \/ \E t \in Targets : CreateNode(t) \/ LoadForm(t) \/ Delete(t)
    \/ SaveForm

Spec == Init /\ [][Next]_vars

\* Beat fires for ever and a round under way goes on; users owe nothing.
Fairness == \A r \in Rounds : WF_vars(BeginRound(r) \/ Contact(r) \/ SaveResult(r) \/ EndRound(r))
FairSpec == Spec /\ Fairness

--------------------------------------------------------------------------------
(* The dashboard *)

CountedOf(i) == {Instance(i)} \cup (IF inst[i].ha THEN NodesOf(i) ELSE {})

EngineSummary(e) ==
    [s \in Status |-> Cardinality({t \in UNION {CountedOf(i) : i \in Listed} :
                                     EngineOf[t[1]] = e /\ shown[t] = s})]

Overall ==
    [s \in Status |-> EngineSummary("mysql")[s] + EngineSummary("postgresql")[s]
                      + EngineSummary("oracle")[s] + EngineSummary("mssql")[s]]

--------------------------------------------------------------------------------
(* Properties *)

TypeOK ==
    /\ inst \in [Ids -> Rows \cup {Gone}]
    /\ shown \in [Targets -> Status \cup {Gone}]
    /\ \A t \in Targets : Exists(t) => inst[t[1]] # Gone
    /\ malformed \subseteq {t \in Targets : Exists(t)}
    /\ form.target \in Targets \cup {NoForm.target} /\ form.shown \in Status \cup {Gone}
    /\ edits \in 0..MaxEdits
    /\ \A r \in Rounds :
        /\ round[r].pc \in {"resting", "probing", "saving", "done"}
        /\ round[r].maintained \subseteq Ids
        /\ round[r].unusable \subseteq Targets /\ round[r].todo \subseteq Targets
        /\ round[r].result \in Status
        /\ round[r].summary \in [Status -> 0..Cardinality(Targets)]
        /\ round[r].clean \in BOOLEAN

\* probe_all_instances and build_dashboard_data count separately: what a round
\* that nobody disturbed reports is what the dashboard shows next, engine by
\* engine, with the deploy hosts of clusters and of nothing else.
SummaryAgrees ==
    \A r \in Rounds : round[r].pc = "done" => round[r].summary = Overall

\* The rows before any whose contact raises.
Reached(t) == \A i \in Listed : \A u \in CountedOf(i) : Raises(u) => ~Before(u, t)

\* Once users stop editing, the dashboard comes to show a result for every row
\* before the first with a malformed address, and maintenance where and only
\* where an instance is in maintenance, for good: whatever rounds overlapped,
\* were ended by a row deleted under them or by an address corrected since, and
\* whatever stale results a form had written back.  Where no address of a row
\* that is contacted is malformed, that is every row; behind the first one that
\* is, no round ever comes.
DashboardSettles ==
    <>[](\A i \in Listed : \A t \in CountedOf(i) :
            Reached(t) => /\ shown[t] # "unknown"
                          /\ shown[t] = "maintenance" <=> inst[i].maintained)
================================================================================
