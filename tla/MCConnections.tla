------------------------------ MODULE MCConnections -----------------------------
(* What the program keeps connected, for TLC: a behaviour is about the probe  *)
(* and its dashboard (Probe) or about web terminals (Terminal), which share   *)
(* nothing but the hosts they connect to.  Their states are added instead of  *)
(* multiplied, and each part keeps the fairness of its own module.            *)
EXTENDS Probe, TLC

CONSTANTS Sessions, Pool

ASSUME ConnectionsAssumption ==
    /\ MaxInstance \in Nat \ {0} /\ MaxEdits \in Nat
    /\ IsFiniteSet(Rounds) /\ IsFiniteSet(Sessions)
    /\ IsFiniteSet(Nodes) /\ Nodes \subseteq Ids \X (Nat \ {0})
    /\ Clustered \subseteq Ids /\ Mistyped \subseteq Targets
    /\ EngineOf \in [Ids -> Engines]
    /\ Gone \notin Status \cup Rows
    /\ Pool \in Nat \ {0}

VARIABLES area, handler, left, ssh, chan, running, thread, queue, told, shellless

terminalVars == <<handler, left, ssh, chan, running, thread, queue, told, shellless>>

T == INSTANCE Terminal

MCInit == Init /\ T!Init /\ area \in {"probe", "terminal"}

MCNext ==
    \/ area = "probe" /\ Next /\ UNCHANGED <<area, terminalVars>>
    \/ area = "terminal" /\ T!Next /\ UNCHANGED <<area, vars>>

ProbeFairness ==
    \A r \in Rounds :
        WF_vars(area = "probe" /\ (BeginRound(r) \/ Contact(r) \/ SaveResult(r) \/ EndRound(r)))

TerminalFairness ==
    /\ WF_terminalVars(area = "terminal" /\ T!StartThread)
    /\ \A s \in Sessions :
        /\ WF_terminalVars(area = "terminal" /\ (T!LoginSucceeds(s) \/ T!LoginFails(s)))
        /\ WF_terminalVars(area = "terminal" /\ T!Announce(s))
        /\ WF_terminalVars(area = "terminal" /\ T!EndReader(s))
        /\ WF_terminalVars(area = "terminal" /\ T!Leave(s))
        /\ WF_terminalVars(area = "terminal" /\ T!Disconnect(s))

MCSpec == MCInit /\ [][MCNext]_<<area, vars, terminalVars>>
MCFairSpec == MCSpec /\ ProbeFairness /\ TerminalFairness

\* For a run: one deploy host, of an instance that starts as a cluster and may
\* become a single one; one engine that may be clustered and one that has its
\* own table.
OneNode == {<<i, 1>> : i \in Clustered}
TwoEngines == [i \in Ids |-> IF i \in Clustered THEN "mysql" ELSE "oracle"]

\* Every row, round and session of both parts has its type.
RowsTyped == TypeOK /\ T!TypeOK

\* Properties as they are stated in Terminal, and, for behaviours about the
\* probe, in Probe.
NoOrphanConnection == T!NoOrphanConnection
ThreadsComeBack == T!ThreadsComeBack
ResultsSettle == area = "probe" => DashboardSettles
================================================================================
