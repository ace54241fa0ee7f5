---------------------------- MODULE RemoteTask_proofs ----------------------------
(***************************************************************************)
(* Theorems about RemoteTask, for any tasks, hosts and workers, with and   *)
(* without crashes, redelivered messages and deletions.                    *)
(***************************************************************************)
EXTENDS RemoteTask, FiniteSetTheorems, TLAPS

--------------------------------------------------------------------------------
(* Inductive invariants *)

\* A worker that is busy has a task.
Busy == \A w \in Workers : worker[w].pc # "idle" <=> worker[w].task # NoTask

\* A task nobody has created yet has no row, no message and no run.
Unborn(t) == creation[t] = "none" => ~Exists(t) /\ queue[t] = 0 /\ ~InFlight(t)

\* A task that is gone is not being run, and will not be created again.
GoneInv ==
    /\ \A t \in Tasks : Unborn(t)
    /\ \A t \in gone : creation[t] # "none" /\ ~Exists(t) /\ \A w \in Workers : ~Runs(w, t)

\* Until all host rows are there, there is no message and no run; a run knows them all.
Prepared == {"marked", "recording", "failing", "failed"}
Whole(t) ==
    /\ creation[t] # "done" => queue[t] = 0 /\ ~InFlight(t)
    /\ creation[t] # "none" => Exists(t)
    /\ creation[t] \in {"added", "done"} => HostsOf(t, "absent") = {}
    /\ \A w \in Workers :
           worker[w].task = t /\ worker[w].pc \in Prepared => worker[w].hosts = Targets[t]
WholeInv == \A t \in Tasks \ deleted : Whole(t)

\* A task that was never run twice at a time has one worker, and its status follows it.
Alone == \A v, w \in Workers :
    v # w /\ worker[v].task = worker[w].task => worker[v].task \in overlapped \cup {NoTask}
Follows(t) == \A w \in Workers : worker[w].task = t =>
    /\ worker[w].pc \in {"started", "marked", "recording", "failing"} => task[t] = "running"
    /\ worker[w].pc = "failed" => task[t] = "failed"
StatusInv == Alone /\ \A t \in Tasks \ (deleted \cup overlapped) : Follows(t)

\* The worker's counters are those of the host rows at any time while it records.
Tallied(t, c) ==
    /\ c.ok = Cardinality(HostsOf(t, "success"))
    /\ c.bad = Cardinality(HostsOf(t, "failed"))
Counting(t, w) ==
    /\ worker[w].pc \in {"taken", "started", "marked"} => worker[w].ok = 0 /\ worker[w].bad = 0
    /\ worker[w].pc = "marked" => Targets[t] \subseteq HostsOf(t, "running")
    /\ worker[w].pc = "recording" =>
           worker[w].todo \subseteq HostsOf(t, "running") /\ Tallied(t, worker[w])
Counts(t) ==
    /\ \A w \in Workers : worker[w].task = t => Counting(t, w)
    /\ task[t] = "completed" => Tallied(t, counts[t])
CountInv == \A t \in Tasks \ (deleted \cup overlapped) : Counts(t)

\* What is still running is what a distribution has left to do, or a failing run to fail.
Settles(t) ==
    /\ \A w \in Workers : worker[w].task = t /\ worker[w].pc = "recording" /\ t \in Files =>
           HostsOf(t, "running") \subseteq worker[w].todo
    /\ task[t] = "completed" /\ t \in Files => HostsOf(t, "running") = {}
    /\ task[t] = "failed" /\ (\A w \in Workers : worker[w].task = t => worker[w].pc = "taken")
           => HostsOf(t, "running") = {}
SettleInv == \A t \in Tasks \ (deleted \cup overlapped \cup crashed) : Settles(t)

--------------------------------------------------------------------------------
(* What one move of a worker does *)

Others(w) == \A v \in Workers \ {w} : worker'[v] = worker[v]
PC == {"taken", "started", "marked", "recording", "failing", "failed"}
SameTally(w) == worker'[w].ok = worker[w].ok /\ worker'[w].bad = worker[w].bad

\* Becomes changes one worker.
LEMMA Moves ==
    ASSUME worker \in [Workers -> WorkerState], NEW w \in Workers, NEW x \in WorkerState,
           Becomes(w, x)
    PROVE  worker' \in [Workers -> WorkerState] /\ worker'[w] = x /\ Others(w)
  BY DEF Becomes, Others

\* A worker that goes on keeps its task and what it knows of it.
LEMMA WorkerGoes ==
    ASSUME worker \in [Workers -> WorkerState], NEW w \in Workers, NEW pc \in PC, GoTo(w, pc)
    PROVE  /\ worker' \in [Workers -> WorkerState] /\ Others(w)
           /\ worker'[w].pc = pc /\ worker'[w].task = worker[w].task
           /\ worker'[w].hosts = worker[w].hosts /\ SameTally(w)
<1> DEFINE x == [worker[w] EXCEPT !.pc = pc]
<1>1. worker[w] \in WorkerState
  OBVIOUS
<1>2. /\ x \in WorkerState /\ x.pc = pc /\ x.task = worker[w].task
      /\ x.hosts = worker[w].hosts /\ x.ok = worker[w].ok /\ x.bad = worker[w].bad
  BY <1>1 DEF WorkerState, PC
<1>3. Becomes(w, x)
  BY DEF GoTo
<1> HIDE DEF x
<1>4. QED
  BY <1>2, <1>3, Moves DEF SameTally

\* A worker that ends its run is idle.
LEMMA WorkerEnds ==
    ASSUME worker \in [Workers -> WorkerState], NEW w \in Workers, EndRun(w)
    PROVE  /\ worker' \in [Workers -> WorkerState] /\ Others(w)
           /\ worker'[w].pc = "idle" /\ worker'[w].task = NoTask
<1>1. Idle \in WorkerState /\ Idle.pc = "idle" /\ Idle.task = NoTask
  BY DEF Idle, WorkerState
<1>2. QED
  BY <1>1, Moves DEF EndRun

\* A worker that takes a message knows nothing but its task.
LEMMA WorkerTakes ==
    ASSUME worker \in [Workers -> WorkerState], NEW w \in Workers, NEW t \in Tasks,
           Becomes(w, [Idle EXCEPT !.pc = "taken", !.task = t])
    PROVE  /\ worker' \in [Workers -> WorkerState] /\ Others(w)
           /\ worker'[w].pc = "taken" /\ worker'[w].task = t
           /\ worker'[w].ok = 0 /\ worker'[w].bad = 0
<1> DEFINE x == [Idle EXCEPT !.pc = "taken", !.task = t]
<1>1. x \in WorkerState /\ x.pc = "taken" /\ x.task = t /\ x.ok = 0 /\ x.bad = 0
  BY DEF Idle, WorkerState
<1> HIDE DEF x
<1>2. QED
  BY <1>1, Moves DEF x

\* A worker that has an exception to handle keeps its task.
LEMMA WorkerFails ==
    ASSUME worker \in [Workers -> WorkerState], NEW w \in Workers, NEW H \in SUBSET Hosts,
           FailWith(w, H)
    PROVE  /\ worker' \in [Workers -> WorkerState] /\ Others(w)
           /\ worker'[w].pc = "failing" /\ worker'[w].task = worker[w].task
           /\ worker'[w].hosts = worker[w].hosts
<1> DEFINE x == [worker[w] EXCEPT !.pc = "failing", !.doomed = H]
<1>1. worker[w] \in WorkerState
  OBVIOUS
<1>2. /\ x \in WorkerState
      /\ x.pc = "failing" /\ x.task = worker[w].task /\ x.hosts = worker[w].hosts
  BY <1>1 DEF WorkerState
<1>3. Becomes(w, x)
  BY DEF FailWith
<1> HIDE DEF x
<1>4. QED
  BY <1>2, <1>3, Moves

\* A worker that begins to record has the hosts it is given to do.
LEMMA WorkerRecords ==
    ASSUME worker \in [Workers -> WorkerState], NEW w \in Workers, NEW H \in SUBSET Hosts,
           NEW D \in SUBSET Hosts, RecordFor(w, H, D)
    PROVE  /\ worker' \in [Workers -> WorkerState] /\ Others(w)
           /\ worker'[w].pc = "recording" /\ worker'[w].task = worker[w].task
           /\ worker'[w].hosts = worker[w].hosts /\ worker'[w].todo = H /\ SameTally(w)
<1> DEFINE x == [worker[w] EXCEPT !.pc = "recording", !.todo = H, !.doomed = D]
<1>1. worker[w] \in WorkerState
  OBVIOUS
<1>2. /\ x \in WorkerState /\ x.pc = "recording" /\ x.task = worker[w].task
      /\ x.hosts = worker[w].hosts /\ x.todo = H
      /\ x.ok = worker[w].ok /\ x.bad = worker[w].bad
  BY <1>1 DEF WorkerState
<1>3. Becomes(w, x)
  BY DEF RecordFor
<1> HIDE DEF x
<1>4. QED
  BY <1>2, <1>3, Moves DEF SameTally

\* MarkHosts gives a worker its hosts and nothing else.
LEMMA WorkerMarks ==
    ASSUME worker \in [Workers -> WorkerState], NEW w \in Workers, MarkHosts(w),
           worker[w].task \in Tasks, Targets \in [Tasks -> SUBSET Hosts]
    PROVE  /\ worker' \in [Workers -> WorkerState] /\ Others(w)
           /\ worker'[w].pc = "marked" /\ worker'[w].task = worker[w].task /\ SameTally(w)
           /\ worker'[w].hosts = Targets[worker[w].task] \ HostsOf(worker[w].task, "absent")
<1> DEFINE H == Targets[worker[w].task] \ HostsOf(worker[w].task, "absent")
           x == [worker[w] EXCEPT !.pc = "marked", !.hosts = H]
<1>1. worker[w] \in WorkerState /\ H \in SUBSET Hosts
  OBVIOUS
<1>2. Becomes(w, x)
  BY DEF MarkHosts
<1> HIDE DEF H
<1>3. /\ x \in WorkerState /\ x.pc = "marked" /\ x.task = worker[w].task /\ x.hosts = H
      /\ x.ok = worker[w].ok /\ x.bad = worker[w].bad
  BY <1>1 DEF WorkerState
<1> HIDE DEF x
<1>4. QED
  BY <1>2, <1>3, Moves DEF SameTally, H

\* A worker that has counted a host has one less to do.
LEMMA WorkerCounts ==
    ASSUME worker \in [Workers -> WorkerState], NEW w \in Workers, NEW h, NEW n \in Nat,
           NEW m \in Nat, Counted(w, h, n, m)
    PROVE  /\ worker' \in [Workers -> WorkerState] /\ Others(w)
           /\ worker'[w].pc = worker[w].pc /\ worker'[w].task = worker[w].task
           /\ worker'[w].hosts = worker[w].hosts
           /\ worker'[w].todo = worker[w].todo \ {h}
           /\ worker'[w].ok = worker[w].ok + n
           /\ worker'[w].bad = worker[w].bad + m
<1> DEFINE T == worker[w].todo \ {h}
           N == worker[w].ok + n
           M == worker[w].bad + m
           x == [worker[w] EXCEPT !.todo = T, !.ok = N, !.bad = M]
<1>1. worker[w] \in WorkerState
  OBVIOUS
<1>2. T \in SUBSET Hosts /\ N \in Nat /\ M \in Nat
  BY <1>1 DEF WorkerState
<1>3. Becomes(w, x)
  BY DEF Counted
<1> HIDE DEF T, N, M
<1>4. /\ x \in WorkerState /\ x.pc = worker[w].pc /\ x.task = worker[w].task
      /\ x.hosts = worker[w].hosts /\ x.todo = T /\ x.ok = N /\ x.bad = M
  BY <1>1, <1>2 DEF WorkerState
<1> HIDE DEF x
<1>5. QED
  BY <1>3, <1>4, Moves DEF T, N, M

\* An update of host rows reaches the rows that are there.
LEMMA HostsChange ==
    ASSUME host \in [Tasks -> [Hosts -> HostStatus]], NEW t \in Tasks, NEW H,
           NEW s \in HostStatus, SetHosts(t, H, s)
    PROVE  /\ host' \in [Tasks -> [Hosts -> HostStatus]]
           /\ \A u \in Tasks \ {t} : host'[u] = host[u]
           /\ \A h \in Hosts :
                  host'[t][h] = IF h \in H /\ host[t][h] # "absent" THEN s ELSE host[t][h]
<1> DEFINE f == [h \in Hosts |-> IF h \in H /\ host[t][h] # "absent" THEN s ELSE host[t][h]]
<1>1. f \in [Hosts -> HostStatus]
  BY Zenon
<1>2. host' = [host EXCEPT ![t] = f]
  BY DEF SetHosts
<1>3. \A h \in Hosts :
          f[h] = IF h \in H /\ host[t][h] # "absent" THEN s ELSE host[t][h]
  OBVIOUS
<1> HIDE DEF f
<1>4. QED
  BY <1>1, <1>2, <1>3

\* A prepared worker goes on to record, or to handle an exception.
PrepareMoves(w) ==
    /\ worker' \in [Workers -> WorkerState] /\ Others(w)
    /\ worker'[w].task = worker[w].task /\ worker'[w].hosts = worker[w].hosts
    /\ \/ worker'[w].pc = "failing"
       \/ /\ worker'[w].pc = "recording" /\ SameTally(w)
          /\ worker'[w].todo \subseteq worker[w].hosts

\* run_batch_task after the hosts are marked.
LEMMA PlaybookMoves ==
    ASSUME worker \in [Workers -> WorkerState], NEW w \in Workers, RunPlaybook(w),
           Targets \in [Tasks -> SUBSET Hosts], worker[w].task \in Tasks
    PROVE  PrepareMoves(w)
<1>1. worker[w] \in WorkerState
  OBVIOUS
<1>2. worker[w].hosts \in SUBSET Hosts /\ {} \in SUBSET Hosts
  BY <1>1 DEF WorkerState
<1>3. CASE FailWith(w, {})
  BY <1>2, <1>3, WorkerFails DEF PrepareMoves
<1>4. CASE FailWith(w, Targets[worker[w].task])
  <2>1. Targets[worker[w].task] \in SUBSET Hosts
    OBVIOUS
  <2>2. QED
    BY <2>1, <1>4, WorkerFails DEF PrepareMoves
<1>5. ASSUME NEW named \in SUBSET worker[w].hosts, RecordFor(w, named, {})
      PROVE  PrepareMoves(w)
  <2>1. named \in SUBSET Hosts
    BY <1>2
  <2>2. QED
    BY <2>1, <1>2, <1>5, WorkerRecords DEF PrepareMoves
<1>6. CASE RecordFor(w, worker[w].hosts, worker[w].hosts)
  BY <1>2, <1>6, WorkerRecords DEF PrepareMoves
<1>7. QED
  BY <1>3, <1>4, <1>5, <1>6 DEF RunPlaybook

\* run_file_dist_task after the hosts are marked.
LEMMA SourceMoves ==
    ASSUME worker \in [Workers -> WorkerState], NEW w \in Workers, FetchSource(w)
    PROVE  /\ PrepareMoves(w)
           /\ worker'[w].pc = "recording" => worker'[w].todo = worker[w].hosts
<1>1. worker[w] \in WorkerState
  OBVIOUS
<1>2. worker[w].hosts \in SUBSET Hosts /\ {} \in SUBSET Hosts
  BY <1>1 DEF WorkerState
<1>3. CASE FailWith(w, {})
  BY <1>2, <1>3, WorkerFails DEF PrepareMoves
<1>4. ASSUME NEW D \in SUBSET worker[w].hosts, RecordFor(w, worker[w].hosts, D)
      PROVE  PrepareMoves(w) /\ worker'[w].todo = worker[w].hosts
  <2>1. D \in SUBSET Hosts
    BY <1>2
  <2>2. QED
    BY <2>1, <1>2, <1>4, WorkerRecords DEF PrepareMoves
<1>5. \/ FailWith(w, {})
      \/ \E D \in SUBSET worker[w].hosts : RecordFor(w, worker[w].hosts, D)
  <2>1. ASSUME NEW known \in SUBSET worker[w].hosts,
               RecordFor(w, worker[w].hosts, worker[w].hosts \ known)
        PROVE  \E D \in SUBSET worker[w].hosts : RecordFor(w, worker[w].hosts, D)
    <3>1. worker[w].hosts \ known \in SUBSET worker[w].hosts
      OBVIOUS
    <3>2. QED
      BY <2>1, <3>1
  <2>2. QED
    BY <2>1 DEF FetchSource
<1>6. CASE FailWith(w, {})
  BY <1>2, <1>6, WorkerFails DEF PrepareMoves
<1>7. QED
  BY <1>3, <1>4, <1>5, <1>6, WorkerFails, <1>2

\* A recorded host has its result in its row and in one of the worker's counters.
Recorded(w, h, s) ==
    /\ h \in worker[w].todo /\ SetHosts(worker[w].task, {h}, s)
    /\ worker' \in [Workers -> WorkerState] /\ Others(w)
    /\ worker'[w].pc = "recording" /\ worker'[w].task = worker[w].task
    /\ worker'[w].hosts = worker[w].hosts
    /\ worker'[w].todo = worker[w].todo \ {h}
    /\ worker'[w].ok = IF s = "success" THEN worker[w].ok + 1 ELSE worker[w].ok
    /\ worker'[w].bad = IF s = "failed" THEN worker[w].bad + 1 ELSE worker[w].bad

\* RecordHost records one host with one result.
LEMMA RecordMoves ==
    ASSUME worker \in [Workers -> WorkerState], NEW w \in Workers, RecordHost(w)
    PROVE  \E h \in worker[w].todo, s \in {"success", "failed"} : Recorded(w, h, s)
<1>1. worker[w] \in WorkerState /\ worker[w].pc = "recording"
  BY DEF RecordHost
<1>2. worker[w].ok \in Nat /\ worker[w].bad \in Nat
  BY <1>1 DEF WorkerState
<1>3. ASSUME NEW h \in worker[w].todo, SetHosts(worker[w].task, {h}, "success"),
             Counted(w, h, 1, 0)
      PROVE  Recorded(w, h, "success")
  <2>1. /\ worker' \in [Workers -> WorkerState] /\ Others(w)
        /\ worker'[w].pc = worker[w].pc /\ worker'[w].task = worker[w].task
        /\ worker'[w].hosts = worker[w].hosts
        /\ worker'[w].todo = worker[w].todo \ {h}
        /\ worker'[w].ok = worker[w].ok + 1
        /\ worker'[w].bad = worker[w].bad + 0
    BY <1>3, WorkerCounts
  <2>2. QED
    BY <2>1, <1>1, <1>2, <1>3 DEF Recorded
<1>4. ASSUME NEW h \in worker[w].todo, SetHosts(worker[w].task, {h}, "failed"),
             Counted(w, h, 0, 1)
      PROVE  Recorded(w, h, "failed")
  <2>1. /\ worker' \in [Workers -> WorkerState] /\ Others(w)
        /\ worker'[w].pc = worker[w].pc /\ worker'[w].task = worker[w].task
        /\ worker'[w].hosts = worker[w].hosts
        /\ worker'[w].todo = worker[w].todo \ {h}
        /\ worker'[w].ok = worker[w].ok + 0
        /\ worker'[w].bad = worker[w].bad + 1
    BY <1>4, WorkerCounts
  <2>2. QED
    BY <2>1, <1>1, <1>2, <1>4 DEF Recorded
<1>5. QED
  BY <1>3, <1>4 DEF RecordHost

--------------------------------------------------------------------------------
(* Types *)

\* What the theorems below know of a state from its types.
LEMMA Types ==
    ASSUME TypeOK, Busy
    PROVE  /\ NoTask \notin Tasks
           /\ Targets \in [Tasks -> SUBSET Hosts]
           /\ worker \in [Workers -> WorkerState]
           /\ host \in [Tasks -> [Hosts -> HostStatus]]
           /\ \A w \in Workers :
                  /\ worker[w].pc # "idle" <=> worker[w].task # NoTask
                  /\ worker[w].pc # "idle" => worker[w].task \in Tasks
                  /\ worker[w].hosts \in SUBSET Hosts /\ worker[w].todo \in SUBSET Hosts
                  /\ worker[w].doomed \in SUBSET Hosts
                  /\ worker[w].ok \in Nat /\ worker[w].bad \in Nat
<1>1. \A w \in Workers : worker[w] \in WorkerState
  BY DEF TypeOK
<1>2. QED
  BY <1>1, RemoteAssumption DEF TypeOK, Busy, WorkerState

\* Workers keep their type, and only an idle one has no task.
LEMMA WorkerTypes ==
    ASSUME TypeOK, Busy, [Next]_vars
    PROVE  worker' \in [Workers -> WorkerState] /\ Busy'
<1> DEFINE Goal == worker' \in [Workers -> WorkerState] /\ Busy'
<1>1. ASSUME NEW t \in Tasks, CreateTask(t) PROVE Goal
  BY <1>1, Types DEF CreateTask, Busy
<1>2. ASSUME NEW t \in Tasks, AddHost(t) PROVE Goal
  BY <1>2, Types DEF AddHost, Busy
<1>3. ASSUME NEW t \in Tasks, AbortCreate(t) PROVE Goal
  BY <1>3, Types DEF AbortCreate, Busy
<1>4. ASSUME NEW t \in Tasks, Publish(t) PROVE Goal
  BY <1>4, Types DEF Publish, Busy
<1>5. ASSUME NEW t \in Tasks, DeleteTask(t) PROVE Goal
  BY <1>5, Types DEF DeleteTask, Busy
<1>6. ASSUME NEW t \in Tasks, Redeliver(t) PROVE Goal
  BY <1>6, Types DEF Redeliver, Busy
<1>7. ASSUME NEW w \in Workers, NEW t \in Tasks, TakeMessage(w, t) PROVE Goal
  <2>1. CASE Exists(t)
    <3>1. Becomes(w, [Idle EXCEPT !.pc = "taken", !.task = t])
      BY <1>7, <2>1 DEF TakeMessage
    <3>2. /\ worker' \in [Workers -> WorkerState] /\ Others(w)
          /\ worker'[w].pc = "taken" /\ worker'[w].task = t
      BY <3>1, Types, WorkerTakes
    <3>3. QED
      BY <3>2, Types DEF Others, Busy
  <2>2. CASE ~Exists(t)
    <3>1. UNCHANGED worker
      BY <1>7, <2>2 DEF TakeMessage
    <3>2. QED
      BY <3>1, Types DEF Busy
  <2>3. QED
    BY <2>1, <2>2
<1>8. ASSUME NEW w \in Workers, StartRun(w) PROVE Goal
  BY <1>8, Types, WorkerGoes, WorkerEnds DEF StartRun, Others, PC, Busy
<1>9. ASSUME NEW w \in Workers, MarkHosts(w) PROVE Goal
  BY <1>9, Types, WorkerMarks DEF MarkHosts, Others, PC, Busy
<1>10. ASSUME NEW w \in Workers, RunPlaybook(w) PROVE Goal
  BY <1>10, Types, PlaybookMoves DEF RunPlaybook, Others, PrepareMoves, Busy
<1>11. ASSUME NEW w \in Workers, FetchSource(w) PROVE Goal
  <2>1. /\ worker' \in [Workers -> WorkerState] /\ Others(w)
        /\ worker'[w].task = worker[w].task /\ worker'[w].pc \in {"failing", "recording"}
    BY <1>11, Types, SourceMoves DEF PrepareMoves
  <2>2. worker[w].pc = "marked"
    BY <1>11 DEF FetchSource
  <2>3. QED
    BY <2>1, <2>2, Types DEF Others, Busy
<1>12. ASSUME NEW w \in Workers, RecordHost(w) PROVE Goal
  <2>1. PICK h \in worker[w].todo, s \in {"success", "failed"} : Recorded(w, h, s)
    BY <1>12, Types, RecordMoves
  <2>2. QED
    BY <1>12, <2>1, Types DEF RecordHost, Recorded, Others, Busy
<1>13. ASSUME NEW w \in Workers, TimeOut(w) PROVE Goal
  BY <1>13, Types, WorkerFails DEF TimeOut, Others, PC, Busy
<1>14. ASSUME NEW w \in Workers, Finish(w) PROVE Goal
  BY <1>14, Types, WorkerEnds DEF Finish, Others, PC, Busy
<1>15. ASSUME NEW w \in Workers, FailTask(w) PROVE Goal
  BY <1>15, Types, WorkerGoes, WorkerEnds DEF FailTask, Others, PC, Busy
<1>16. ASSUME NEW w \in Workers, FailHosts(w) PROVE Goal
  BY <1>16, Types, WorkerEnds DEF FailHosts, Others, PC, Busy
<1>17. ASSUME NEW w \in Workers, Crash(w) PROVE Goal
  BY <1>17, Types, WorkerEnds DEF Crash, Others, PC, Busy
<1>18. CASE UNCHANGED vars
  BY <1>18, Types DEF vars, rowVars, historyVars, Busy
<1>19. QED
  BY <1>1, <1>2, <1>3, <1>4, <1>5, <1>6, <1>7, <1>8, <1>9, <1>10, <1>11, <1>12, <1>13,
     <1>14, <1>15, <1>16, <1>17, <1>18 DEF Next, RequestStep, WorkerStep

\* The task rows, the queues and the history keep their types.
LEMMA RowTypes ==
    ASSUME TypeOK, Busy, [Next]_vars
    PROVE  /\ task' \in [Tasks -> TaskStatus]
           /\ creation' \in [Tasks -> {"none", "adding", "added", "done", "aborted"}]
           /\ queue' \in [Tasks -> Nat]
           /\ deleted' \subseteq Tasks /\ gone' \subseteq Tasks
           /\ overlapped' \subseteq Tasks /\ crashed' \subseteq Tasks
<1>t. /\ task \in [Tasks -> TaskStatus]
      /\ creation \in [Tasks -> {"none", "adding", "added", "done", "aborted"}]
      /\ queue \in [Tasks -> Nat]
      /\ deleted \subseteq Tasks /\ gone \subseteq Tasks
      /\ overlapped \subseteq Tasks /\ crashed \subseteq Tasks
  BY DEF TypeOK
<1> DEFINE Goal == /\ task' \in [Tasks -> TaskStatus]
                   /\ creation' \in [Tasks -> {"none", "adding", "added", "done", "aborted"}]
                   /\ queue' \in [Tasks -> Nat]
                   /\ deleted' \subseteq Tasks /\ gone' \subseteq Tasks
                   /\ overlapped' \subseteq Tasks /\ crashed' \subseteq Tasks
<1>1. ASSUME NEW t \in Tasks, CreateTask(t) PROVE Goal
  BY <1>1, Types, <1>t DEF CreateTask, TaskStatus, rowVars, historyVars
<1>2. ASSUME NEW t \in Tasks, AddHost(t) PROVE Goal
  BY <1>2, Types, <1>t DEF AddHost, TaskStatus, rowVars, historyVars
<1>3. ASSUME NEW t \in Tasks, AbortCreate(t) PROVE Goal
  BY <1>3, Types, <1>t DEF AbortCreate, TaskStatus, rowVars, historyVars
<1>4. ASSUME NEW t \in Tasks, Publish(t) PROVE Goal
  BY <1>4, Types, <1>t DEF Publish, TaskStatus, rowVars, historyVars
<1>5. ASSUME NEW t \in Tasks, DeleteTask(t) PROVE Goal
  BY <1>5, Types, <1>t DEF DeleteTask, TaskStatus, rowVars, historyVars
<1>6. ASSUME NEW t \in Tasks, Redeliver(t) PROVE Goal
  BY <1>6, Types, <1>t DEF Redeliver, TaskStatus, rowVars, historyVars
<1>7. ASSUME NEW w \in Workers, NEW t \in Tasks, TakeMessage(w, t) PROVE Goal
  BY <1>7, Types, <1>t DEF TakeMessage, TaskStatus, rowVars, historyVars
<1>8. ASSUME NEW w \in Workers, StartRun(w) PROVE Goal
  BY <1>8, Types, <1>t DEF StartRun, TaskStatus, rowVars, historyVars
<1>9. ASSUME NEW w \in Workers, MarkHosts(w) PROVE Goal
  BY <1>9, Types, <1>t DEF MarkHosts, TaskStatus, rowVars, historyVars
<1>10. ASSUME NEW w \in Workers, RunPlaybook(w) PROVE Goal
  BY <1>10, Types, <1>t DEF RunPlaybook, TaskStatus, rowVars, historyVars
<1>11. ASSUME NEW w \in Workers, FetchSource(w) PROVE Goal
  BY <1>11, Types, <1>t DEF FetchSource, TaskStatus, rowVars, historyVars
<1>12. ASSUME NEW w \in Workers, RecordHost(w) PROVE Goal
  BY <1>12, Types, <1>t DEF RecordHost, TaskStatus, rowVars, historyVars
<1>13. ASSUME NEW w \in Workers, TimeOut(w) PROVE Goal
  BY <1>13, Types, <1>t DEF TimeOut, TaskStatus, rowVars, historyVars
<1>14. ASSUME NEW w \in Workers, Finish(w) PROVE Goal
  BY <1>14, Types, <1>t DEF Finish, TaskStatus, rowVars, historyVars
<1>15. ASSUME NEW w \in Workers, FailTask(w) PROVE Goal
  BY <1>15, Types, <1>t DEF FailTask, TaskStatus, rowVars, historyVars
<1>16. ASSUME NEW w \in Workers, FailHosts(w) PROVE Goal
  BY <1>16, Types, <1>t DEF FailHosts, TaskStatus, rowVars, historyVars
<1>17. ASSUME NEW w \in Workers, Crash(w) PROVE Goal
  BY <1>17, Types, <1>t DEF Crash, TaskStatus, rowVars, historyVars
<1>18. CASE UNCHANGED vars
  BY <1>18, Types, <1>t DEF vars, rowVars, historyVars, TaskStatus
<1>19. QED
  BY <1>1, <1>2, <1>3, <1>4, <1>5, <1>6, <1>7, <1>8, <1>9, <1>10, <1>11, <1>12, <1>13,
     <1>14, <1>15, <1>16, <1>17, <1>18 DEF Next, RequestStep, WorkerStep

\* The host rows and the counters keep their types.
LEMMA HostTypes ==
    ASSUME TypeOK, Busy, [Next]_vars
    PROVE  /\ host' \in [Tasks -> [Hosts -> HostStatus]]
           /\ counts' \in [Tasks -> [ok : Nat, bad : Nat]]
<1>t. counts \in [Tasks -> [ok : Nat, bad : Nat]]
  BY DEF TypeOK
<1> DEFINE Goal == /\ host' \in [Tasks -> [Hosts -> HostStatus]]
                   /\ counts' \in [Tasks -> [ok : Nat, bad : Nat]]
<1>1. ASSUME NEW t \in Tasks, CreateTask(t) PROVE Goal
  BY <1>1, Types, <1>t DEF CreateTask, HostStatus, rowVars
<1>2. ASSUME NEW t \in Tasks, AddHost(t) PROVE Goal
  <2>1. PICK h \in HostsOf(t, "absent") :
            host' = [host EXCEPT ![t][h] = "pending"]
    BY <1>2 DEF AddHost
  <2>2. h \in Hosts /\ counts' = counts
    BY <1>2, Types DEF AddHost, HostsOf
  <2> DEFINE row == [host[t] EXCEPT ![h] = "pending"]
  <2>3. host' = [host EXCEPT ![t] = row]
    BY <2>1
  <2>4. row \in [Hosts -> HostStatus]
    BY <2>2, Types DEF HostStatus
  <2> HIDE DEF row
  <2>5. host \in [Tasks -> [Hosts -> HostStatus]]
    BY Types
  <2>6. host' \in [Tasks -> [Hosts -> HostStatus]]
    BY <2>3, <2>4, <2>5
  <2>7. QED
    BY <2>2, <2>6, <1>t
<1>3. ASSUME NEW t \in Tasks, AbortCreate(t) PROVE Goal
  BY <1>3, Types, <1>t DEF AbortCreate, HostStatus, rowVars
<1>4. ASSUME NEW t \in Tasks, Publish(t) PROVE Goal
  BY <1>4, Types, <1>t DEF Publish, HostStatus, rowVars
<1>5. ASSUME NEW t \in Tasks, DeleteTask(t) PROVE Goal
  BY <1>5, Types, <1>t DEF DeleteTask, HostStatus, rowVars
<1>6. ASSUME NEW t \in Tasks, Redeliver(t) PROVE Goal
  BY <1>6, Types, <1>t DEF Redeliver, HostStatus, rowVars
<1>7. ASSUME NEW w \in Workers, NEW t \in Tasks, TakeMessage(w, t) PROVE Goal
  BY <1>7, Types, <1>t DEF TakeMessage, HostStatus, rowVars
<1>8. ASSUME NEW w \in Workers, StartRun(w) PROVE Goal
  BY <1>8, Types, <1>t DEF StartRun, HostStatus, rowVars
<1>9. ASSUME NEW w \in Workers, MarkHosts(w) PROVE Goal
  BY <1>9, Types, <1>t, HostsChange DEF MarkHosts, HostStatus, rowVars
<1>10. ASSUME NEW w \in Workers, RunPlaybook(w) PROVE Goal
  BY <1>10, Types, <1>t DEF RunPlaybook, HostStatus, rowVars
<1>11. ASSUME NEW w \in Workers, FetchSource(w) PROVE Goal
  BY <1>11, Types, <1>t DEF FetchSource, HostStatus, rowVars
<1>12. ASSUME NEW w \in Workers, RecordHost(w) PROVE Goal
  <2>1. PICK h \in worker[w].todo, s \in {"success", "failed"} : Recorded(w, h, s)
    BY <1>12, Types, RecordMoves
  <2>2. worker[w].task \in Tasks /\ counts' = counts
    BY <1>12, Types DEF RecordHost
  <2>3. QED
    BY <2>1, <2>2, <1>t, Types, HostsChange DEF HostStatus, Recorded
<1>13. ASSUME NEW w \in Workers, TimeOut(w) PROVE Goal
  BY <1>13, Types, <1>t DEF TimeOut, HostStatus, rowVars
<1>14. ASSUME NEW w \in Workers, Finish(w) PROVE Goal
  <2>1. [ok |-> worker[w].ok, bad |-> worker[w].bad] \in [ok : Nat, bad : Nat]
    BY Types
  <2>2. QED
    BY <1>14, <2>1, <1>t, Types DEF Finish
<1>15. ASSUME NEW w \in Workers, FailTask(w) PROVE Goal
  BY <1>15, Types, <1>t DEF FailTask, HostStatus, rowVars
<1>16. ASSUME NEW w \in Workers, FailHosts(w) PROVE Goal
  BY <1>16, Types, <1>t, HostsChange DEF FailHosts, HostStatus, rowVars
<1>17. ASSUME NEW w \in Workers, Crash(w) PROVE Goal
  BY <1>17, Types, <1>t DEF Crash, HostStatus, rowVars
<1>18. CASE UNCHANGED vars
  BY <1>18, Types, <1>t DEF vars, rowVars, historyVars, HostStatus
<1>19. QED
  BY <1>1, <1>2, <1>3, <1>4, <1>5, <1>6, <1>7, <1>8, <1>9, <1>10, <1>11, <1>12, <1>13,
     <1>14, <1>15, <1>16, <1>17, <1>18 DEF Next, RequestStep, WorkerStep

\* The variables keep their types, and only an idle worker has no task.
THEOREM TypeCorrect == Spec => [](TypeOK /\ Busy)
<1>1. Init => TypeOK /\ Busy
  BY DEF Init, TypeOK, Busy, Idle, WorkerState, TaskStatus, HostStatus
<1>2. TypeOK /\ Busy /\ [Next]_vars => TypeOK' /\ Busy'
  BY WorkerTypes, RowTypes, HostTypes DEF TypeOK
<1>3. QED
  BY <1>1, <1>2, PTL DEF Spec

--------------------------------------------------------------------------------
(* What the steps of a run have in common *)

\* A run that goes on stays with its task, whose row nobody touches.
WorksOn(w) ==
    /\ UNCHANGED <<task, counts, creation, queue, historyVars>>
    /\ worker' \in [Workers -> WorkerState] /\ Others(w)
    /\ worker'[w].task = worker[w].task
    /\ worker[w].pc \in {"started", "marked", "recording"}
    /\ worker'[w].pc \in {"marked", "recording", "failing"}
    /\ worker'[w].hosts = IF worker[w].pc = "started"
                           THEN Targets[worker[w].task] \ HostsOf(worker[w].task, "absent")
                           ELSE worker[w].hosts

Working(w) ==
    MarkHosts(w) \/ RunPlaybook(w) \/ FetchSource(w) \/ RecordHost(w) \/ TimeOut(w)

\* The steps between the first save of a run and its last are of that kind.
LEMMA RunGoesOn ==
    ASSUME TypeOK, Busy, NEW w \in Workers, Working(w)
    PROVE  WorksOn(w)
<1>1. CASE MarkHosts(w)
  <2>1. worker[w].task \in Tasks /\ UNCHANGED <<task, counts, creation, queue, historyVars>>
    BY <1>1, Types DEF MarkHosts
  <2>2. QED
    BY <1>1, <2>1, Types, WorkerMarks DEF MarkHosts, WorksOn
<1>2. CASE RunPlaybook(w)
  <2>1. /\ worker[w].task \in Tasks /\ worker[w].pc = "marked"
        /\ UNCHANGED <<task, counts, creation, queue, historyVars>>
    BY <1>2, Types DEF RunPlaybook, rowVars
  <2>2. QED
    BY <1>2, <2>1, Types, PlaybookMoves DEF PrepareMoves, WorksOn
<1>3. CASE FetchSource(w)
  <2>1. /\ worker[w].pc = "marked"
        /\ UNCHANGED <<task, counts, creation, queue, historyVars>>
    BY <1>3 DEF FetchSource, rowVars
  <2>2. QED
    BY <1>3, <2>1, Types, SourceMoves DEF PrepareMoves, WorksOn
<1>4. CASE RecordHost(w)
  <2>1. /\ worker[w].pc = "recording"
        /\ UNCHANGED <<task, counts, creation, queue, historyVars>>
    BY <1>4 DEF RecordHost
  <2>2. QED
    BY <1>4, <2>1, Types, RecordMoves DEF Recorded, WorksOn
<1>5. CASE TimeOut(w)
  <2>1. /\ worker[w].pc = "recording"
        /\ UNCHANGED <<task, counts, creation, queue, historyVars>>
    BY <1>5 DEF TimeOut, rowVars
  <2>2. FailWith(w, {}) /\ {} \in SUBSET Hosts
    BY <1>5 DEF TimeOut
  <2>3. QED
    BY <2>1, <2>2, Types, WorkerFails DEF WorksOn
<1>6. QED
  BY <1>1, <1>2, <1>3, <1>4, <1>5 DEF Working

--------------------------------------------------------------------------------
(* Deleting a task is final *)

\* Whatever happens, no row and no run of a task that is gone comes back.
LEMMA GoneStep ==
    ASSUME TypeOK, Busy, GoneInv, [Next]_vars
    PROVE  GoneInv'
<1>t. /\ NoTask \notin Tasks /\ worker \in [Workers -> WorkerState] /\ gone \subseteq Tasks
      /\ Targets \in [Tasks -> SUBSET Hosts]
      /\ task \in [Tasks -> TaskStatus] /\ queue \in [Tasks -> Nat]
      /\ creation \in [Tasks -> {"none", "adding", "added", "done", "aborted"}]
      /\ \A w \in Workers : worker[w].pc # "idle" => worker[w].task \in Tasks
  BY Types DEF TypeOK
<1>1. ASSUME NEW t \in Tasks, CreateTask(t) PROVE GoneInv'
  BY <1>1, <1>t DEF CreateTask, GoneInv, Unborn, Exists, InFlight, Runs, rowVars,
     historyVars
<1>2. ASSUME NEW t \in Tasks, AddHost(t) PROVE GoneInv'
  BY <1>2, <1>t DEF AddHost, GoneInv, Unborn, Exists, InFlight, Runs, rowVars,
     historyVars
<1>3. ASSUME NEW t \in Tasks, AbortCreate(t) PROVE GoneInv'
  BY <1>3, <1>t DEF AbortCreate, GoneInv, Unborn, Exists, InFlight, Runs, rowVars,
     historyVars
<1>4. ASSUME NEW t \in Tasks, Publish(t) PROVE GoneInv'
  BY <1>4, <1>t DEF Publish, GoneInv, Unborn, Exists, InFlight, Runs, rowVars,
     historyVars
<1>5. ASSUME NEW t \in Tasks, DeleteTask(t) PROVE GoneInv'
  BY <1>5, <1>t DEF DeleteTask, GoneInv, Unborn, Exists, InFlight, Runs, rowVars,
     historyVars
<1>6. ASSUME NEW t \in Tasks, Redeliver(t) PROVE GoneInv'
  BY <1>6, <1>t DEF Redeliver, GoneInv, Unborn, Exists, InFlight, Runs, rowVars,
     historyVars
<1>7. ASSUME NEW w \in Workers, NEW t \in Tasks, TakeMessage(w, t) PROVE GoneInv'
  <2>1. /\ queue' = [queue EXCEPT ![t] = @ - 1]
        /\ UNCHANGED <<task, creation, gone>> /\ queue[t] # 0
    BY <1>7 DEF TakeMessage, rowVars
  <2>2. creation[t] # "none"
    BY <2>1 DEF GoneInv, Unborn
  <2>3. CASE Exists(t)
    <3>1. t \notin gone
      BY <2>3 DEF GoneInv
    <3>2. Becomes(w, [Idle EXCEPT !.pc = "taken", !.task = t])
      BY <1>7, <2>3 DEF TakeMessage
    <3>3. /\ Others(w) /\ worker' \in [Workers -> WorkerState]
          /\ worker'[w].pc = "taken" /\ worker'[w].task = t
      BY <3>2, <1>t, WorkerTakes
    <3>4. QED
      BY <2>1, <2>2, <3>1, <3>3, <1>t DEF Others, GoneInv, Unborn, Exists, InFlight, Runs
  <2>4. CASE ~Exists(t)
    <3>1. UNCHANGED worker
      BY <1>7, <2>4 DEF TakeMessage
    <3>2. QED
      BY <2>1, <2>2, <3>1, <1>t DEF GoneInv, Unborn, Exists, InFlight, Runs
  <2>5. QED
    BY <2>3, <2>4
<1>8. ASSUME NEW w \in Workers, Working(w) PROVE GoneInv'
  <2>1. /\ UNCHANGED <<task, creation, queue, gone>> /\ Others(w)
        /\ worker'[w].task = worker[w].task
        /\ worker[w].pc # "taken" /\ worker'[w].pc # "taken"
    BY <1>8, RunGoesOn DEF WorksOn, historyVars
  <2>2. QED
    BY <2>1 DEF Others, GoneInv, Unborn, Exists, InFlight, Runs
<1>9. ASSUME NEW w \in Workers, StartRun(w) PROVE GoneInv'
  BY <1>9, <1>t, WorkerGoes, WorkerEnds DEF StartRun, Others, PC, GoneInv, Unborn,
     Exists, InFlight, Runs, rowVars, historyVars
<1>10. ASSUME NEW w \in Workers, Finish(w) PROVE GoneInv'
  BY <1>10, <1>t, WorkerEnds DEF Finish, Others, PC, GoneInv, Unborn, Exists, InFlight,
     Runs, rowVars, historyVars
<1>11. ASSUME NEW w \in Workers, FailTask(w) PROVE GoneInv'
  BY <1>11, <1>t, WorkerGoes, WorkerEnds DEF FailTask, Others, PC, GoneInv, Unborn,
     Exists, InFlight, Runs, rowVars, historyVars
<1>12. ASSUME NEW w \in Workers, FailHosts(w) PROVE GoneInv'
  BY <1>12, <1>t, WorkerEnds DEF FailHosts, Others, PC, GoneInv, Unborn, Exists,
     InFlight, Runs, rowVars, historyVars
<1>13. ASSUME NEW w \in Workers, Crash(w) PROVE GoneInv'
  BY <1>13, <1>t, WorkerEnds DEF Crash, Others, PC, GoneInv, Unborn, Exists, InFlight,
     Runs, rowVars, historyVars
<1>14. CASE UNCHANGED vars
  BY <1>14, <1>t DEF vars, rowVars, historyVars, GoneInv, Unborn, Exists, InFlight, Runs,
     rowVars, historyVars
<1>15. QED
  BY <1>1, <1>2, <1>3, <1>4, <1>5, <1>6, <1>7, <1>8, <1>9, <1>10, <1>11, <1>12, <1>13,
     <1>14 DEF Next, RequestStep, WorkerStep, Working

\* Deleting a task is final, unless a worker was running it at that moment.
THEOREM DeleteCorrect == Spec => []DeleteIsFinal
<1>1. Init => GoneInv
  BY RemoteAssumption DEF Init, GoneInv, Unborn, Exists, InFlight, Idle
<1>2. TypeOK /\ Busy /\ GoneInv /\ [Next]_vars => GoneInv'
  BY GoneStep
<1>3. GoneInv => DeleteIsFinal
  BY DEF GoneInv, DeleteIsFinal
<1>4. QED
  BY <1>1, <1>2, <1>3, TypeCorrect, PTL DEF Spec

--------------------------------------------------------------------------------
(* A run covers all hosts *)

\* History variables only grow.
LEMMA HistoryGrows ==
    ASSUME [Next]_vars
    PROVE  /\ deleted \subseteq deleted' /\ overlapped \subseteq overlapped'
           /\ crashed \subseteq crashed'
<1> DEFINE Goal == /\ deleted \subseteq deleted' /\ overlapped \subseteq overlapped'
                   /\ crashed \subseteq crashed'
<1>1. ASSUME NEW t \in Tasks, CreateTask(t) PROVE Goal
  BY <1>1 DEF CreateTask, historyVars
<1>2. ASSUME NEW t \in Tasks, AddHost(t) PROVE Goal
  BY <1>2 DEF AddHost, historyVars
<1>3. ASSUME NEW t \in Tasks, AbortCreate(t) PROVE Goal
  BY <1>3 DEF AbortCreate, historyVars
<1>4. ASSUME NEW t \in Tasks, Publish(t) PROVE Goal
  BY <1>4 DEF Publish, historyVars
<1>5. ASSUME NEW t \in Tasks, DeleteTask(t) PROVE Goal
  BY <1>5 DEF DeleteTask, historyVars
<1>6. ASSUME NEW t \in Tasks, Redeliver(t) PROVE Goal
  BY <1>6 DEF Redeliver, historyVars
<1>7. ASSUME NEW w \in Workers, NEW t \in Tasks, TakeMessage(w, t) PROVE Goal
  BY <1>7 DEF TakeMessage, historyVars
<1>8. ASSUME NEW w \in Workers, StartRun(w) PROVE Goal
  BY <1>8 DEF StartRun, historyVars
<1>9. ASSUME NEW w \in Workers, MarkHosts(w) PROVE Goal
  BY <1>9 DEF MarkHosts, historyVars
<1>10. ASSUME NEW w \in Workers, RunPlaybook(w) PROVE Goal
  BY <1>10 DEF RunPlaybook, historyVars
<1>11. ASSUME NEW w \in Workers, FetchSource(w) PROVE Goal
  BY <1>11 DEF FetchSource, historyVars
<1>12. ASSUME NEW w \in Workers, RecordHost(w) PROVE Goal
  BY <1>12 DEF RecordHost, historyVars
<1>13. ASSUME NEW w \in Workers, TimeOut(w) PROVE Goal
  BY <1>13 DEF TimeOut, historyVars
<1>14. ASSUME NEW w \in Workers, Finish(w) PROVE Goal
  BY <1>14 DEF Finish, historyVars
<1>15. ASSUME NEW w \in Workers, FailTask(w) PROVE Goal
  BY <1>15 DEF FailTask, historyVars
<1>16. ASSUME NEW w \in Workers, FailHosts(w) PROVE Goal
  BY <1>16 DEF FailHosts, historyVars
<1>17. ASSUME NEW w \in Workers, Crash(w) PROVE Goal
  BY <1>17 DEF Crash, historyVars
<1>18. CASE UNCHANGED vars
  BY <1>18 DEF vars, historyVars
<1>19. QED
  BY <1>1, <1>2, <1>3, <1>4, <1>5, <1>6, <1>7, <1>8, <1>9, <1>10, <1>11, <1>12, <1>13,
     <1>14, <1>15, <1>16, <1>17, <1>18 DEF Next, RequestStep, WorkerStep

\* Workers change the status of host rows; they neither insert nor remove any.
LEMMA RowsStay ==
    ASSUME TypeOK, Busy, NEW w \in Workers, Working(w) \/ FailHosts(w)
    PROVE  \A u \in Tasks : HostsOf(u, "absent")' = HostsOf(u, "absent")
<1>1. ASSUME NEW t \in Tasks, NEW H, NEW s \in {"running", "success", "failed"},
             SetHosts(t, H, s)
      PROVE  \A u \in Tasks : HostsOf(u, "absent")' = HostsOf(u, "absent")
  <2>1. s \in HostStatus /\ s # "absent"
    BY DEF HostStatus
  <2>2. /\ \A u \in Tasks \ {t} : host'[u] = host[u]
        /\ \A h \in Hosts :
               host'[t][h] = IF h \in H /\ host[t][h] # "absent" THEN s ELSE host[t][h]
    BY <1>1, <2>1, Types, HostsChange
  <2>3. \A u \in Tasks : Targets[u] \subseteq Hosts
    BY Types
  <2>4. QED
    BY <2>1, <2>2, <2>3 DEF HostsOf
<1>2. worker[w].pc # "idle" => worker[w].task \in Tasks
  BY Types
<1>3. CASE MarkHosts(w)
  BY <1>1, <1>2, <1>3 DEF MarkHosts
<1>4. CASE RecordHost(w)
  <2>1. PICK h \in worker[w].todo, s \in {"success", "failed"} : Recorded(w, h, s)
    BY <1>4, Types, RecordMoves
  <2>2. QED
    BY <1>1, <1>2, <1>4, <2>1 DEF RecordHost, Recorded
<1>5. CASE FailHosts(w)
  BY <1>1, <1>2, <1>5 DEF FailHosts
<1>6. CASE RunPlaybook(w) \/ FetchSource(w) \/ TimeOut(w)
  BY <1>6 DEF RunPlaybook, FetchSource, TimeOut, rowVars, HostsOf
<1>7. QED
  BY <1>3, <1>4, <1>5, <1>6 DEF Working

\* A task that is not deleted stays whole.
LEMMA WholeStep ==
    ASSUME TypeOK, Busy, [Next]_vars, NEW u \in Tasks \ deleted', Whole(u)
    PROVE  Whole(u)'
<1>t. /\ NoTask \notin Tasks /\ worker \in [Workers -> WorkerState]
      /\ Targets \in [Tasks -> SUBSET Hosts]
      /\ task \in [Tasks -> TaskStatus] /\ queue \in [Tasks -> Nat]
      /\ creation \in [Tasks -> {"none", "adding", "added", "done", "aborted"}]
      /\ \A w \in Workers : worker[w].pc # "idle" => worker[w].task \in Tasks
  BY Types DEF TypeOK
<1>h. host' = host => HostsOf(u, "absent")' = HostsOf(u, "absent")
  BY DEF HostsOf
<1>1. ASSUME NEW t \in Tasks, CreateTask(t) PROVE Whole(u)'
  BY <1>1, <1>t, <1>h DEF CreateTask, Whole, Prepared, Exists, InFlight, rowVars
<1>2. ASSUME NEW t \in Tasks, AddHost(t) PROVE Whole(u)'
  <2>1. UNCHANGED <<task, queue, worker>> /\ creation[t] = "adding"
    BY <1>2 DEF AddHost
  <2>2. CASE u # t
    <3>1. host'[u] = host[u] /\ creation'[u] = creation[u]
      BY <1>2, <2>2, <1>t, Types DEF AddHost
    <3>2. HostsOf(u, "absent")' = HostsOf(u, "absent")
      BY <3>1 DEF HostsOf
    <3>3. QED
      BY <2>1, <3>1, <3>2 DEF Whole, Exists, InFlight
  <2>3. CASE u = t
    <3>1. PICK h \in HostsOf(t, "absent") :
              /\ host' = [host EXCEPT ![t][h] = "pending"]
              /\ creation' = [creation EXCEPT
                     ![t] = IF HostsOf(t, "absent") = {h} THEN "added" ELSE @]
      BY <1>2 DEF AddHost
    <3>2. HostsOf(t, "absent")' = HostsOf(t, "absent") \ {h}
      <4>1. h \in Hosts /\ host[t] \in [Hosts -> HostStatus] /\ Targets[t] \subseteq Hosts
        BY Types DEF HostsOf
      <4>2. host'[t] = [host[t] EXCEPT ![h] = "pending"]
        BY <3>1, Types
      <4>3. QED
        BY <4>1, <4>2 DEF HostsOf
    <3>3. creation'[t] = IF HostsOf(t, "absent") = {h} THEN "added" ELSE "adding"
      BY <3>1, <2>1, <1>t
    <3>4. creation'[t] = "added" => HostsOf(t, "absent")' = {}
      BY <3>2, <3>3
    <3>5. QED
      BY <2>1, <2>3, <3>3, <3>4 DEF Whole, Exists, InFlight
  <2>4. QED
    BY <2>2, <2>3
<1>3. ASSUME NEW t \in Tasks, AbortCreate(t) PROVE Whole(u)'
  BY <1>3, <1>t, <1>h DEF AbortCreate, Whole, Prepared, Exists, InFlight, rowVars
<1>4. ASSUME NEW t \in Tasks, Publish(t) PROVE Whole(u)'
  BY <1>4, <1>t, <1>h DEF Publish, Whole, Prepared, Exists, InFlight, rowVars
<1>5. ASSUME NEW t \in Tasks, DeleteTask(t) PROVE Whole(u)'
  <2>1. u # t /\ UNCHANGED <<creation, queue, worker>>
    BY <1>5 DEF DeleteTask
  <2>2. host'[u] = host[u] /\ task'[u] = task[u]
    BY <1>5, <2>1, <1>t, Types DEF DeleteTask
  <2>3. HostsOf(u, "absent")' = HostsOf(u, "absent")
    BY <2>2 DEF HostsOf
  <2>4. QED
    BY <2>1, <2>2, <2>3 DEF Whole, Exists, InFlight
<1>6. ASSUME NEW t \in Tasks, Redeliver(t) PROVE Whole(u)'
  BY <1>6, <1>t, <1>h DEF Redeliver, Whole, Prepared, Exists, InFlight, rowVars
<1>7. ASSUME NEW w \in Workers, NEW t \in Tasks, TakeMessage(w, t) PROVE Whole(u)'
  <2>1. /\ queue' = [queue EXCEPT ![t] = @ - 1] /\ queue[t] # 0
        /\ UNCHANGED <<task, host, creation>>
    BY <1>7 DEF TakeMessage, rowVars
  <2>2. u = t => creation[t] = "done"
    BY <2>1 DEF Whole
  <2>3. CASE Exists(t)
    <3>1. Becomes(w, [Idle EXCEPT !.pc = "taken", !.task = t])
      BY <1>7, <2>3 DEF TakeMessage
    <3>2. Others(w) /\ worker'[w].pc = "taken" /\ worker'[w].task = t
      BY <3>1, <1>t, WorkerTakes
    <3>3. QED
      BY <2>1, <2>2, <3>2, <1>t, <1>h DEF Others, Whole, Prepared, Exists, InFlight
  <2>4. CASE ~Exists(t)
    <3>1. UNCHANGED worker
      BY <1>7, <2>4 DEF TakeMessage
    <3>2. QED
      BY <2>1, <2>2, <3>1, <1>t, <1>h DEF Whole, Exists, InFlight
  <2>5. QED
    BY <2>3, <2>4
<1>8. ASSUME NEW w \in Workers, Working(w) PROVE Whole(u)'
  <2>1. WorksOn(w)
    BY <1>8, RunGoesOn
  <2>2. HostsOf(u, "absent")' = HostsOf(u, "absent") /\ UNCHANGED <<task, creation, queue>>
    BY <1>8, <2>1, RowsStay DEF WorksOn
  <2>3. CASE worker[w].task = u
    <3>1. HostsOf(u, "absent") = {}
      BY <2>3 DEF Whole, InFlight
    <3>2. worker'[w].hosts = Targets[u]
      BY <2>1, <2>3, <3>1 DEF WorksOn, Whole, Prepared
    <3>3. QED
      BY <2>1, <2>2, <2>3, <3>2 DEF WorksOn, Others, Whole, Prepared, Exists, InFlight
  <2>4. CASE worker[w].task # u
    BY <2>1, <2>2, <2>4 DEF WorksOn, Others, Whole, Prepared, Exists, InFlight
  <2>5. QED
    BY <2>3, <2>4
<1>9. ASSUME NEW w \in Workers, StartRun(w) PROVE Whole(u)'
  BY <1>9, <1>t, <1>h, WorkerGoes, WorkerEnds DEF StartRun, Others, PC, Whole, Prepared,
     Exists, InFlight, rowVars
<1>10. ASSUME NEW w \in Workers, Finish(w) PROVE Whole(u)'
  BY <1>10, <1>t, <1>h, WorkerEnds DEF Finish, Others, PC, Whole, Prepared, Exists,
     InFlight, rowVars
<1>11. ASSUME NEW w \in Workers, FailTask(w) PROVE Whole(u)'
  BY <1>11, <1>t, <1>h, WorkerGoes, WorkerEnds DEF FailTask, Others, PC, Whole, Prepared,
     Exists, InFlight, rowVars
<1>12. ASSUME NEW w \in Workers, FailHosts(w) PROVE Whole(u)'
  <2>1. UNCHANGED <<task, creation, queue>>
    BY <1>12 DEF FailHosts
  <2>2. Others(w) /\ worker'[w].task = NoTask
    BY <1>12, <1>t, WorkerEnds DEF FailHosts
  <2>3. HostsOf(u, "absent")' = HostsOf(u, "absent")
    BY <1>12, RowsStay
  <2>4. QED
    BY <2>1, <2>2, <2>3, <1>t DEF Others, Whole, Exists, InFlight
<1>13. ASSUME NEW w \in Workers, Crash(w) PROVE Whole(u)'
  BY <1>13, <1>t, <1>h, WorkerEnds DEF Crash, Others, PC, Whole, Prepared, Exists,
     InFlight, rowVars
<1>14. CASE UNCHANGED vars
  BY <1>14, <1>t, <1>h DEF vars, rowVars, historyVars, Whole, Prepared, Exists, InFlight,
     rowVars
<1>15. QED
  BY <1>1, <1>2, <1>3, <1>4, <1>5, <1>6, <1>7, <1>8, <1>9, <1>10, <1>11, <1>12, <1>13,
     <1>14 DEF Next, RequestStep, WorkerStep, Working

\* Workers only see tasks whose host rows are all there.
THEOREM WholeCorrect == Spec => []WholeInv
<1>1. Init => WholeInv
  BY RemoteAssumption DEF Init, WholeInv, Whole, InFlight, Idle
<1>2. TypeOK /\ Busy /\ WholeInv /\ [Next]_vars => WholeInv'
  BY WholeStep, HistoryGrows DEF WholeInv
<1>3. QED
  BY <1>1, <1>2, TypeCorrect, PTL DEF Spec

\* No host is forgotten: a run works on all hosts of its task.
THEOREM CoverCorrect == Spec => []RunCoversTargets
<1>1. TypeOK /\ Busy /\ WholeInv => RunCoversTargets
  BY Types DEF WholeInv, Whole, Prepared, RunCoversTargets
<1>2. QED
  BY <1>1, TypeCorrect, WholeCorrect, PTL

--------------------------------------------------------------------------------
(* The status of a task follows its run *)

\* Two workers share a task only if it was run twice at a time.
LEMMA AloneStep ==
    ASSUME TypeOK, Busy, Alone, [Next]_vars
    PROVE  Alone'
<1>t. /\ NoTask \notin Tasks /\ worker \in [Workers -> WorkerState]
      /\ task \in [Tasks -> TaskStatus]
      /\ \A w \in Workers : worker[w].pc # "idle" => worker[w].task \in Tasks
  BY Types DEF TypeOK
<1>1. ASSUME NEW t \in Tasks, CreateTask(t) PROVE Alone'
  BY <1>1, <1>t DEF CreateTask, Alone, rowVars, historyVars
<1>2. ASSUME NEW t \in Tasks, AddHost(t) PROVE Alone'
  BY <1>2, <1>t DEF AddHost, Alone, rowVars, historyVars
<1>3. ASSUME NEW t \in Tasks, AbortCreate(t) PROVE Alone'
  BY <1>3, <1>t DEF AbortCreate, Alone, rowVars, historyVars
<1>4. ASSUME NEW t \in Tasks, Publish(t) PROVE Alone'
  BY <1>4, <1>t DEF Publish, Alone, rowVars, historyVars
<1>5. ASSUME NEW t \in Tasks, DeleteTask(t) PROVE Alone'
  BY <1>5, <1>t DEF DeleteTask, Alone, rowVars, historyVars
<1>6. ASSUME NEW t \in Tasks, Redeliver(t) PROVE Alone'
  BY <1>6, <1>t DEF Redeliver, Alone, rowVars, historyVars
<1>7. ASSUME NEW w \in Workers, NEW t \in Tasks, TakeMessage(w, t) PROVE Alone'
  <2>1. CASE Exists(t)
    <3>1. Becomes(w, [Idle EXCEPT !.pc = "taken", !.task = t])
      BY <1>7, <2>1 DEF TakeMessage
    <3>2. Others(w) /\ worker'[w].pc = "taken" /\ worker'[w].task = t
      BY <3>1, <1>t, WorkerTakes
    <3>3. QED
      BY <1>7, <2>1, <3>2 DEF TakeMessage, Alone, Others, InFlight
  <2>2. CASE ~Exists(t)
    <3>1. UNCHANGED <<worker, overlapped, task>>
      BY <1>7, <2>2 DEF TakeMessage, rowVars
    <3>2. QED
      BY <3>1 DEF Alone
  <2>3. QED
    BY <2>1, <2>2
<1>8. ASSUME NEW w \in Workers, Working(w) PROVE Alone'
  <2>1. /\ UNCHANGED overlapped /\ Others(w)
        /\ worker'[w].task = worker[w].task
    BY <1>8, RunGoesOn DEF WorksOn, historyVars
  <2>2. \A v \in Workers : worker'[v].task = worker[v].task
    BY <2>1 DEF Others
  <2>3. QED
    BY <2>1, <2>2 DEF Alone
<1>9. ASSUME NEW w \in Workers, StartRun(w) PROVE Alone'
  BY <1>9, <1>t, WorkerGoes, WorkerEnds DEF StartRun, Others, PC, Alone, rowVars,
     historyVars
<1>10. ASSUME NEW w \in Workers, Finish(w) PROVE Alone'
  BY <1>10, <1>t, WorkerEnds DEF Finish, Others, PC, Alone, rowVars, historyVars
<1>11. ASSUME NEW w \in Workers, FailTask(w) PROVE Alone'
  BY <1>11, <1>t, WorkerGoes, WorkerEnds DEF FailTask, Others, PC, Alone, rowVars,
     historyVars
<1>12. ASSUME NEW w \in Workers, FailHosts(w) PROVE Alone'
  BY <1>12, <1>t, WorkerEnds DEF FailHosts, Others, PC, Alone, rowVars, historyVars
<1>13. ASSUME NEW w \in Workers, Crash(w) PROVE Alone'
  BY <1>13, <1>t, WorkerEnds DEF Crash, Others, PC, Alone, rowVars, historyVars
<1>14. CASE UNCHANGED vars
  BY <1>14, <1>t DEF vars, rowVars, historyVars, Alone, rowVars, historyVars
<1>15. QED
  BY <1>1, <1>2, <1>3, <1>4, <1>5, <1>6, <1>7, <1>8, <1>9, <1>10, <1>11, <1>12, <1>13,
     <1>14 DEF Next, RequestStep, WorkerStep, Working

\* The status of a task run once at a time stays that of its run.
LEMMA FollowsStep ==
    ASSUME TypeOK, Busy, Alone, [Next]_vars,
           NEW u \in Tasks \ (deleted' \cup overlapped'), Follows(u), Whole(u)
    PROVE  Follows(u)'
<1>t. /\ NoTask \notin Tasks /\ worker \in [Workers -> WorkerState]
      /\ task \in [Tasks -> TaskStatus]
      /\ \A w \in Workers : worker[w].pc # "idle" => worker[w].task \in Tasks
  BY Types DEF TypeOK
<1>1. ASSUME NEW t \in Tasks, CreateTask(t) PROVE Follows(u)'
  BY <1>1, <1>t DEF CreateTask, Follows, Alone, Whole, InFlight, rowVars, historyVars
<1>2. ASSUME NEW t \in Tasks, AddHost(t) PROVE Follows(u)'
  BY <1>2, <1>t DEF AddHost, Follows, Alone, Whole, InFlight, rowVars, historyVars
<1>3. ASSUME NEW t \in Tasks, AbortCreate(t) PROVE Follows(u)'
  BY <1>3, <1>t DEF AbortCreate, Follows, Alone, Whole, InFlight, rowVars, historyVars
<1>4. ASSUME NEW t \in Tasks, Publish(t) PROVE Follows(u)'
  BY <1>4, <1>t DEF Publish, Follows, Alone, Whole, InFlight, rowVars, historyVars
<1>5. ASSUME NEW t \in Tasks, DeleteTask(t) PROVE Follows(u)'
  BY <1>5, <1>t DEF DeleteTask, Follows, Alone, Whole, InFlight, rowVars, historyVars
<1>6. ASSUME NEW t \in Tasks, Redeliver(t) PROVE Follows(u)'
  BY <1>6, <1>t DEF Redeliver, Follows, Alone, Whole, InFlight, rowVars, historyVars
<1>7. ASSUME NEW w \in Workers, NEW t \in Tasks, TakeMessage(w, t) PROVE Follows(u)'
  <2>1. CASE Exists(t)
    <3>1. Becomes(w, [Idle EXCEPT !.pc = "taken", !.task = t])
      BY <1>7, <2>1 DEF TakeMessage
    <3>2. Others(w) /\ worker'[w].pc = "taken" /\ worker'[w].task = t
      BY <3>1, <1>t, WorkerTakes
    <3>3. QED
      BY <1>7, <3>2 DEF TakeMessage, Follows, Others, rowVars
  <2>2. CASE ~Exists(t)
    <3>1. UNCHANGED <<worker, overlapped, task>>
      BY <1>7, <2>2 DEF TakeMessage, rowVars
    <3>2. QED
      BY <3>1 DEF Follows
  <2>3. QED
    BY <2>1, <2>2
<1>8. ASSUME NEW w \in Workers, Working(w) PROVE Follows(u)'
  <2>1. /\ UNCHANGED task /\ Others(w) /\ worker'[w].task = worker[w].task
        /\ worker[w].pc \in {"started", "marked", "recording"}
        /\ worker'[w].pc \in {"marked", "recording", "failing"}
    BY <1>8, RunGoesOn DEF WorksOn
  <2>2. QED
    BY <2>1 DEF Others, Follows
<1>9. ASSUME NEW w \in Workers, StartRun(w) PROVE Follows(u)'
  BY <1>9, <1>t, WorkerGoes, WorkerEnds DEF StartRun, Others, PC, Exists, Follows, Alone,
     Whole, InFlight, rowVars, historyVars
<1>10. ASSUME NEW w \in Workers, Finish(w) PROVE Follows(u)'
  BY <1>10, <1>t, WorkerEnds DEF Finish, Others, PC, Exists, Follows, Alone, Whole,
     InFlight, rowVars, historyVars
<1>11. ASSUME NEW w \in Workers, FailTask(w) PROVE Follows(u)'
  BY <1>11, <1>t, WorkerGoes, WorkerEnds DEF FailTask, Others, PC, Exists, Follows,
     Alone, Whole, InFlight, rowVars, historyVars
<1>12. ASSUME NEW w \in Workers, FailHosts(w) PROVE Follows(u)'
  BY <1>12, <1>t, WorkerEnds DEF FailHosts, Others, PC, Follows, Alone, Whole, InFlight,
     rowVars, historyVars
<1>13. ASSUME NEW w \in Workers, Crash(w) PROVE Follows(u)'
  BY <1>13, <1>t, WorkerEnds DEF Crash, Others, PC, Follows, Alone, Whole, InFlight,
     rowVars, historyVars
<1>14. CASE UNCHANGED vars
  BY <1>14, <1>t DEF vars, rowVars, historyVars, Follows, Alone, Whole, InFlight,
     rowVars, historyVars
<1>15. QED
  BY <1>1, <1>2, <1>3, <1>4, <1>5, <1>6, <1>7, <1>8, <1>9, <1>10, <1>11, <1>12, <1>13,
     <1>14 DEF Next, RequestStep, WorkerStep, Working

\* A task has one run at most unless it is marked, and its status is that of the run.
THEOREM StatusCorrect == Spec => []StatusInv
<1>1. Init => StatusInv
  BY RemoteAssumption DEF Init, StatusInv, Alone, Follows, Idle
<1>2. TypeOK /\ Busy /\ StatusInv /\ WholeInv /\ [Next]_vars => StatusInv'
  BY AloneStep, FollowsStep, HistoryGrows DEF StatusInv, WholeInv
<1>3. QED
  BY <1>1, <1>2, TypeCorrect, WholeCorrect, PTL DEF Spec

--------------------------------------------------------------------------------
(* The counters agree with the host rows *)

\* A worker begins to record with counters at zero and no host recorded.
LEMMA Begins ==
    ASSUME TypeOK, Busy, Alone, NEW u \in Tasks, u \notin deleted, u \notin overlapped,
           Whole(u), Follows(u), Counts(u), NEW w \in Workers, WorksOn(w),
           PrepareMoves(w), worker[w].pc = "marked", UNCHANGED host
    PROVE  Counts(u)'
<1>1. \A s : HostsOf(u, s)' = HostsOf(u, s)
  BY DEF HostsOf
<1>2. CASE worker[w].task = u
  <2>1. Targets[u] \subseteq HostsOf(u, "running") /\ worker[w].hosts = Targets[u]
    BY <1>2 DEF Counts, Counting, Whole, Prepared
  <2>2. HostsOf(u, "success") = {} /\ HostsOf(u, "failed") = {}
    BY <2>1 DEF HostsOf
  <2>3. worker[w].ok = 0 /\ worker[w].bad = 0
    BY <1>2 DEF Counts, Counting
  <2>4. Cardinality({}) = 0
    BY FS_EmptySet
  <2>5. Counting(u, w)'
    BY <1>1, <2>1, <2>2, <2>3, <2>4 DEF PrepareMoves, SameTally, Counting, Tallied
  <2>6. QED
    BY <1>1, <2>5 DEF WorksOn, Others, Counts, Counting, Tallied
<1>3. CASE worker[w].task # u
  BY <1>1, <1>3 DEF WorksOn, Others, Counts, Counting, Tallied
<1>4. QED
  BY <1>2, <1>3

\* A recorded host moves from the running ones to those its counter counts.
LEMMA Records ==
    ASSUME TypeOK, Busy, Alone, NEW u \in Tasks, u \notin deleted, u \notin overlapped,
           Whole(u), Follows(u), Counts(u), NEW w \in Workers, WorksOn(w),
           worker[w].pc = "recording", NEW h, NEW s \in {"success", "failed"},
           Recorded(w, h, s)
    PROVE  Counts(u)'
<1>t. /\ worker[w].task \in Tasks /\ host \in [Tasks -> [Hosts -> HostStatus]]
      /\ worker[w].ok \in Nat /\ worker[w].bad \in Nat
      /\ Targets[u] \subseteq Hosts /\ s \in HostStatus
      /\ NoTask \notin Tasks
  BY Types DEF HostStatus
<1>1. CASE worker[w].task = u
  <2>1. /\ worker[w].todo \subseteq HostsOf(u, "running") /\ Tallied(u, worker[w])
        /\ task[u] = "running" /\ h \in worker[w].todo
    BY <1>1 DEF Counts, Counting, Follows, Recorded
  <2>2. h \in Targets[u] /\ host[u][h] = "running" /\ h \in Hosts
    BY <2>1, <1>t DEF HostsOf
  <2>3. \A g \in Hosts : host'[u][g] = IF g = h THEN s ELSE host[u][g]
    BY <1>1, <1>t, <2>2, HostsChange DEF Recorded
  <2>4. /\ HostsOf(u, "running")' = HostsOf(u, "running") \ {h}
        /\ HostsOf(u, s)' = HostsOf(u, s) \cup {h}
        /\ \A r \in {"success", "failed"} : r # s => HostsOf(u, r)' = HostsOf(u, r)
    BY <1>t, <2>2, <2>3 DEF HostsOf
  <2>5. h \notin HostsOf(u, s) /\ HostsOf(u, s) \subseteq Hosts
    BY <1>t, <2>2 DEF HostsOf
  <2>6. Cardinality(HostsOf(u, s) \cup {h}) = Cardinality(HostsOf(u, s)) + 1
    BY <2>5, RemoteAssumption, FS_Subset, FS_AddElement
  <2>7. worker'[w].todo \subseteq HostsOf(u, "running")'
    BY <2>1, <2>4 DEF Recorded
  <2>8. Tallied(u, worker[w])'
    <3>1. CASE s = "success"
      BY <1>t, <2>1, <2>4, <2>6, <3>1 DEF Recorded, Tallied
    <3>2. CASE s = "failed"
      BY <1>t, <2>1, <2>4, <2>6, <3>2 DEF Recorded, Tallied
    <3>3. QED
      BY <3>1, <3>2
  <2>9. \A v \in Workers \ {w} : worker'[v].task # u
    BY <1>1, <1>t DEF Alone, WorksOn, Others
  <2>10. task'[u] = "running"
    BY <2>1 DEF WorksOn
  <2>11. QED
    BY <2>7, <2>8, <2>9, <2>10 DEF Recorded, Counts, Counting
<1>2. CASE worker[w].task # u
  <2>1. host'[u] = host[u]
    BY <1>2, <1>t, HostsChange DEF Recorded
  <2>2. \A r : HostsOf(u, r)' = HostsOf(u, r)
    BY <2>1 DEF HostsOf
  <2>3. QED
    BY <1>2, <2>2 DEF WorksOn, Others, Counts, Counting, Tallied
<1>3. QED
  BY <1>1, <1>2

\* Whatever happens, the counters of a task run once at a time agree with its rows.
LEMMA CountStep ==
    ASSUME TypeOK, Busy, Alone, [Next]_vars,
           NEW u \in Tasks \ (deleted' \cup overlapped'), Whole(u), Follows(u), Counts(u)
    PROVE  Counts(u)'
<1>t. /\ NoTask \notin Tasks /\ worker \in [Workers -> WorkerState]
      /\ task \in [Tasks -> TaskStatus] /\ counts \in [Tasks -> [ok : Nat, bad : Nat]]
      /\ \A w \in Workers : worker[w].pc # "idle" => worker[w].task \in Tasks
  BY Types DEF TypeOK
<1>h. host'[u] = host[u] => \A s : HostsOf(u, s)' = HostsOf(u, s)
  BY DEF HostsOf
<1>a. u \notin deleted /\ u \notin overlapped
  BY HistoryGrows
<1>1. ASSUME NEW t \in Tasks, CreateTask(t) PROVE Counts(u)'
  <2>1. UNCHANGED <<host, counts, worker>> /\ creation[t] = "none"
    BY <1>1 DEF CreateTask
  <2>2. task'[u] = IF u = t THEN "pending" ELSE task[u]
    BY <1>1, <1>t DEF CreateTask
  <2>3. QED
    BY <2>1, <2>2, <1>h DEF Counts, Counting, Tallied
<1>2. ASSUME NEW t \in Tasks, AddHost(t) PROVE Counts(u)'
  <2>1. UNCHANGED <<task, counts, worker>> /\ (u = t => ~InFlight(u))
    BY <1>2 DEF AddHost, Whole
  <2>2. \A s \in {"success", "failed", "running"} : HostsOf(u, s)' = HostsOf(u, s)
    <3>1. PICK h \in HostsOf(t, "absent") :
              host' = [host EXCEPT ![t][h] = "pending"]
      BY <1>2 DEF AddHost
    <3>2. h \in Hosts /\ host[t][h] = "absent" /\ \A v \in Tasks : Targets[v] \subseteq Hosts
      BY Types DEF HostsOf
    <3>3. \A g \in Hosts : host'[u][g] # host[u][g] =>
              host[u][g] = "absent" /\ host'[u][g] = "pending"
      BY <3>1, <3>2, Types
    <3>4. QED
      BY <3>2, <3>3 DEF HostsOf
  <2>3. QED
    BY <2>1, <2>2 DEF Counts, Counting, Tallied
<1>3. ASSUME NEW t \in Tasks, AbortCreate(t) PROVE Counts(u)'
  BY <1>3, <1>t, <1>h DEF AbortCreate, Counts, Counting, Tallied, rowVars, historyVars
<1>4. ASSUME NEW t \in Tasks, Publish(t) PROVE Counts(u)'
  BY <1>4, <1>t, <1>h DEF Publish, Counts, Counting, Tallied, rowVars, historyVars
<1>5. ASSUME NEW t \in Tasks, DeleteTask(t) PROVE Counts(u)'
  <2>1. u # t /\ UNCHANGED worker
    BY <1>5 DEF DeleteTask
  <2>2. host'[u] = host[u] /\ task'[u] = task[u] /\ counts'[u] = counts[u]
    BY <1>5, <2>1, <1>t, Types DEF DeleteTask
  <2>3. QED
    BY <2>1, <2>2, <1>h DEF Counts, Counting, Tallied
<1>6. ASSUME NEW t \in Tasks, Redeliver(t) PROVE Counts(u)'
  BY <1>6, <1>t, <1>h DEF Redeliver, Counts, Counting, Tallied, rowVars, historyVars
<1>7. ASSUME NEW w \in Workers, NEW t \in Tasks, TakeMessage(w, t) PROVE Counts(u)'
  <2>1. CASE Exists(t)
    <3>1. Becomes(w, [Idle EXCEPT !.pc = "taken", !.task = t])
      BY <1>7, <2>1 DEF TakeMessage
    <3>2. /\ Others(w) /\ worker'[w].pc = "taken" /\ worker'[w].task = t
          /\ worker'[w].ok = 0 /\ worker'[w].bad = 0
      BY <3>1, <1>t, WorkerTakes
    <3>3. QED
      BY <1>7, <3>2, <1>h DEF TakeMessage, Counts, Counting, Tallied, Others, rowVars
  <2>2. CASE ~Exists(t)
    <3>1. UNCHANGED <<worker, overlapped, task, host, counts>>
      BY <1>7, <2>2 DEF TakeMessage, rowVars
    <3>2. QED
      BY <3>1, <1>h DEF Counts, Counting, Tallied, rowVars
  <2>3. QED
    BY <2>1, <2>2
<1>8. ASSUME NEW w \in Workers, StartRun(w) PROVE Counts(u)'
  BY <1>8, <1>t, <1>h, WorkerGoes, WorkerEnds DEF StartRun, Others, PC, SameTally,
     Counts, Counting, Tallied, rowVars, historyVars
<1>9. ASSUME NEW w \in Workers, MarkHosts(w) PROVE Counts(u)'
  <2>1. WorksOn(w) /\ worker[w].pc = "started" /\ worker[w].task \in Tasks
    BY <1>9, RunGoesOn, Types DEF Working, MarkHosts
  <2>2. worker'[w].pc = "marked" /\ SameTally(w)
    BY <1>9, <2>1, Types, WorkerMarks
  <2>3. CASE worker[w].task = u
    <3>1. HostsOf(u, "absent") = {} /\ task[u] = "running"
      BY <2>1, <2>3 DEF Whole, InFlight, Follows
    <3>2. \A h \in Targets[u] : host'[u][h] = "running"
      BY <1>9, <2>3, <3>1, Types, HostsChange DEF MarkHosts, HostsOf, HostStatus
    <3>3. Targets[u] \subseteq HostsOf(u, "running")'
      BY <3>2 DEF HostsOf
    <3>4. \A v \in Workers \ {w} : worker'[v].task # u
      BY <2>1, <2>3, <1>a, <1>t DEF Alone, WorksOn, Others
    <3>5. QED
      BY <2>1, <2>2, <2>3, <3>1, <3>3, <3>4 DEF WorksOn, Counts, Counting, SameTally
  <2>4. CASE worker[w].task # u
    <3>1. host'[u] = host[u]
      BY <1>9, <2>1, <2>4, Types, HostsChange DEF MarkHosts, HostStatus
    <3>2. QED
      BY <2>1, <2>4, <3>1, <1>h DEF WorksOn, Others, Counts, Counting, Tallied
  <2>5. QED
    BY <2>3, <2>4
<1>10. ASSUME NEW w \in Workers, RunPlaybook(w) PROVE Counts(u)'
  <2>1. WorksOn(w) /\ worker[w].pc = "marked" /\ UNCHANGED host
    BY <1>10, RunGoesOn DEF Working, RunPlaybook, rowVars
  <2>2. PrepareMoves(w)
    BY <1>10, <2>1, Types, PlaybookMoves
  <2>3. QED
    BY <2>1, <2>2, <1>a, <1>t, <1>h, Begins
<1>11. ASSUME NEW w \in Workers, FetchSource(w) PROVE Counts(u)'
  <2>1. WorksOn(w) /\ worker[w].pc = "marked" /\ UNCHANGED host
    BY <1>11, RunGoesOn DEF Working, FetchSource, rowVars
  <2>2. PrepareMoves(w)
    BY <1>11, <2>1, Types, SourceMoves
  <2>3. QED
    BY <2>1, <2>2, <1>a, <1>t, <1>h, Begins
<1>12. ASSUME NEW w \in Workers, RecordHost(w) PROVE Counts(u)'
  <2>1. WorksOn(w) /\ worker[w].pc = "recording"
    BY <1>12, RunGoesOn DEF Working, RecordHost
  <2>2. PICK h \in worker[w].todo, s \in {"success", "failed"} : Recorded(w, h, s)
    BY <1>12, Types, RecordMoves
  <2>3. QED
    BY <2>1, <2>2, <1>a, Records
<1>13. ASSUME NEW w \in Workers, TimeOut(w) PROVE Counts(u)'
  <2>1. WorksOn(w) /\ UNCHANGED host
    BY <1>13, RunGoesOn DEF Working, TimeOut, rowVars
  <2>2. worker'[w].pc = "failing"
    BY <1>13, Types, WorkerFails DEF TimeOut
  <2>3. QED
    BY <2>1, <2>2, <1>h DEF WorksOn, Others, Counts, Counting, Tallied
<1>14. ASSUME NEW w \in Workers, Finish(w) PROVE Counts(u)'
  <2>1. worker[w].pc = "recording" /\ worker[w].task \in Tasks /\ UNCHANGED host
    BY <1>14, <1>t DEF Finish
  <2>2. Others(w) /\ worker'[w].task = NoTask
    BY <1>14, Types, WorkerEnds DEF Finish
  <2>3. CASE worker[w].task = u
    <3>1. Tallied(u, worker[w])
      BY <2>1, <2>3 DEF Counts, Counting
    <3>2. \/ counts'[u] = [ok |-> worker[w].ok, bad |-> worker[w].bad]
          \/ UNCHANGED <<task, counts>>
      BY <1>14, <2>3, <1>t DEF Finish
    <3>3. \A v \in Workers : worker'[v].task # u
      BY <2>2, <2>3, <1>a, <1>t DEF Alone, Others
    <3>4. QED
      BY <2>1, <3>1, <3>2, <3>3, <1>h DEF Counts, Tallied
  <2>4. CASE worker[w].task # u
    <3>1. task'[u] = task[u] /\ counts'[u] = counts[u]
      BY <1>14, <2>1, <2>4, <1>t DEF Finish
    <3>2. QED
      BY <2>1, <2>2, <2>4, <3>1, <1>h, <1>t DEF Others, Counts, Counting, Tallied
  <2>5. QED
    BY <2>3, <2>4
<1>15. ASSUME NEW w \in Workers, FailTask(w) PROVE Counts(u)'
  BY <1>15, <1>t, <1>h, WorkerGoes, WorkerEnds DEF FailTask, Others, PC, SameTally,
     Counts, Counting, Tallied, rowVars, historyVars
<1>16. ASSUME NEW w \in Workers, FailHosts(w) PROVE Counts(u)'
  <2>1. worker[w].pc = "failed" /\ worker[w].task \in Tasks /\ UNCHANGED <<task, counts>>
    BY <1>16, Types DEF FailHosts
  <2>2. Others(w) /\ worker'[w].task = NoTask
    BY <1>16, Types, WorkerEnds DEF FailHosts
  <2>3. CASE worker[w].task = u
    <3>1. task[u] = "failed"
      BY <2>1, <2>3 DEF Follows
    <3>2. \A v \in Workers : worker'[v].task # u
      BY <2>2, <2>3, <1>a, <1>t DEF Alone, Others
    <3>3. QED
      BY <2>1, <3>1, <3>2 DEF Counts
  <2>4. CASE worker[w].task # u
    <3>1. host'[u] = host[u]
      BY <1>16, <2>1, <2>4, Types, HostsChange DEF FailHosts, HostStatus
    <3>2. QED
      BY <2>1, <2>2, <2>4, <3>1, <1>h, <1>t DEF Others, Counts, Counting, Tallied
  <2>5. QED
    BY <2>3, <2>4
<1>17. ASSUME NEW w \in Workers, Crash(w) PROVE Counts(u)'
  BY <1>17, <1>t, <1>h, WorkerEnds DEF Crash, Others, PC, Counts, Counting, Tallied,
     rowVars, historyVars
<1>18. CASE UNCHANGED vars
  BY <1>18, <1>t, <1>h DEF vars, rowVars, historyVars, Counts, Counting, Tallied,
     rowVars, historyVars
<1>19. QED
  BY <1>1, <1>2, <1>3, <1>4, <1>5, <1>6, <1>7, <1>8, <1>9, <1>10, <1>11, <1>12, <1>13,
     <1>14, <1>15, <1>16, <1>17, <1>18 DEF Next, RequestStep, WorkerStep

\* The counters of a worker agree with the host rows from the first host to the last.
THEOREM CountCorrect == Spec => []CountInv
<1>1. Init => CountInv
  BY RemoteAssumption DEF Init, CountInv, Counts, Counting, Idle
<1>2. TypeOK /\ Busy /\ StatusInv /\ WholeInv /\ CountInv /\ [Next]_vars => CountInv'
  BY CountStep, HistoryGrows DEF StatusInv, WholeInv, CountInv
<1>3. QED
  BY <1>1, <1>2, TypeCorrect, WholeCorrect, StatusCorrect, PTL DEF Spec

\* The counters of a completed task agree with its host rows.
THEOREM CountersCorrect == Spec => []CountsAgree
<1>1. CountInv => CountsAgree
  BY DEF CountInv, Counts, Tallied, CountsAgree
<1>2. QED
  BY <1>1, CountCorrect, PTL

--------------------------------------------------------------------------------
(* No host is left running *)

\* Whatever happens, what runs is what a run has still to do or to fail.
LEMMA SettleStep ==
    ASSUME TypeOK, Busy, Alone, [Next]_vars,
           NEW u \in Tasks \ (deleted' \cup overlapped' \cup crashed'),
           Whole(u), Follows(u), Settles(u)
    PROVE  Settles(u)'
<1>t. /\ NoTask \notin Tasks /\ worker \in [Workers -> WorkerState]
      /\ task \in [Tasks -> TaskStatus]
      /\ \A w \in Workers : worker[w].pc # "idle" => worker[w].task \in Tasks
      /\ \A w \in Workers : worker[w].pc = "idle" => worker[w].task = NoTask
  BY Types DEF TypeOK
<1>h. host'[u] = host[u] => HostsOf(u, "running")' = HostsOf(u, "running")
  BY DEF HostsOf
<1>a. u \notin deleted /\ u \notin overlapped
  BY HistoryGrows
<1>w. \A w \in Workers : worker[w].task = u => Exists(u)
  BY DEF Whole, InFlight
<1>1. ASSUME NEW t \in Tasks, CreateTask(t) PROVE Settles(u)'
  <2>1. UNCHANGED <<host, worker>> /\ creation[t] = "none"
    BY <1>1 DEF CreateTask
  <2>2. task'[u] = IF u = t THEN "pending" ELSE task[u]
    BY <1>1, <1>t DEF CreateTask
  <2>3. QED
    BY <2>1, <2>2, <1>h DEF Settles
<1>2. ASSUME NEW t \in Tasks, AddHost(t) PROVE Settles(u)'
  <2>1. UNCHANGED <<task, worker>> /\ (u = t => ~InFlight(u))
    BY <1>2 DEF AddHost, Whole
  <2>2. HostsOf(u, "running")' = HostsOf(u, "running")
    <3>1. PICK h \in HostsOf(t, "absent") :
              host' = [host EXCEPT ![t][h] = "pending"]
      BY <1>2 DEF AddHost
    <3>2. h \in Hosts /\ host[t][h] = "absent" /\ \A v \in Tasks : Targets[v] \subseteq Hosts
      BY Types DEF HostsOf
    <3>3. \A g \in Hosts : host'[u][g] # host[u][g] =>
              host[u][g] = "absent" /\ host'[u][g] = "pending"
      BY <3>1, <3>2, Types
    <3>4. QED
      BY <3>2, <3>3 DEF HostsOf
  <2>3. QED
    BY <2>1, <2>2 DEF Settles
<1>3. ASSUME NEW t \in Tasks, AbortCreate(t) PROVE Settles(u)'
  BY <1>3, <1>t, <1>h DEF AbortCreate, Settles, rowVars, historyVars
<1>4. ASSUME NEW t \in Tasks, Publish(t) PROVE Settles(u)'
  BY <1>4, <1>t, <1>h DEF Publish, Settles, rowVars, historyVars
<1>5. ASSUME NEW t \in Tasks, DeleteTask(t) PROVE Settles(u)'
  <2>1. u # t /\ UNCHANGED worker
    BY <1>5 DEF DeleteTask
  <2>2. host'[u] = host[u] /\ task'[u] = task[u]
    BY <1>5, <2>1, <1>t, Types DEF DeleteTask
  <2>3. QED
    BY <2>1, <2>2, <1>h DEF Settles
<1>6. ASSUME NEW t \in Tasks, Redeliver(t) PROVE Settles(u)'
  BY <1>6, <1>t, <1>h DEF Redeliver, Settles, rowVars, historyVars
<1>7. ASSUME NEW w \in Workers, NEW t \in Tasks, TakeMessage(w, t) PROVE Settles(u)'
  <2>1. CASE Exists(t)
    <3>1. Becomes(w, [Idle EXCEPT !.pc = "taken", !.task = t])
      BY <1>7, <2>1 DEF TakeMessage
    <3>2. Others(w) /\ worker'[w].pc = "taken" /\ worker'[w].task = t
      BY <3>1, <1>t, WorkerTakes
    <3>3. QED
      BY <1>7, <3>2, <1>h, <1>t DEF TakeMessage, Settles, Others, rowVars
  <2>2. CASE ~Exists(t)
    <3>1. UNCHANGED <<worker, overlapped, task, host>>
      BY <1>7, <2>2 DEF TakeMessage, rowVars
    <3>2. QED
      BY <3>1, <1>h DEF Settles, rowVars
  <2>3. QED
    BY <2>1, <2>2
<1>8. ASSUME NEW w \in Workers, StartRun(w) PROVE Settles(u)'
  <2>1. worker[w].pc = "taken" /\ worker[w].task \in Tasks /\ UNCHANGED host
    BY <1>8, <1>t DEF StartRun
  <2>2. CASE worker[w].task = u
    <3>1. task' = [task EXCEPT ![u] = "running"] /\ GoTo(w, "started")
      BY <1>8, <2>2, <1>w DEF StartRun
    <3>2. worker'[w].pc = "started" /\ Others(w)
      BY <3>1, Types, WorkerGoes DEF PC
    <3>3. task'[u] = "running"
      BY <3>1, <1>t
    <3>4. QED
      BY <2>1, <3>2, <3>3, <1>h DEF Others, Settles
  <2>3. CASE worker[w].task # u
    <3>1. task'[u] = task[u]
      BY <1>8, <2>1, <2>3, <1>t DEF StartRun
    <3>2. Others(w) /\ worker'[w].task # u
      BY <1>8, <2>1, <2>3, Types, WorkerGoes, WorkerEnds DEF StartRun, PC
    <3>3. QED
      BY <2>1, <2>3, <3>1, <3>2, <1>h DEF Others, Settles
  <2>4. QED
    BY <2>2, <2>3
<1>9. ASSUME NEW w \in Workers, MarkHosts(w) PROVE Settles(u)'
  <2>1. WorksOn(w) /\ worker[w].pc = "started" /\ worker[w].task \in Tasks
    BY <1>9, RunGoesOn, Types DEF Working, MarkHosts
  <2>2. worker'[w].pc = "marked"
    BY <1>9, <2>1, Types, WorkerMarks
  <2>3. CASE worker[w].task = u
    <3>1. task'[u] = "running"
      BY <2>1, <2>3 DEF Follows, WorksOn
    <3>2. \A v \in Workers \ {w} : worker'[v].task # u
      BY <2>1, <2>3, <1>a, <1>t DEF Alone, WorksOn, Others
    <3>3. QED
      BY <2>2, <3>1, <3>2 DEF Settles
  <2>4. CASE worker[w].task # u
    <3>1. host'[u] = host[u]
      BY <1>9, <2>1, <2>4, Types, HostsChange DEF MarkHosts, HostStatus
    <3>2. QED
      BY <2>1, <2>4, <3>1, <1>h DEF WorksOn, Others, Settles
  <2>5. QED
    BY <2>3, <2>4
<1>10. ASSUME NEW w \in Workers, RunPlaybook(w) PROVE Settles(u)'
  <2>1. WorksOn(w) /\ worker[w].pc = "marked" /\ worker[w].task \in Scripts /\ UNCHANGED host
    BY <1>10, RunGoesOn DEF Working, RunPlaybook, rowVars
  <2>2. CASE worker[w].task = u
    <3>1. task'[u] = "running" /\ u \notin Files
      BY <2>1, <2>2, RemoteAssumption DEF Follows, WorksOn
    <3>2. QED
      BY <3>1 DEF Settles
  <2>3. CASE worker[w].task # u
    BY <2>1, <2>3, <1>h DEF WorksOn, Others, Settles
  <2>4. QED
    BY <2>2, <2>3
<1>11. ASSUME NEW w \in Workers, FetchSource(w) PROVE Settles(u)'
  <2>1. WorksOn(w) /\ worker[w].pc = "marked" /\ UNCHANGED host
    BY <1>11, RunGoesOn DEF Working, FetchSource, rowVars
  <2>2. worker'[w].pc = "recording" => worker'[w].todo = worker[w].hosts
    BY <1>11, <2>1, Types, SourceMoves
  <2>3. CASE worker[w].task = u
    <3>1. task'[u] = "running" /\ worker[w].hosts = Targets[u]
      BY <2>1, <2>3 DEF Follows, WorksOn, Whole, Prepared
    <3>2. \A v \in Workers \ {w} : worker'[v].task # u
      BY <2>1, <2>3, <1>a, <1>t DEF Alone, WorksOn, Others
    <3>3. HostsOf(u, "running")' \subseteq Targets[u]
      BY DEF HostsOf
    <3>4. QED
      BY <2>2, <3>1, <3>2, <3>3 DEF Settles
  <2>4. CASE worker[w].task # u
    BY <2>1, <2>4, <1>h DEF WorksOn, Others, Settles
  <2>5. QED
    BY <2>3, <2>4
<1>12. ASSUME NEW w \in Workers, RecordHost(w) PROVE Settles(u)'
  <2>1. WorksOn(w) /\ worker[w].pc = "recording"
    BY <1>12, RunGoesOn DEF Working, RecordHost
  <2>2. PICK h \in worker[w].todo, s \in {"success", "failed"} : Recorded(w, h, s)
    BY <1>12, Types, RecordMoves
  <2>3. /\ SetHosts(worker[w].task, {h}, s) /\ s \in HostStatus
        /\ worker[w].task \in Tasks /\ worker'[w].todo = worker[w].todo \ {h}
    BY <2>1, <2>2, <1>t DEF Recorded, HostStatus
  <2>4. CASE worker[w].task = u
    <3>1. task'[u] = "running"
      BY <2>1, <2>4 DEF Follows, WorksOn
    <3>2. HostsOf(u, "running")' \subseteq HostsOf(u, "running") \ {h}
      <4>1. \A g \in Hosts :
                host'[u][g] = IF g \in {h} /\ host[u][g] # "absent" THEN s ELSE host[u][g]
        BY <2>3, <2>4, Types, HostsChange
      <4>2. Targets[u] \subseteq Hosts
        BY Types
      <4>3. QED
        BY <4>1, <4>2, <2>2 DEF HostsOf
    <3>3. \A v \in Workers \ {w} : worker'[v].task # u
      BY <2>1, <2>4, <1>a, <1>t DEF Alone, WorksOn, Others
    <3>4. u \in Files => HostsOf(u, "running") \subseteq worker[w].todo
      BY <2>1, <2>4 DEF Settles
    <3>5. QED
      BY <2>3, <3>1, <3>2, <3>3, <3>4 DEF Settles
  <2>5. CASE worker[w].task # u
    <3>1. host'[u] = host[u]
      BY <2>3, <2>5, Types, HostsChange
    <3>2. QED
      BY <2>1, <2>5, <3>1, <1>h DEF WorksOn, Others, Settles
  <2>6. QED
    BY <2>4, <2>5
<1>13. ASSUME NEW w \in Workers, TimeOut(w) PROVE Settles(u)'
  <2>1. WorksOn(w) /\ UNCHANGED host /\ worker[w].pc = "recording"
    BY <1>13, RunGoesOn DEF Working, TimeOut, rowVars
  <2>2. worker'[w].pc = "failing"
    BY <1>13, Types, WorkerFails DEF TimeOut
  <2>3. worker[w].task = u => task[u] = "running"
    BY <2>1 DEF Follows
  <2>4. QED
    BY <2>1, <2>2, <2>3, <1>h DEF WorksOn, Others, Settles
<1>14. ASSUME NEW w \in Workers, Finish(w) PROVE Settles(u)'
  <2>1. worker[w].pc = "recording" /\ worker[w].task \in Tasks /\ UNCHANGED host
    BY <1>14, <1>t DEF Finish
  <2>2. Others(w) /\ worker'[w].task = NoTask
    BY <1>14, Types, WorkerEnds DEF Finish
  <2>3. CASE worker[w].task = u
    <3>1. task'[u] = "completed"
      BY <1>14, <2>3, <1>t, <1>w DEF Finish
    <3>2. u \in Files => HostsOf(u, "running") = {}
      BY <1>14, <2>1, <2>3 DEF Finish, Settles
    <3>3. \A v \in Workers : worker'[v].task # u
      BY <2>2, <2>3, <1>a, <1>t DEF Alone, Others
    <3>4. QED
      BY <2>1, <3>1, <3>2, <3>3, <1>h DEF Settles
  <2>4. CASE worker[w].task # u
    <3>1. task'[u] = task[u]
      BY <1>14, <2>1, <2>4, <1>t DEF Finish
    <3>2. QED
      BY <2>1, <2>2, <2>4, <3>1, <1>h, <1>t DEF Others, Settles
  <2>5. QED
    BY <2>3, <2>4
<1>15. ASSUME NEW w \in Workers, FailTask(w) PROVE Settles(u)'
  <2>1. worker[w].pc = "failing" /\ worker[w].task \in Tasks /\ UNCHANGED host
    BY <1>15, <1>t DEF FailTask
  <2>2. CASE worker[w].task = u
    <3>1. task' = [task EXCEPT ![u] = "failed"] /\ GoTo(w, "failed")
      BY <1>15, <2>2, <1>w DEF FailTask
    <3>2. worker'[w].pc = "failed" /\ worker'[w].task = u /\ Others(w)
      BY <3>1, <2>2, Types, WorkerGoes DEF PC
    <3>3. task'[u] = "failed"
      BY <3>1, <1>t
    <3>4. QED
      BY <2>1, <3>2, <3>3, <1>h DEF Others, Settles
  <2>3. CASE worker[w].task # u
    <3>1. task'[u] = task[u]
      BY <1>15, <2>1, <2>3, <1>t DEF FailTask
    <3>2. Others(w) /\ worker'[w].task # u
      BY <1>15, <2>1, <2>3, Types, WorkerGoes, WorkerEnds DEF FailTask, PC
    <3>3. QED
      BY <2>1, <2>3, <3>1, <3>2, <1>h DEF Others, Settles
  <2>4. QED
    BY <2>2, <2>3
<1>16. ASSUME NEW w \in Workers, FailHosts(w) PROVE Settles(u)'
  <2>1. worker[w].pc = "failed" /\ worker[w].task \in Tasks /\ UNCHANGED <<task, counts>>
    BY <1>16, Types DEF FailHosts
  <2>2. Others(w) /\ worker'[w].task = NoTask
    BY <1>16, Types, WorkerEnds DEF FailHosts
  <2>3. CASE worker[w].task = u
    <3>1. \A h \in Targets[u] : host'[u][h] # "running"
      <4>1. SetHosts(u, HostsOf(u, "running") \cup worker[w].doomed, "failed")
        BY <1>16, <2>3 DEF FailHosts
      <4>2. QED
        BY <4>1, Types, HostsChange DEF HostsOf, HostStatus
    <3>2. HostsOf(u, "running")' = {}
      BY <3>1 DEF HostsOf
    <3>3. QED
      BY <3>2 DEF Settles
  <2>4. CASE worker[w].task # u
    <3>1. host'[u] = host[u]
      BY <1>16, <2>1, <2>4, Types, HostsChange DEF FailHosts, HostStatus
    <3>2. QED
      BY <2>1, <2>2, <2>4, <3>1, <1>h, <1>t DEF Others, Settles
  <2>5. QED
    BY <2>3, <2>4
<1>17. ASSUME NEW w \in Workers, Crash(w) PROVE Settles(u)'
  BY <1>17, <1>t, <1>h, WorkerEnds DEF Crash, Others, PC, Settles, rowVars, historyVars
<1>18. CASE UNCHANGED vars
  BY <1>18, <1>t, <1>h DEF vars, rowVars, historyVars, Settles, rowVars, historyVars
<1>19. QED
  BY <1>1, <1>2, <1>3, <1>4, <1>5, <1>6, <1>7, <1>8, <1>9, <1>10, <1>11, <1>12, <1>13,
     <1>14, <1>15, <1>16, <1>17, <1>18 DEF Next, RequestStep, WorkerStep

\* A failed task, and a completed distribution, has no host that still runs.
THEOREM SettleCorrect == Spec => []NoHostLeftRunning
<1>1. Init => SettleInv
  BY RemoteAssumption DEF Init, SettleInv, Settles, Idle
<1>2. TypeOK /\ Busy /\ StatusInv /\ WholeInv /\ SettleInv /\ [Next]_vars => SettleInv'
  BY SettleStep, HistoryGrows DEF StatusInv, WholeInv, SettleInv
<1>3. SettleInv => NoHostLeftRunning
  BY DEF SettleInv, Settles, NoHostLeftRunning, InFlight
<1>4. QED
  BY <1>1, <1>2, <1>3, TypeCorrect, WholeCorrect, StatusCorrect, PTL DEF Spec
================================================================================
