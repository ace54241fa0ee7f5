------------------------------- MODULE RemoteTask -------------------------------
(***************************************************************************)
(* Work done on many hosts at once: batch scripts (run_batch_task) and     *)
(* file distributions (run_file_dist_task), the requests that create and   *)
(* delete them (common/services.py) and the Celery messages in between.    *)
(*                                                                         *)
(* Neither side uses transactions or looks at the status before it acts,   *)
(* so each save is an action of its own.  The two kinds of task share      *)
(* their rows' shape, their first saves and their error handling.          *)
(***************************************************************************)
EXTENDS Naturals, FiniteSets

CONSTANTS
    Scripts,     \* primary keys of BatchTask rows
    Files,       \* primary keys of FileDistTask rows
    Hosts,
    Targets,     \* the hosts chosen for each task
    Workers,     \* Celery worker processes
    MaxTasks,    \* bound: tasks created in all
    MaxQueue,    \* bound: undelivered messages per task
    Crashes,     \* whether worker processes may die
    NoTask

Tasks == Scripts \cup Files

ASSUME RemoteAssumption ==
    /\ Scripts \cap Files = {}
    /\ NoTask \notin Tasks
    /\ IsFiniteSet(Hosts)
    /\ Targets \in [Tasks -> SUBSET Hosts \ {{}}]
    /\ MaxTasks \in Nat
    /\ MaxQueue \in Nat
    /\ Crashes \in BOOLEAN

VARIABLES
    task,        \* status of each task row; "absent" if there is none
    host,        \* status of each task's host rows; "absent" likewise
    counts,      \* success_count and fail_count of each task row
    creation,    \* how far the request that creates a task has come
    queue,       \* undelivered messages of each task
    worker,      \* what each worker process is doing
    deleted,     \* history: tasks that a user deleted...
    gone,        \* ... and those of them that no worker was running then
    overlapped,  \* history: tasks that two workers ran at one time
    crashed      \* history: tasks whose worker died while it ran them

rowVars == <<task, host, counts>>
historyVars == <<deleted, gone, overlapped, crashed>>
vars == <<rowVars, creation, queue, worker, historyVars>>

--------------------------------------------------------------------------------
TaskStatus == {"absent", "pending", "running", "completed", "failed"}
HostStatus == {"absent", "pending", "running", "success", "failed"}

Idle == [pc |-> "idle", task |-> NoTask, hosts |-> {}, todo |-> {}, doomed |-> {},
         ok |-> 0, bad |-> 0]
WorkerState == [pc : {"idle", "taken", "started", "marked", "recording", "failing", "failed"},
                task : Tasks \cup {NoTask}, hosts : SUBSET Hosts, todo : SUBSET Hosts,
                doomed : SUBSET Hosts, ok : Nat, bad : Nat]

Exists(t) == task[t] # "absent"
InFlight(t) == \E w \in Workers : worker[w].task = t
Runs(w, t) == worker[w].task = t /\ worker[w].pc # "taken"
HostsOf(t, s) == {h \in Targets[t] : host[t][h] = s}

\* UPDATE ... WHERE task_id = t [AND ...]: rows that are gone stay gone.
SetHosts(t, H, s) ==
    host' = [host EXCEPT ![t] =
                [h \in Hosts |-> IF h \in H /\ @[h] # "absent" THEN s ELSE @[h]]]

Init ==
    /\ task = [t \in Tasks |-> "absent"]
    /\ host = [t \in Tasks |-> [h \in Hosts |-> "absent"]]
    /\ counts = [t \in Tasks |-> [ok |-> 0, bad |-> 0]]
    /\ creation = [t \in Tasks |-> "none"]
    /\ queue = [t \in Tasks |-> 0]
    /\ worker = [w \in Workers |-> Idle]
    /\ deleted = {}
    /\ gone = {}
    /\ overlapped = {}
    /\ crashed = {}

--------------------------------------------------------------------------------
(* Requests *)

CreateTask(t) ==
    /\ creation[t] = "none"
    /\ Cardinality({u \in Tasks : creation[u] # "none"}) < MaxTasks
    /\ creation' = [creation EXCEPT ![t] = "adding"]
    /\ task' = [task EXCEPT ![t] = "pending"]
    /\ UNCHANGED <<host, counts, queue, worker, historyVars>>

\* One row per host, each committed by itself.
AddHost(t) ==
    /\ creation[t] = "adding"
    /\ Exists(t)
    /\ \E h \in HostsOf(t, "absent") :
        /\ host' = [host EXCEPT ![t][h] = "pending"]
        /\ creation' = [creation EXCEPT ![t] = IF HostsOf(t, "absent") = {h} THEN "added" ELSE @]
    /\ UNCHANGED <<task, counts, queue, worker, historyVars>>

\* A host or the task itself is gone, so a foreign key fails, or the process dies: what has
\* been inserted stays.
AbortCreate(t) ==
    /\ creation[t] = "adding"
    /\ creation' = [creation EXCEPT ![t] = "aborted"]
    /\ UNCHANGED <<rowVars, queue, worker, historyVars>>

\* The message goes out before the host rows are there.
PublishEarlyBug(t) ==
    /\ creation[t] = "adding"
    /\ queue[t] = 0
    /\ queue' = [queue EXCEPT ![t] = @ + 1]
    /\ UNCHANGED <<rowVars, creation, worker, historyVars>>

\* delay() comes last, even if the task has been deleted in the meantime; the broker may
\* refuse the message.
Publish(t) ==
    /\ creation[t] = "added"
    /\ creation' = [creation EXCEPT ![t] = "done"]
    /\ \/ queue[t] < MaxQueue /\ queue' = [queue EXCEPT ![t] = @ + 1]
       \/ queue' = queue
    /\ UNCHANGED <<rowVars, worker, historyVars>>

\* A task may be deleted at any time, while it runs too; its host rows go with it.
DeleteTask(t) ==
    /\ Exists(t)
    /\ task' = [task EXCEPT ![t] = "absent"]
    /\ host' = [host EXCEPT ![t] = [h \in Hosts |-> "absent"]]
    /\ counts' = [counts EXCEPT ![t] = [ok |-> 0, bad |-> 0]]
    /\ deleted' = deleted \cup {t}
    /\ gone' = IF \E w \in Workers : Runs(w, t) THEN gone ELSE gone \cup {t}
    /\ UNCHANGED <<creation, queue, worker, overlapped, crashed>>

\* Redis hands a message out again when a worker has kept it unacknowledged for longer than
\* the visibility timeout, waiting behind a long deployment for instance.
Redeliver(t) ==
    /\ 0 < queue[t] /\ queue[t] < MaxQueue
    /\ queue' = [queue EXCEPT ![t] = @ + 1]
    /\ UNCHANGED <<rowVars, creation, worker, historyVars>>

--------------------------------------------------------------------------------
(* Workers *)

Becomes(w, state) == worker' = [worker EXCEPT ![w] = state]

EndRun(w) == Becomes(w, Idle)
GoTo(w, pc) == Becomes(w, [worker[w] EXCEPT !.pc = pc])
FailWith(w, H) == Becomes(w, [worker[w] EXCEPT !.pc = "failing", !.doomed = H])
RecordFor(w, todo, doomed) ==
    Becomes(w, [worker[w] EXCEPT !.pc = "recording", !.todo = todo, !.doomed = doomed])
Counted(w, h, ok, bad) ==
    Becomes(w, [worker[w] EXCEPT !.todo = @ \ {h}, !.ok = @ + ok, !.bad = @ + bad])

TakeMessage(w, t) ==
    /\ worker[w].pc = "idle"
    /\ queue[t] > 0
    /\ queue' = [queue EXCEPT ![t] = @ - 1]
    /\ IF Exists(t)
       THEN /\ Becomes(w, [Idle EXCEPT !.pc = "taken", !.task = t])
            /\ overlapped' = IF InFlight(t) THEN overlapped \cup {t} ELSE overlapped
       ELSE UNCHANGED <<worker, overlapped>>
    /\ UNCHANGED <<rowVars, creation, deleted, gone, crashed>>

\* The save inserts the row if it is gone.
StartRunInsertBug(w) ==
    /\ worker[w].pc = "taken"
    /\ task' = [task EXCEPT ![worker[w].task] = "running"]
    /\ GoTo(w, "started")
    /\ UNCHANGED <<host, counts, creation, queue, historyVars>>

\* Whatever the status was.  The save fails if the row is gone, and nothing catches it.
StartRun(w) ==
    LET t == worker[w].task IN
    /\ worker[w].pc = "taken"
    /\ IF Exists(t)
       THEN task' = [task EXCEPT ![t] = "running"] /\ GoTo(w, "started")
       ELSE EndRun(w) /\ UNCHANGED task
    /\ UNCHANGED <<host, counts, creation, queue, historyVars>>

MarkHosts(w) ==
    LET t == worker[w].task IN
    /\ worker[w].pc = "started"
    /\ Becomes(w, [worker[w] EXCEPT !.pc = "marked",
                                    !.hosts = Targets[t] \ HostsOf(t, "absent")])
    /\ SetHosts(t, Targets[t], "running")
    /\ UNCHANGED <<task, counts, creation, queue, historyVars>>

\* ansible-playbook on the hosts that have an address.  An exception fails the hosts that
\* are still running, no address at all every host of the task.  A JSON result names some
\* of the hosts; any other result fails them all.
RunPlaybook(w) ==
    /\ worker[w].pc = "marked"
    /\ worker[w].task \in Scripts
    /\ \/ FailWith(w, {})
       \/ FailWith(w, Targets[worker[w].task])
       \/ \E named \in SUBSET worker[w].hosts :
              worker[w].hosts # {} /\ RecordFor(w, named, {})
       \/ worker[w].hosts # {} /\ RecordFor(w, worker[w].hosts, worker[w].hosts)
    /\ UNCHANGED <<rowVars, creation, queue, historyVars>>

\* The source file is fetched, or the task fails; hosts without connection data will fail.
FetchSource(w) ==
    /\ worker[w].pc = "marked"
    /\ worker[w].task \in Files
    /\ \/ FailWith(w, {})
       \/ \E known \in SUBSET worker[w].hosts :
              RecordFor(w, worker[w].hosts, worker[w].hosts \ known)
    /\ UNCHANGED <<rowVars, creation, queue, historyVars>>

\* A host that cannot be reached is skipped before it is counted.
RecordHostSkipBug(w) ==
    /\ worker[w].pc = "recording"
    /\ \E h \in worker[w].todo :
        \/ /\ h \notin worker[w].doomed
           /\ SetHosts(worker[w].task, {h}, "success")
           /\ Counted(w, h, 1, 0)
        \/ /\ SetHosts(worker[w].task, {h}, "failed")
           /\ Counted(w, h, 0, IF h \in worker[w].doomed THEN 0 ELSE 1)
    /\ UNCHANGED <<task, counts, creation, queue, historyVars>>

RecordHost(w) ==
    /\ worker[w].pc = "recording"
    /\ \E h \in worker[w].todo :
        \/ /\ h \notin worker[w].doomed
           /\ SetHosts(worker[w].task, {h}, "success")
           /\ Counted(w, h, 1, 0)
        \/ /\ SetHosts(worker[w].task, {h}, "failed")
           /\ Counted(w, h, 0, 1)
    /\ UNCHANGED <<task, counts, creation, queue, historyVars>>

\* scp runs out of time on one host: the exception ends the whole distribution.
TimeOut(w) ==
    /\ worker[w].pc = "recording"
    /\ worker[w].task \in Files
    /\ worker[w].todo \ worker[w].doomed # {}
    /\ FailWith(w, {})
    /\ UNCHANGED <<rowVars, creation, queue, historyVars>>

FinishStatusBug(w) ==
    LET t == worker[w].task IN
    /\ worker[w].pc = "recording"
    /\ worker[w].todo = {}
    /\ task' = [task EXCEPT ![t] = "success"]
    /\ counts' = [counts EXCEPT ![t] = [ok |-> worker[w].ok, bad |-> worker[w].bad]]
    /\ EndRun(w)
    /\ UNCHANGED <<host, creation, queue, historyVars>>

\* task.save() without update_fields inserts the row if it is gone, unless what it refers
\* to (the script, the source host) is gone as well.
Finish(w) ==
    LET t == worker[w].task IN
    /\ worker[w].pc = "recording"
    /\ worker[w].todo = {}
    /\ \/ /\ task' = [task EXCEPT ![t] = "completed"]
          /\ counts' = [counts EXCEPT ![t] = [ok |-> worker[w].ok, bad |-> worker[w].bad]]
       \/ ~Exists(t) /\ UNCHANGED <<task, counts>>
    /\ EndRun(w)
    /\ UNCHANGED <<host, creation, queue, historyVars>>

\* The exception is logged by Celery and the row keeps its status.
FailTaskSilentBug(w) ==
    /\ worker[w].pc = "failing"
    /\ IF Exists(worker[w].task) THEN GoTo(w, "failed") ELSE EndRun(w)
    /\ UNCHANGED <<rowVars, creation, queue, historyVars>>

\* The except branch, first save.  It raises again if the row is gone.
FailTask(w) ==
    LET t == worker[w].task IN
    /\ worker[w].pc = "failing"
    /\ IF Exists(t)
       THEN task' = [task EXCEPT ![t] = "failed"] /\ GoTo(w, "failed")
       ELSE EndRun(w) /\ UNCHANGED task
    /\ UNCHANGED <<host, counts, creation, queue, historyVars>>

\* Only hosts that nobody has started on yet are failed.
FailHostsPendingBug(w) ==
    LET t == worker[w].task IN
    /\ worker[w].pc = "failed"
    /\ SetHosts(t, HostsOf(t, "pending"), "failed")
    /\ EndRun(w)
    /\ UNCHANGED <<task, counts, creation, queue, historyVars>>

\* The except branch, second save: hosts that have a result keep it, unless the hosts to
\* fail are already decided.
FailHosts(w) ==
    LET t == worker[w].task IN
    /\ worker[w].pc = "failed"
    /\ SetHosts(t, HostsOf(t, "running") \cup worker[w].doomed, "failed")
    /\ EndRun(w)
    /\ UNCHANGED <<task, counts, creation, queue, historyVars>>

Crash(w) ==
    /\ Crashes
    /\ worker[w].pc # "idle"
    /\ crashed' = crashed \cup {worker[w].task}
    /\ EndRun(w)
    /\ UNCHANGED <<rowVars, creation, queue, deleted, gone, overlapped>>

--------------------------------------------------------------------------------
RequestStep(t) ==
    \/ CreateTask(t)
    \/ AddHost(t)
    \/ AbortCreate(t)
    \/ Publish(t)
    \/ DeleteTask(t)
    \/ Redeliver(t)

WorkerStep(w) ==
    \/ StartRun(w)
    \/ MarkHosts(w)
    \/ RunPlaybook(w)
    \/ FetchSource(w)
    \/ RecordHost(w)
    \/ TimeOut(w)
    \/ Finish(w)
    \/ FailTask(w)
    \/ FailHosts(w)

Next ==
    \/ \E t \in Tasks : RequestStep(t)
    \/ \E w \in Workers, t \in Tasks : TakeMessage(w, t)
    \/ \E w \in Workers : WorkerStep(w)
    \/ \E w \in Workers : Crash(w)

Spec == Init /\ [][Next]_vars

\* Workers go on with the runs they have begun; nobody has to create or delete anything.
FairSpec == Spec /\ \A w \in Workers : WF_vars(WorkerStep(w))

--------------------------------------------------------------------------------
(* Properties *)

TypeOK ==
    /\ task \in [Tasks -> TaskStatus]
    /\ host \in [Tasks -> [Hosts -> HostStatus]]
    /\ counts \in [Tasks -> [ok : Nat, bad : Nat]]
    /\ creation \in [Tasks -> {"none", "adding", "added", "done", "aborted"}]
    /\ queue \in [Tasks -> Nat]
    /\ worker \in [Workers -> WorkerState]
    /\ deleted \subseteq Tasks
    /\ gone \subseteq Tasks
    /\ overlapped \subseteq Tasks
    /\ crashed \subseteq Tasks

\* No host is forgotten: a run works on all the hosts chosen for its task, although their
\* rows are inserted one by one while workers may already take messages.
RunCoversTargets ==
    \A w \in Workers :
        /\ worker[w].pc \in {"marked", "recording", "failing"}
        /\ worker[w].task \notin deleted
        => worker[w].hosts = Targets[worker[w].task]

\* The counters of a completed task are those of its host rows, unless it was deleted or
\* run twice at a time; hosts the result did not name are counted nowhere.
CountsAgree ==
    \A t \in Tasks \ (deleted \cup overlapped) :
        task[t] = "completed" =>
            /\ counts[t].ok = Cardinality(HostsOf(t, "success"))
            /\ counts[t].bad = Cardinality(HostsOf(t, "failed"))

\* A task that has failed leaves no host running behind, wherever the exception struck, and
\* a distribution leaves none in any case.
NoHostLeftRunning ==
    \A t \in Tasks \ (deleted \cup overlapped \cup crashed) :
        /\ ~InFlight(t)
        /\ task[t] = "failed" \/ (task[t] = "completed" /\ t \in Files)
        => HostsOf(t, "running") = {}

\* A task does not stay in the status running, unless its worker died.
TaskEnds == \A t \in Tasks : task[t] = "running" ~> task[t] # "running" \/ t \in crashed

\* Deleting a task is final, whatever messages are still due for it, unless a worker had
\* already begun to run it: that worker's last save inserts the row again.
DeleteIsFinal == \A t \in gone : ~Exists(t)
================================================================================
