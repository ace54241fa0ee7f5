------------------------------- MODULE DeployJob -------------------------------
(***************************************************************************)
(* The life of database deployment jobs: the web requests that create,     *)
(* retry, rebuild, cancel, release and delete them (deploy_services.py),   *)
(* the Celery messages that hand them to workers (deploy_tasks.py) and the *)
(* executor that runs their steps (deploy_executors/base.py).              *)
(*                                                                         *)
(* Every read or write the code sends to the database outside a common     *)
(* transaction is an action of its own, so requests and workers interleave *)
(* between any two of them.  Jobs are mysql_standalone jobs: they alone    *)
(* may be force-rebuilt and they alone reserve an endpoint when created.   *)
(***************************************************************************)
EXTENDS Naturals, FiniteSets

CONSTANTS
    Jobs,        \* primary keys DbDeployJob rows may take
    Workers,     \* Celery worker processes
    Requests,    \* web requests that may be in progress at one time
    Hosts,       \* rows of the Host table
    HostOf,      \* the target host of each job
    EndpointOf,  \* (engine, connect_host, port, db_name) of each job
    NSteps,      \* length of DEPLOY_STEPS
    MaxQueue,    \* bound: undelivered messages per job
    MaxRequests, \* bound: requests sent in all
    Crashes,     \* whether worker processes may die
    NoJob, NoOne

\* An endpoint's connect_host is a business IP of the target host
\* (validate_mysql_deploy_connect_host), so jobs that share an endpoint share a host.
ASSUME DeployAssumption ==
    /\ NSteps \in Nat /\ NSteps >= 3
    /\ MaxQueue \in Nat
    /\ MaxRequests \in Nat
    /\ Crashes \in BOOLEAN
    /\ HostOf \in [Jobs -> Hosts]
    /\ \A i, j \in Jobs : EndpointOf[i] = EndpointOf[j] => HostOf[i] = HostOf[j]
    /\ NoJob \notin Jobs
    /\ NoOne \notin Requests

VARIABLES
    status,    \* DbDeployJob.status; "absent" before the row exists, "deleted" after
    step,      \* DbDeployJobStep.status, by job and sort_order
    instance,  \* whether DbDeployJob.instance is set
    cmdb,      \* the jobs whose registration inserted a DatabaseInstance row
    force,     \* meta.force_rebuild, in params and resolved_params alike
    queue,     \* number of undelivered run_db_deploy_job messages of each job
    hostLock,  \* holder of the row lock SELECT ... FOR UPDATE takes on a Host row
    worker,    \* what each worker process is doing
    request,   \* what each web request is doing
    sent,      \* number of requests sent so far
    passed,    \* history: the steps of a job that some run completed
    stale,     \* history: jobs a request changed on the strength of an outdated read
    reflagged, \* history: jobs a resuming retry gave back a flag cleared since it read them
    crashed    \* history: jobs whose worker died while it ran them

dbVars == <<status, step, instance, cmdb, force>>
historyVars == <<passed, stale, reflagged, crashed>>
vars == <<dbVars, queue, hostLock, worker, request, sent, historyVars>>

--------------------------------------------------------------------------------
(* Statuses and steps *)

Steps == 1..NSteps
Precheck == 1
Verify == NSteps - 1
RegisterCmdb == NSteps

InProgress == {"prechecking", "running", "verifying"}
HostActive == {"pending"} \cup InProgress
EndpointActive == HostActive \cup {"failed"}
JobStatus == EndpointActive \cup {"succeeded", "cancelled", "absent", "deleted"}
StepStatus == {"pending", "running", "succeeded", "failed"}

Exists(j) == status[j] \notin {"absent", "deleted"}
SameHost(i, j) == HostOf[i] = HostOf[j]

\* The definitions named "...Bug" are plausible faults; nothing below uses them.
HostFreeNoPendingBug(j) ==
    \A i \in Jobs \ {j} : SameHost(i, j) => status[i] \notin InProgress
HostFreeSelfBug(j) == \A i \in Jobs : SameHost(i, j) => status[i] \notin HostActive

\* ensure_host_deploy_lock_available(host of j, exclude_job_id=j)
HostFree(j) == \A i \in Jobs \ {j} : SameHost(i, j) => status[i] \notin HostActive

EndpointFreeNoFailedBug(j) ==
    /\ \A i \in cmdb : EndpointOf[i] # EndpointOf[j]
    /\ \A i \in Jobs \ {j} :
           EndpointOf[i] = EndpointOf[j] => status[i] \notin HostActive

\* ensure_deploy_endpoint_available(endpoint of j, exclude_job_id=j): the ledger is
\* searched first, and a row that j itself inserted conflicts like any other.
EndpointFree(j) ==
    /\ \A i \in cmdb : EndpointOf[i] # EndpointOf[j]
    /\ \A i \in Jobs \ {j} :
           EndpointOf[i] = EndpointOf[j] => status[i] \notin EndpointActive

FirstFailed(j, k) ==
    /\ step[j][k] = "failed"
    /\ \A i \in 1..(k - 1) : step[j][i] # "failed"

IsNext(k, todo) == k \in todo /\ \A i \in todo : k <= i

--------------------------------------------------------------------------------
(* Workers and requests *)

WorkerIdle == [pc |-> "idle", job |-> NoJob, todo |-> {}, inst |-> FALSE, force |-> FALSE]
RequestIdle == [pc |-> "idle", op |-> "none", job |-> NoJob, seen |-> "absent",
                force |-> FALSE, from |-> 0]

Starting == {"guarded", "loaded", "checked"}
Running == {"stepping", "executing", "linking", "failing"}
WorkerState == [pc : {"idle", "clearing"} \cup Starting \cup Running,
                job : Jobs \cup {NoJob}, todo : SUBSET Steps,
                inst : BOOLEAN, force : BOOLEAN]
RequestState == [pc : {"idle", "read", "checked", "publish"},
                 op : {"none", "create", "retry", "rebuild", "cancel", "release", "delete"},
                 job : Jobs \cup {NoJob}, seen : JobStatus,
                 force : BOOLEAN, from : 0..(NSteps + 1)]

InFlight(j) == \E w \in Workers : worker[w].job = j
Runs(w, j) == worker[w].job = j /\ worker[w].pc \in Running
Requeues(r) == request[r].op \in {"retry", "rebuild"}

\* A retry or rebuild updates step rows early in its transaction and holds their row
\* locks to the commit: nobody else writes those rows in between.
StepRowsFree(j, K) ==
    \A r \in Requests :
        request[r].job = j /\ request[r].pc = "checked" /\ Requeues(r)
            => \A k \in K : k < request[r].from

Init ==
    /\ status = [j \in Jobs |-> "absent"]
    /\ step = [j \in Jobs |-> [k \in Steps |-> "pending"]]
    /\ instance = [j \in Jobs |-> FALSE]
    /\ cmdb = {}
    /\ force = [j \in Jobs |-> FALSE]
    /\ queue = [j \in Jobs |-> 0]
    /\ hostLock = [h \in Hosts |-> NoOne]
    /\ worker = [w \in Workers |-> WorkerIdle]
    /\ request = [r \in Requests |-> RequestIdle]
    /\ sent = 0
    /\ passed = [j \in Jobs |-> {}]
    /\ stale = {}
    /\ reflagged = {}
    /\ crashed = {}

--------------------------------------------------------------------------------
(* Web requests *)

EndRequest(r) == request' = [request EXCEPT ![r] = RequestIdle]
GoTo(r, pc) == request' = [request EXCEPT ![r].pc = pc]
PassChecks(r, k) == request' = [request EXCEPT ![r].pc = "checked", ![r].from = k]

\* create_deploy_job up to the host-lock and endpoint checks.  A request that fails a
\* check rolls back and changes nothing.
CheckCreate(r, j) ==
    /\ request[r].pc = "idle"
    /\ status[j] = "absent"
    /\ \A s \in Requests : request[s].job # j
    /\ hostLock[HostOf[j]] = NoOne
    /\ HostFree(j)
    /\ EndpointFree(j)
    /\ hostLock' = [hostLock EXCEPT ![HostOf[j]] = r]
    /\ request' = [request EXCEPT ![r] =
                      [RequestIdle EXCEPT !.pc = "checked", !.op = "create", !.job = j]]
    /\ UNCHANGED <<dbVars, queue, worker, historyVars>>

\* Other requests that have passed their checks for a job on the host of j.
CheckedOnHost(r, j) ==
    {s \in Requests \ {r} : /\ request[s].pc = "checked"
                            /\ request[s].job \in Jobs
                            /\ SameHost(request[s].job, j)}
Outdated(r, j) == {request[s].job : s \in {t \in CheckedOnHost(r, j) : Requeues(t)}}

CommitCreate(r) ==
    LET j == request[r].job IN
    /\ request[r].pc = "checked"
    /\ request[r].op = "create"
    /\ status' = [status EXCEPT ![j] = "pending"]
    /\ hostLock' = [hostLock EXCEPT ![HostOf[j]] = NoOne]
    /\ GoTo(r, "publish")
    /\ stale' = stale \cup Outdated(r, j)
    /\ UNCHANGED <<step, instance, cmdb, force, queue, worker, passed, reflagged, crashed>>

\* The read every other request starts from.  Only retry and rebuild use more of the
\* row than its status: they save params as they read them.
ReadJob(r, j, op) ==
    /\ request[r].pc = "idle"
    /\ request' = [request EXCEPT ![r] =
                      [RequestIdle EXCEPT !.pc = "read", !.op = op, !.job = j,
                                          !.seen = status[j],
                                          !.force = op \in {"retry", "rebuild"} /\ force[j]]]
    /\ UNCHANGED <<dbVars, queue, hostLock, worker, historyVars>>

ReadRetry(r, j) == status[j] \in {"pending", "failed", "cancelled"} /\ ReadJob(r, j, "retry")
ReadRebuild(r, j) ==
    /\ status[j] \in {"pending", "failed", "cancelled"}
    /\ ~instance[j]
    /\ ReadJob(r, j, "rebuild")
ReadCancel(r, j) == status[j] = "pending" /\ ReadJob(r, j, "cancel")
ReadRelease(r, j) == status[j] = "failed" /\ ~instance[j] /\ ReadJob(r, j, "release")
ReadDelete(r, j) == status[j] \in {"pending", "failed", "cancelled"} /\ ReadJob(r, j, "delete")

\* The steps a re-enqueue resets are those from this sort_order on; it is decided by the
\* status read before the transaction and the failed steps read inside it.
ResetFrom(r, k) ==
    LET j == request[r].job IN
    \/ request[r].op = "rebuild" /\ k = 1
    \/ request[r].seen = "cancelled" /\ k = 1
    \/ /\ request[r].op = "retry" /\ request[r].seen = "failed"
       /\ \/ k \in Steps /\ FirstFailed(j, k)
          \/ k = 1 /\ \A i \in Steps : step[j][i] # "failed"
    \/ request[r].op = "retry" /\ request[r].seen = "pending" /\ k = NSteps + 1

\* resolved_params are rebuilt, and the endpoint checked again, unless the retry resumes.
Resumes(r) ==
    /\ request[r].op = "retry"
    /\ request[r].seen = "failed"
    /\ \E i \in Steps : step[request[r].job][i] = "failed"

CheckRequeue(r) ==
    LET j == request[r].job IN
    /\ request[r].pc = "read"
    /\ Requeues(r)
    /\ \E k \in 1..(NSteps + 1) :
        /\ ResetFrom(r, k)
        /\ StepRowsFree(j, k..NSteps)
        /\ IF HostFree(j) /\ (Resumes(r) \/ EndpointFree(j))
           THEN PassChecks(r, k)
           ELSE EndRequest(r)
    /\ UNCHANGED <<dbVars, queue, hostLock, worker, historyVars>>

\* Whether what a request read of j has changed, or is about to, when it writes.
Overtaken(r, j) ==
    \/ status[j] # request[r].seen
    \/ InFlight(j)

\* A retry that keeps the first steps saves params and resolved_params as it read them,
\* the flag with them; the worker of the failed run may have cleared it since.
PutsFlagBack(r, j) ==
    request[r].op = "retry" /\ request[r].from # 1 /\ request[r].force /\ ~force[j]

\* A re-enqueue also adds a message to those that are still due for the job.
MessageDue(r, j) ==
    \/ queue[j] > 0
    \/ \E s \in Requests \ {r} : request[s].job = j /\ request[s].pc = "publish"

CommitRequeue(r) ==
    LET j == request[r].job IN
    /\ request[r].pc = "checked"
    /\ Requeues(r)
    /\ IF Exists(j)
       THEN /\ status' = [status EXCEPT ![j] = "pending"]
            /\ step' = [step EXCEPT ![j] =
                           [k \in Steps |-> IF k < request[r].from THEN @[k] ELSE "pending"]]
            /\ force' = [force EXCEPT ![j] = request[r].force \/ request[r].op = "rebuild"]
            /\ GoTo(r, "publish")
            /\ stale' = stale \cup Outdated(r, j) \cup
                  (IF Overtaken(r, j) \/ MessageDue(r, j) \/ CheckedOnHost(r, j) # {}
                   THEN {j} ELSE {})
            /\ reflagged' = reflagged \cup (IF PutsFlagBack(r, j) THEN {j} ELSE {})
       ELSE EndRequest(r) /\ UNCHANGED <<status, step, force, stale, reflagged>>
    /\ UNCHANGED <<instance, cmdb, queue, hostLock, worker, passed, crashed>>

\* cancel_deploy_job and release_deploy_job_endpoint write the same status.
CommitCancel(r) ==
    LET j == request[r].job IN
    /\ request[r].pc = "read"
    /\ request[r].op \in {"cancel", "release"}
    /\ IF Exists(j)
       THEN /\ status' = [status EXCEPT ![j] = "cancelled"]
            /\ stale' = stale \cup (IF Overtaken(r, j) THEN {j} ELSE {})
       ELSE UNCHANGED <<status, stale>>
    /\ EndRequest(r)
    /\ UNCHANGED <<step, instance, cmdb, force, queue, hostLock, worker, passed, reflagged, crashed>>

\* job.delete() takes the step rows with it, so it waits for a re-enqueue's row locks.
CommitDelete(r) ==
    LET j == request[r].job IN
    /\ request[r].pc = "read"
    /\ request[r].op = "delete"
    /\ StepRowsFree(j, Steps)
    /\ status' = [status EXCEPT ![j] = "deleted"]
    /\ step' = [step EXCEPT ![j] = [k \in Steps |-> "pending"]]
    /\ force' = [force EXCEPT ![j] = FALSE]
    /\ stale' = stale \cup (IF Overtaken(r, j) THEN {j} ELSE {})
    /\ EndRequest(r)
    /\ UNCHANGED <<instance, cmdb, queue, hostLock, worker, passed, reflagged, crashed>>

\* run_db_deploy_job.delay after the commit; the broker may refuse the message, or the
\* web process may die first.
Publish(r) ==
    LET j == request[r].job IN
    /\ request[r].pc = "publish"
    /\ \/ queue[j] < MaxQueue /\ queue' = [queue EXCEPT ![j] = @ + 1]
       \/ queue' = queue
    /\ EndRequest(r)
    /\ UNCHANGED <<dbVars, hostLock, worker, historyVars>>

--------------------------------------------------------------------------------
(* Workers *)

EndTask(w) == worker' = [worker EXCEPT ![w] = WorkerIdle]
StartTask(w, j) ==
    worker' = [worker EXCEPT ![w] = [WorkerIdle EXCEPT !.pc = "guarded", !.job = j]]
Advance(w, pc) == worker' = [worker EXCEPT ![w].pc = pc]

\* The message stays in the queue until the run has ended, and another worker takes it.
TakeMessageLateAckBug(w, j) ==
    /\ worker[w].pc = "idle"
    /\ queue[j] > 0
    /\ status[j] \in {"pending", "failed"}
    /\ StartTask(w, j)
    /\ UNCHANGED <<dbVars, queue, hostLock, request, historyVars>>

\* The guard of run_db_deploy_job.  Celery acknowledges the message on receipt.
TakeMessage(w, j) ==
    /\ worker[w].pc = "idle"
    /\ queue[j] > 0
    /\ queue' = [queue EXCEPT ![j] = @ - 1]
    /\ IF status[j] \in {"pending", "failed"}
       THEN StartTask(w, j)
       ELSE UNCHANGED worker
    /\ UNCHANGED <<dbVars, hostLock, request, historyVars>>

\* A step is skipped unless it is pending, whatever became of it.
LoadJobPendingBug(w) ==
    LET j == worker[w].job IN
    /\ worker[w].pc = "guarded"
    /\ IF Exists(j)
       THEN worker' = [worker EXCEPT ![w] =
                [pc |-> "loaded", job |-> j, inst |-> instance[j], force |-> force[j],
                 todo |-> {k \in Steps : step[j][k] = "pending"}]]
       ELSE EndTask(w)
    /\ UNCHANGED <<dbVars, queue, hostLock, request, historyVars>>

\* executor.run reads the row and its steps again; the steps it will skip are fixed here.
LoadJob(w) ==
    LET j == worker[w].job IN
    /\ worker[w].pc = "guarded"
    /\ IF Exists(j)
       THEN worker' = [worker EXCEPT ![w] =
                [pc |-> "loaded", job |-> j, inst |-> instance[j], force |-> force[j],
                 todo |-> {k \in Steps : step[j][k] # "succeeded"}]]
       ELSE EndTask(w)
    /\ UNCHANGED <<dbVars, queue, hostLock, request, historyVars>>

\* The status is saved before the check that may raise.
CheckHostSavedBug(w) ==
    LET j == worker[w].job IN
    /\ worker[w].pc = "loaded"
    /\ IF HostFree(j)
       THEN Advance(w, "checked")
       ELSE EndTask(w)
    /\ status' = [status EXCEPT ![j] = IF Exists(j) THEN "running" ELSE @]
    /\ UNCHANGED <<step, instance, cmdb, force, queue, hostLock, request, historyVars>>

\* mark_job_running: the host-lock check, which nobody catches if it raises...
CheckHost(w) ==
    /\ worker[w].pc = "loaded"
    /\ IF HostFree(worker[w].job)
       THEN Advance(w, "checked")
       ELSE EndTask(w)
    /\ UNCHANGED <<dbVars, queue, hostLock, request, historyVars>>

\* ... and then the save.  Saving a deleted row raises DatabaseError, here and below.
MarkRunning(w) ==
    LET j == worker[w].job IN
    /\ worker[w].pc = "checked"
    /\ IF Exists(j)
       THEN /\ status' = [status EXCEPT ![j] = "running"]
            /\ Advance(w, "stepping")
       ELSE EndTask(w) /\ UNCHANGED status
    /\ UNCHANGED <<step, instance, cmdb, force, queue, hostLock, request, historyVars>>

StatusDuringCodeBug(k, now) ==
    IF k = Verify THEN "verify" ELSE IF k = Precheck THEN "precheck" ELSE now

\* Only precheck and verify have a job status of their own.
StatusDuring(k, now) ==
    IF k = Verify THEN "verifying" ELSE IF k = Precheck THEN "prechecking" ELSE now

BeginStep(w) ==
    LET j == worker[w].job IN
    /\ worker[w].pc = "stepping"
    /\ \E k \in Steps :
        /\ IsNext(k, worker[w].todo)
        /\ StepRowsFree(j, {k})
        /\ IF Exists(j)
           THEN /\ status' = [status EXCEPT ![j] = StatusDuring(k, @)]
                /\ step' = [step EXCEPT ![j][k] = "running"]
                /\ Advance(w, "executing")
           ELSE EndTask(w) /\ UNCHANGED <<status, step>>
    /\ UNCHANGED <<instance, cmdb, force, queue, hostLock, request, historyVars>>

\* register_instance_from_job, first commit: the unique constraint on the endpoint is
\* all that stands between two registrations.
InsertInstance(w) ==
    LET j == worker[w].job IN
    /\ worker[w].pc = "executing"
    /\ IsNext(RegisterCmdb, worker[w].todo)
    /\ ~worker[w].inst
    /\ \A i \in cmdb : EndpointOf[i] # EndpointOf[j]
    /\ cmdb' = cmdb \cup {j}
    /\ Advance(w, "linking")
    /\ UNCHANGED <<status, step, instance, force, queue, hostLock, request, historyVars>>

\* register_instance_from_job, last commit: job.instance, after node and accounts.
LinkInstance(w) ==
    LET j == worker[w].job IN
    /\ worker[w].pc = "linking"
    /\ Exists(j)
    /\ instance' = [instance EXCEPT ![j] = TRUE]
    /\ worker' = [worker EXCEPT ![w].pc = "executing", ![w].inst = TRUE]
    /\ UNCHANGED <<status, step, cmdb, force, queue, hostLock, request, historyVars>>

\* The success of a step is not saved.
PassStepUnsavedBug(w) ==
    LET j == worker[w].job IN
    /\ worker[w].pc = "executing"
    /\ \E k \in Steps :
        /\ IsNext(k, worker[w].todo)
        /\ k = RegisterCmdb => worker[w].inst
        /\ passed' = [passed EXCEPT ![j] = @ \cup {k}]
        /\ worker' = [worker EXCEPT ![w].pc = "stepping", ![w].todo = @ \ {k}]
    /\ UNCHANGED <<dbVars, queue, hostLock, request, stale, reflagged, crashed>>

PassStep(w) ==
    LET j == worker[w].job IN
    /\ worker[w].pc = "executing"
    /\ \E k \in Steps :
        /\ IsNext(k, worker[w].todo)
        /\ k = RegisterCmdb => worker[w].inst
        /\ StepRowsFree(j, {k})
        /\ IF Exists(j)
           THEN /\ step' = [step EXCEPT ![j][k] = "succeeded"]
                /\ passed' = [passed EXCEPT ![j] = @ \cup {k}]
                /\ worker' = [worker EXCEPT ![w].pc = "stepping", ![w].todo = @ \ {k}]
           ELSE EndTask(w) /\ UNCHANGED <<step, passed>>
    /\ UNCHANGED <<status, instance, cmdb, force, queue, hostLock, request, stale, reflagged,
                   crashed>>

\* A playbook that fails or times out, an IntegrityError, or any other exception.
FailStep(w) ==
    LET j == worker[w].job IN
    /\ worker[w].pc \in {"executing", "linking"}
    /\ \E k \in Steps :
        /\ IsNext(k, worker[w].todo)
        /\ k = RegisterCmdb => ~worker[w].inst
        /\ StepRowsFree(j, {k})
        /\ IF Exists(j)
           THEN /\ step' = [step EXCEPT ![j][k] = "failed"]
                /\ Advance(w, "failing")
           ELSE EndTask(w) /\ UNCHANGED step
    /\ UNCHANGED <<status, instance, cmdb, force, queue, hostLock, request, historyVars>>

\* A failure is returned to Celery and not recorded.
RecordResultSuccessOnlyBug(w) ==
    LET j == worker[w].job IN
    /\ \/ worker[w].pc = "stepping" /\ worker[w].todo = {}
       \/ worker[w].pc = "failing"
    /\ status' = [status EXCEPT ![j] =
                     IF Exists(j) /\ worker[w].pc = "stepping" THEN "succeeded" ELSE @]
    /\ EndTask(w)
    /\ UNCHANGED <<step, instance, cmdb, force, queue, hostLock, request, historyVars>>

\* mark_job_finished, first save.
RecordResult(w) ==
    LET j == worker[w].job IN
    /\ \/ worker[w].pc = "stepping" /\ worker[w].todo = {}
       \/ worker[w].pc = "failing"
    /\ IF Exists(j)
       THEN /\ status' = [status EXCEPT ![j] =
                             IF worker[w].pc = "failing" THEN "failed" ELSE "succeeded"]
            /\ Advance(w, "clearing")
       ELSE EndTask(w) /\ UNCHANGED status
    /\ UNCHANGED <<step, instance, cmdb, force, queue, hostLock, request, historyVars>>

ClearFlagNotSavedBug(w) ==
    /\ worker[w].pc = "clearing"
    /\ EndTask(w)
    /\ UNCHANGED <<dbVars, queue, hostLock, request, historyVars>>

\* mark_job_finished, second save: _clear_force_rebuild_flag writes params back from the
\* copy the worker loaded, and only if that copy holds the flag.
ClearFlag(w) ==
    LET j == worker[w].job IN
    /\ worker[w].pc = "clearing"
    /\ force' = [force EXCEPT ![j] = @ /\ ~worker[w].force]
    /\ EndTask(w)
    /\ UNCHANGED <<status, step, instance, cmdb, queue, hostLock, request, historyVars>>

\* The worker process is killed; its message is gone and nothing else remembers the run.
Crash(w) ==
    /\ Crashes
    /\ worker[w].pc # "idle"
    /\ crashed' = crashed \cup
          (IF worker[w].pc \in Running \cup {"clearing"} THEN {worker[w].job} ELSE {})
    /\ EndTask(w)
    /\ UNCHANGED <<dbVars, queue, hostLock, request, passed, stale, reflagged>>

--------------------------------------------------------------------------------
StartRequest(r, j) ==
    /\ sent < MaxRequests
    /\ sent' = sent + 1
    /\ \/ CheckCreate(r, j)
       \/ ReadRetry(r, j)
       \/ ReadRebuild(r, j)
       \/ ReadCancel(r, j)
       \/ ReadRelease(r, j)
       \/ ReadDelete(r, j)

RequestStep(r) ==
    /\ UNCHANGED sent
    /\ \/ CommitCreate(r)
       \/ CheckRequeue(r)
       \/ CommitRequeue(r)
       \/ CommitCancel(r)
       \/ CommitDelete(r)
       \/ Publish(r)

WorkerStep(w) ==
    /\ UNCHANGED sent
    /\ \/ \E j \in Jobs : TakeMessage(w, j)
       \/ LoadJob(w)
       \/ CheckHost(w)
       \/ MarkRunning(w)
       \/ BeginStep(w)
       \/ InsertInstance(w)
       \/ LinkInstance(w)
       \/ PassStep(w)
       \/ FailStep(w)
       \/ RecordResult(w)
       \/ ClearFlag(w)

Next ==
    \/ \E r \in Requests, j \in Jobs : StartRequest(r, j)
    \/ \E r \in Requests : RequestStep(r)
    \/ \E w \in Workers : WorkerStep(w)
    \/ \E w \in Workers : Crash(w) /\ UNCHANGED sent

Spec == Init /\ [][Next]_vars

\* What a run needs to end: processes that keep going.  Users need not send requests.
Fairness ==
    /\ \A r \in Requests : WF_vars(RequestStep(r))
    /\ \A w \in Workers : WF_vars(WorkerStep(w))
FairSpec == Spec /\ Fairness

--------------------------------------------------------------------------------
(* Properties *)

TypeOK ==
    /\ status \in [Jobs -> JobStatus]
    /\ step \in [Jobs -> [Steps -> StepStatus]]
    /\ instance \in [Jobs -> BOOLEAN]
    /\ cmdb \subseteq Jobs
    /\ force \in [Jobs -> BOOLEAN]
    /\ queue \in [Jobs -> Nat]
    /\ hostLock \in [Hosts -> Requests \cup {NoOne}]
    /\ worker \in [Workers -> WorkerState]
    /\ request \in [Requests -> RequestState]
    /\ passed \in [Jobs -> SUBSET Steps]
    /\ stale \subseteq Jobs
    /\ reflagged \subseteq Jobs
    /\ crashed \subseteq Jobs

Occupies(j) == status[j] \in HostActive \/ \E w \in Workers : Runs(w, j)

\* As long as no request wrote on an outdated read, two jobs never occupy a host together,
\* neither by status nor by a worker at work: the row lock of create, the checks of retry
\* and rebuild and the refusals of cancel and delete are enough.
HostExclusive ==
    \A i, j \in Jobs \ stale :
        i # j /\ SameHost(i, j) => ~(Occupies(i) /\ Occupies(j))

Claims(j) == status[j] \in EndpointActive \/ j \in cmdb

\* Under the same proviso an endpoint has one claimant, counting failed jobs, which keep
\* it until they are released, and rows in the ledger, finished or not.
EndpointExclusive ==
    \A i, j \in Jobs \ stale :
        i # j /\ EndpointOf[i] = EndpointOf[j] => ~(Claims(i) /\ Claims(j))

\* Under the same proviso no job is executed by two workers at a time.
OneRunPerJob ==
    \A v, w \in Workers :
        v # w /\ worker[v].job = worker[w].job => worker[v].job \in stale \cup {NoJob}

\* Whatever requests race with it, a job that shows as in progress is being executed,
\* unless its worker died: no error path leaves the status behind.
InProgressHasWorker ==
    \A j \in Jobs \ crashed : status[j] \in InProgress => \E w \in Workers : Runs(w, j)

Settled(j) == j \notin stale \cup crashed /\ ~InFlight(j)

\* What retry relies on to resume: a settled failed job has completed the steps before its
\* failed one and none after it.
FailedIsResumable ==
    \A j \in Jobs : Settled(j) /\ status[j] = "failed" =>
        \E k \in Steps : /\ step[j][k] = "failed"
                         /\ \A i \in Steps : i < k => step[j][i] = "succeeded"
                         /\ \A i \in Steps : i > k => step[j][i] = "pending"

\* The flag that makes a run wipe the instance directory is gone when the run has failed
\* (deploy_services.py:347), and a run that sets out with it does every step: it wipes
\* nothing that an earlier run built and that it will not build again.  The one way round
\* it, a retry that puts the cleared flag back, is the run deploy_doc_resume.
NoLeftoverRebuild ==
    /\ \A j \in Jobs : Settled(j) /\ status[j] = "failed" => ~force[j]
    /\ \A w \in Workers :
           worker[w].pc \in {"loaded", "checked"} /\ worker[w].force =>
               worker[w].todo = Steps \/ worker[w].job \in stale \cup reflagged \cup crashed

\* The ledger's promise (DeployPromise), kept whatever overlaps: no row without proof.
Promise == INSTANCE DeployPromise WITH
    proven <- passed,
    rows <- cmdb,
    linked <- {j \in Jobs : instance[j]},
    told <- {j \in Jobs : status[j] = "succeeded"}
KeepsPromise == Promise!Spec

\* With workers that do not die, a job does not stay in progress for ever.
ExecutionEnds ==
    \A j \in Jobs : status[j] \in InProgress ~> status[j] \notin InProgress

ActiveElsewhere(j) == \E i \in Jobs \ {j} : SameHost(i, j) /\ status[i] \in HostActive

\* A pending job with a message starts, is cancelled or is deleted, unless another job of
\* its host is active: no message is lost to anything else, a job is not turned away by
\* its own status, by a job that has ended, or by a duplicate of its message.
QueuedJobStarts ==
    \A j \in Jobs :
        status[j] = "pending" /\ queue[j] > 0 ~> status[j] # "pending" \/ ActiveElsewhere(j)

--------------------------------------------------------------------------------
(* What the documentation says and the code does not do *)

\* docs/db-deploy-mysql-endpoint-release.md:22: at most one job of a target host is
\* pending, prechecking, running or verifying.
OneJobPerHost ==
    \A i, j \in Jobs :
        i # j /\ SameHost(i, j) => ~(status[i] \in HostActive /\ status[j] \in HostActive)

\* docs/db-deploy-mysql-install-decision-guide.md:88: running a cancelled job again does
\* not clean the instance directory.
RetryAfterCancelKeepsData ==
    \A r \in Requests :
        /\ request[r].op = "retry"
        /\ request[r].pc = "checked"
        /\ request[r].seen = "cancelled"
        => ~request[r].force

\* docs/db-deploy-design.md:59: a failed job has written nothing to the ledger.
FailedLeavesNoInstance ==
    \A j \in Jobs : status[j] = "failed" /\ ~InFlight(j) => j \notin cmdb

\* docs/db-deploy-mysql-install-decision-guide.md:86: continuing a failed job does not
\* clean the instance directory.  (Jobs changed on an outdated status are left out: the
\* run is about the flag alone.)
ResumeWipesNothing ==
    \A r \in Requests :
        LET j == request[r].job IN
        /\ request[r].op = "retry"
        /\ request[r].seen = "failed"
        /\ request[r].pc = "publish"
        /\ j \notin stale
        => ~force[j] \/ InFlight(j)
================================================================================
