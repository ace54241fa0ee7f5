---------------------------- MODULE DeployJob_proofs ----------------------------
(***************************************************************************)
(* Theorems about DeployJob, for any set of jobs, workers, requests and    *)
(* hosts, any number of steps and whether or not workers crash.            *)
(***************************************************************************)
EXTENDS DeployJob, TLAPS

--------------------------------------------------------------------------------
(* Inductive invariants *)

\* A process that is busy is busy with a job.
Busy ==
    /\ \A w \in Workers : worker[w].pc # "idle" <=> worker[w].job # NoJob
    /\ \A r \in Requests : request[r].pc # "idle" <=> request[r].job # NoJob

\* Each phase of a request has its operations; what a request has read of a status is one
\* its operation accepts, and a create has read nothing.
Accepted == {"pending", "failed", "cancelled"}
Phases == \A r \in Requests :
    /\ request[r].pc = "read" => request[r].op # "create" /\ request[r].seen \in Accepted
    /\ request[r].pc = "checked" =>
           \/ request[r].op = "create" /\ request[r].seen = "absent"
           \/ request[r].op \in {"retry", "rebuild"} /\ request[r].seen \in Accepted

\* A create that has passed its checks owns the row lock of the host, and its job does not
\* exist yet for anybody else.
CreateLocks == \A r \in Requests :
    request[r].pc = "checked" /\ request[r].op = "create" =>
        /\ status[request[r].job] = "absent"
        /\ hostLock[HostOf[request[r].job]] = r
AbsentUntouched == \A j \in Jobs : status[j] = "absent" =>
    /\ queue[j] = 0
    /\ ~InFlight(j)
    /\ \A r \in Requests : request[r].job = j =>
           request[r].op = "create" /\ request[r].pc = "checked"
CreateInv == CreateLocks /\ AbsentUntouched

Publishes(r, j) == request[r].job = j /\ request[r].pc = "publish"
Due(j) == queue[j] > 0 \/ \E r \in Requests : Publishes(r, j)

\* A job nobody has changed on an outdated read has at most one run ahead of it or in
\* progress: a message, a request about to send one, or a worker.
OneRun(j) ==
    /\ queue[j] <= 1
    /\ Due(j) => status[j] \in {"pending", "cancelled", "deleted"} /\ ~InFlight(j)
    /\ \A r \in Requests : Publishes(r, j) => queue[j] = 0
    /\ \A r, s \in Requests : Publishes(r, j) /\ Publishes(s, j) => r = s
    /\ \A v, w \in Workers : worker[v].job = j /\ worker[w].job = j => v = w
OneRunInv == \A j \in Jobs \ stale : OneRun(j)

\* The status of such a job follows the worker that runs it.
StatusFollows(j) == \A w \in Workers : worker[w].job = j =>
    /\ worker[w].pc \in Starting => status[j] = "pending"
    /\ worker[w].pc \in Running => status[j] \in InProgress
StatusInv == \A j \in Jobs \ stale : StatusFollows(j)

\* Two such jobs of a host are not both active, and a request that has found the host free
\* still does, or its job has become one of the others.
ActiveAlone == \A i, j \in Jobs \ stale :
    i # j /\ SameHost(i, j) => ~(status[i] \in HostActive /\ status[j] \in HostActive)
CheckedAlone == \A r \in Requests : request[r].pc = "checked" =>
    \A i \in Jobs \ stale :
        /\ request[r].job \notin stale
        /\ i # request[r].job
        /\ SameHost(i, request[r].job)
        => status[i] \notin HostActive
HostInv == ActiveAlone /\ CheckedAlone

\* The same for endpoints; retrying a job that kept its endpoint needs no check.
ClaimAlone == \A i, j \in Jobs \ stale :
    i # j /\ EndpointOf[i] = EndpointOf[j] => ~(Claims(i) /\ Claims(j))
CheckedClaim == \A r \in Requests :
    request[r].pc = "checked" /\ request[r].seen \notin {"pending", "failed"} =>
        \A i \in Jobs \ stale :
            /\ request[r].job \notin stale
            /\ i # request[r].job
            /\ EndpointOf[i] = EndpointOf[request[r].job]
            => ~Claims(i)
EndpointInv == ClaimAlone /\ CheckedClaim

\* A step marked succeeded has run, and so has a step a worker will skip or has done.
StepEvidence == \A j \in Jobs, k \in Steps : step[j][k] = "succeeded" => k \in passed[j]
RunEvidence == \A w \in Workers : worker[w].pc \notin {"idle", "guarded"} =>
    /\ Steps \ worker[w].todo \subseteq passed[worker[w].job]
    /\ worker[w].inst => instance[worker[w].job]
    /\ worker[w].pc = "linking" => worker[w].job \in cmdb
Evidence == StepEvidence /\ RunEvidence

\* What a run has left to do are the steps that are not marked succeeded, which come after
\* those that are; its copy of the flag is up to date.  A failure leaves a failed step, and
\* the flag only for the worker that is about to clear it.
Undone(j) == {k \in Steps : step[j][k] # "succeeded"}
HasFailed(j) == \E k \in Steps : step[j][k] = "failed"
Ordered(j) == \A i, k \in Steps : i < k /\ step[j][k] # "pending" => step[j][i] = "succeeded"
OnTrack(j) == \A w \in Workers : worker[w].job = j =>
    /\ worker[w].pc # "guarded" => worker[w].force = force[j]
    /\ worker[w].pc \notin {"guarded", "clearing"} => worker[w].todo = Undone(j)
    /\ worker[w].pc = "failing" => HasFailed(j)
AfterFailure(j) == status[j] = "failed" => HasFailed(j) /\ (force[j] => InFlight(j))
ResumeInv == \A j \in Jobs \ (stale \cup crashed) : Ordered(j) /\ OnTrack(j) /\ AfterFailure(j)

\* A job that waits with the flag set has everything still to do, unless a retry put the
\* flag back; a request that runs a job again from the start resets all its steps.
Afresh(j) == force[j] /\ status[j] \in {"absent", "pending"} => Undone(j) = Steps
ResetsAll == \A r \in Requests :
    request[r].pc = "checked" /\ (request[r].op = "rebuild" \/ request[r].seen = "cancelled")
        => request[r].from = 1
AfreshInv == ResetsAll /\ \A j \in Jobs \ (stale \cup reflagged \cup crashed) : Afresh(j)

\* A step that makes no job active or a claimant and lets no request pass its checks.
NothingNew ==
    /\ stale \subseteq stale'
    /\ \A r \in Requests : request'[r].pc = "checked" =>
           /\ request[r].pc = "checked"
           /\ request'[r].job = request[r].job
           /\ request'[r].seen = request[r].seen
    /\ \A i \in Jobs \ stale' :
           /\ status'[i] \in HostActive => status[i] \in HostActive
           /\ Claims(i)' => Claims(i)

--------------------------------------------------------------------------------
(* What one move of a process does to the others: nothing *)

\* A request that goes on changes nothing but its own place.
LEMMA RequestMoves ==
    ASSUME request \in [Requests -> RequestState], NEW r \in Requests, NEW pc, GoTo(r, pc)
    PROVE  /\ \A s \in Requests \ {r} : request'[s] = request[s]
           /\ request'[r].pc = pc
           /\ request'[r].op = request[r].op
           /\ request'[r].job = request[r].job
           /\ request'[r].seen = request[r].seen
  BY DEF GoTo, RequestState

\* A request that ends forgets its job.
LEMMA RequestEnds ==
    ASSUME request \in [Requests -> RequestState], NEW r \in Requests, EndRequest(r)
    PROVE  /\ \A s \in Requests \ {r} : request'[s] = request[s]
           /\ request'[r].pc = "idle"
           /\ request'[r].op = "none"
           /\ request'[r].job = NoJob
  BY DEF EndRequest, RequestIdle

\* A re-enqueue that passes its checks remembers what it read.
LEMMA RequestPasses ==
    ASSUME request \in [Requests -> RequestState], NEW r \in Requests, NEW k,
           PassChecks(r, k)
    PROVE  /\ \A s \in Requests \ {r} : request'[s] = request[s]
           /\ request'[r].pc = "checked"
           /\ request'[r].op = request[r].op
           /\ request'[r].job = request[r].job
           /\ request'[r].seen = request[r].seen
  BY DEF PassChecks, RequestState

\* A worker that goes on changes nothing but its own place.
LEMMA WorkerMoves ==
    ASSUME worker \in [Workers -> WorkerState], NEW w \in Workers, NEW pc,
           Advance(w, pc)
    PROVE  /\ \A v \in Workers \ {w} : worker'[v] = worker[v]
           /\ worker'[w].pc = pc
           /\ worker'[w].job = worker[w].job
           /\ worker'[w].todo = worker[w].todo
           /\ worker'[w].inst = worker[w].inst
           /\ worker'[w].force = worker[w].force
  BY DEF Advance, WorkerState

\* A worker that ends its task forgets its job.
LEMMA WorkerEnds ==
    ASSUME worker \in [Workers -> WorkerState], NEW w \in Workers, EndTask(w)
    PROVE  /\ \A v \in Workers \ {w} : worker'[v] = worker[v]
           /\ worker'[w].pc = "idle"
           /\ worker'[w].job = NoJob
  BY DEF EndTask, WorkerIdle

\* A worker that takes a message has the job of the message.
LEMMA WorkerTakes ==
    ASSUME worker \in [Workers -> WorkerState], NEW w \in Workers, NEW j,
           StartTask(w, j)
    PROVE  /\ \A v \in Workers \ {w} : worker'[v] = worker[v]
           /\ worker'[w].pc = "guarded"
           /\ worker'[w].job = j
<1>1. /\ [WorkerIdle EXCEPT !.pc = "guarded", !.job = j].pc = "guarded"
      /\ [WorkerIdle EXCEPT !.pc = "guarded", !.job = j].job = j
  BY DEF WorkerIdle
<1>2. QED
  BY <1>1 DEF StartTask

--------------------------------------------------------------------------------
(* Types *)

\* A busy process has a job that exists as a key.
LEMMA BusyJobs ==
    ASSUME TypeOK, Busy
    PROVE  /\ \A w \in Workers : worker[w].pc # "idle" => worker[w].job \in Jobs
           /\ \A r \in Requests : request[r].pc # "idle" => request[r].job \in Jobs
  BY DEF TypeOK, Busy, WorkerState, RequestState

\* The variables keep their types whatever requests and workers do, and a process that is
\* idle is the only one without a job.
THEOREM TypeCorrect == Spec => [](TypeOK /\ Busy)
<1>1. Init => TypeOK /\ Busy
  BY DeployAssumption DEF Init, TypeOK, Busy, JobStatus, StepStatus, WorkerState,
     WorkerIdle,
     RequestState, RequestIdle
<1>2. TypeOK /\ Busy /\ [Next]_vars => TypeOK' /\ Busy'
  <2> SUFFICES ASSUME TypeOK, Busy, [Next]_vars PROVE TypeOK' /\ Busy'
    OBVIOUS
  <2>a. WorkerIdle \in WorkerState /\ RequestIdle \in RequestState
    BY DeployAssumption DEF WorkerState, WorkerIdle, RequestState, RequestIdle, JobStatus
  <2>b. /\ {"pending", "prechecking", "running", "verifying", "succeeded", "failed",
            "cancelled", "deleted"} \subseteq JobStatus
        /\ {"pending", "running", "succeeded", "failed"} \subseteq StepStatus
    BY DEF JobStatus, EndpointActive, HostActive, InProgress, StepStatus
  <2>c. /\ \A w \in Workers : worker[w].pc # "idle" => worker[w].job \in Jobs
        /\ \A r \in Requests : request[r].pc # "idle" => request[r].job \in Jobs
    BY BusyJobs
  <2>d. NoJob \notin Jobs /\ NoOne \notin Requests
    BY DeployAssumption
  <2>r. request \in [Requests -> RequestState]
    BY DEF TypeOK
  <2>w. worker \in [Workers -> WorkerState]
    BY DEF TypeOK
  <2>v. /\ status \in [Jobs -> JobStatus]
        /\ step \in [Jobs -> [Steps -> StepStatus]]
        /\ instance \in [Jobs -> BOOLEAN]
        /\ cmdb \subseteq Jobs
        /\ force \in [Jobs -> BOOLEAN]
        /\ queue \in [Jobs -> Nat]
        /\ hostLock \in [Hosts -> Requests \cup {NoOne}]
        /\ passed \in [Jobs -> SUBSET Steps]
        /\ stale \subseteq Jobs
        /\ reflagged \subseteq Jobs
        /\ crashed \subseteq Jobs
    BY DEF TypeOK
  <2>1. ASSUME NEW r \in Requests, NEW j \in Jobs, CheckCreate(r, j) PROVE TypeOK' /\ Busy'
    <3>1. [RequestIdle EXCEPT !.pc = "checked", !.op = "create", !.job = j] \in RequestState
      BY <2>v, <2>a DEF RequestState, RequestIdle
    <3>2. request' \in [Requests -> RequestState]
      BY <2>1, <2>r, <3>1 DEF CheckCreate
    <3>3. Busy'
      BY <2>1, <2>r, <2>d DEF Busy, RequestState, CheckCreate, RequestIdle
    <3>4. QED
      BY <2>1, <2>v, <2>r, <2>w, <3>2, <3>3 DEF TypeOK, CheckCreate, dbVars, historyVars
  <2>2. ASSUME NEW r \in Requests, NEW j \in Jobs,
               NEW op \in {"retry", "rebuild", "cancel", "release", "delete"},
               ReadJob(r, j, op)
        PROVE  TypeOK' /\ Busy'
    <3>1. [RequestIdle EXCEPT !.pc = "read", !.op = op, !.job = j, !.seen = status[j],
              !.force = op \in {"retry", "rebuild"} /\ force[j]] \in RequestState
      BY <2>v, <2>a DEF RequestState, RequestIdle
    <3>2. request' \in [Requests -> RequestState]
      BY <2>2, <2>r, <3>1 DEF ReadJob
    <3>3. Busy'
      BY <2>2, <2>r, <2>d DEF Busy, RequestState, ReadJob, RequestIdle
    <3>4. QED
      BY <2>2, <2>v, <2>r, <2>w, <3>2, <3>3 DEF TypeOK, ReadJob, dbVars, historyVars
  <2>3. ASSUME NEW r \in Requests, CommitCreate(r) PROVE TypeOK' /\ Busy'
    <3>1. [request[r] EXCEPT !.pc = "publish"] \in RequestState
      BY <2>r DEF RequestState
    <3>2. request' \in [Requests -> RequestState]
      BY <2>3, <2>r, <3>1 DEF CommitCreate, GoTo
    <3>3. status' \in [Jobs -> JobStatus]
      BY <2>3, <2>v, <2>b DEF CommitCreate
    <3>4. stale' \subseteq Jobs
      BY <2>3, <2>v, <2>r DEF CommitCreate, Outdated, CheckedOnHost
    <3>5. Busy'
      BY <2>3, <2>r, <2>d DEF Busy, RequestState, CommitCreate, GoTo
    <3>6. QED
      BY <2>3, <2>v, <2>r, <2>w, <3>2, <3>3, <3>4, <3>5
         DEF TypeOK, CommitCreate, dbVars, historyVars
  <2>4. ASSUME NEW r \in Requests, CheckRequeue(r) PROVE TypeOK' /\ Busy'
    <3>1. \A k \in 0..(NSteps + 1) :
              [request[r] EXCEPT !.pc = "checked", !.from = k] \in RequestState
      BY <2>r DEF RequestState
    <3>2. 1..(NSteps + 1) \subseteq 0..(NSteps + 1)
      BY DeployAssumption
    <3>3. request' \in [Requests -> RequestState]
      BY <2>4, <2>r, <2>a, <3>1, <3>2 DEF CheckRequeue, EndRequest, PassChecks
    <3>4. Busy'
      BY <2>4, <2>r, <2>d DEF Busy, RequestState, CheckRequeue, EndRequest, PassChecks,
         RequestIdle
    <3>5. QED
      BY <2>4, <2>v, <2>r, <2>w, <3>3, <3>4 DEF TypeOK, CheckRequeue, dbVars, historyVars
  <2>5. ASSUME NEW r \in Requests, CommitRequeue(r) PROVE TypeOK' /\ Busy'
    <3>1. [request[r] EXCEPT !.pc = "publish"] \in RequestState
      BY <2>r DEF RequestState
    <3>2. [k \in Steps |-> IF k < request[r].from THEN step[request[r].job][k]
                        ELSE "pending"] \in [Steps -> StepStatus]
      BY <2>5, <2>v, <2>b, <2>c DEF CommitRequeue
    <3>3. request' \in [Requests -> RequestState]
      BY <2>5, <2>r, <2>a, <3>1, <3>2 DEF CommitRequeue, EndRequest, GoTo
    <3>4. status' \in [Jobs -> JobStatus]
      BY <2>5, <2>v, <2>b DEF CommitRequeue
    <3>5. step' \in [Jobs -> [Steps -> StepStatus]]
      BY <2>5, <2>v, <3>1, <3>2 DEF CommitRequeue
    <3>6. force' \in [Jobs -> BOOLEAN]
      BY <2>5, <2>v, <2>r DEF CommitRequeue, RequestState
    <3>7. stale' \subseteq Jobs /\ reflagged' \subseteq Jobs
      BY <2>5, <2>v, <2>r, <2>c DEF CommitRequeue, Outdated, CheckedOnHost
    <3>8. Busy'
      BY <2>5, <2>r, <2>d DEF Busy, RequestState, CommitRequeue, EndRequest, GoTo,
         RequestIdle
    <3>9. QED
      BY <2>5, <2>v, <2>r, <2>w, <3>3, <3>4, <3>5, <3>6, <3>7, <3>8
         DEF TypeOK, CommitRequeue, dbVars, historyVars
  <2>6. ASSUME NEW r \in Requests, CommitCancel(r) PROVE TypeOK' /\ Busy'
    <3>1. request' \in [Requests -> RequestState]
      BY <2>6, <2>r, <2>a DEF CommitCancel, EndRequest
    <3>2. status' \in [Jobs -> JobStatus]
      BY <2>6, <2>v, <2>b DEF CommitCancel
    <3>3. stale' \subseteq Jobs
      BY <2>6, <2>v, <2>r, <2>c DEF CommitCancel
    <3>4. Busy'
      BY <2>6, <2>r, <2>d DEF Busy, RequestState, CommitCancel, EndRequest, RequestIdle
    <3>5. QED
      BY <2>6, <2>v, <2>r, <2>w, <3>1, <3>2, <3>3, <3>4
         DEF TypeOK, CommitCancel, dbVars, historyVars
  <2>7. ASSUME NEW r \in Requests, CommitDelete(r) PROVE TypeOK' /\ Busy'
    <3>1. request' \in [Requests -> RequestState]
      BY <2>7, <2>r, <2>a DEF CommitDelete, EndRequest
    <3>2. status' \in [Jobs -> JobStatus]
      BY <2>7, <2>v, <2>b DEF CommitDelete
    <3>3. step' \in [Jobs -> [Steps -> StepStatus]]
      BY <2>7, <2>v, <2>b DEF CommitDelete
    <3>4. stale' \subseteq Jobs
      BY <2>7, <2>v, <2>r, <2>c DEF CommitDelete
    <3>5. Busy'
      BY <2>7, <2>r, <2>d DEF Busy, RequestState, CommitDelete, EndRequest, RequestIdle
    <3>6. QED
      BY <2>7, <2>v, <2>r, <2>w, <3>1, <3>2, <3>3, <3>4, <3>5
         DEF TypeOK, CommitDelete, dbVars, historyVars
  <2>8. ASSUME NEW r \in Requests, Publish(r) PROVE TypeOK' /\ Busy'
    <3>1. request' \in [Requests -> RequestState]
      BY <2>8, <2>r, <2>a DEF Publish, EndRequest
    <3>2. queue' \in [Jobs -> Nat]
      BY <2>8, <2>v DEF Publish
    <3>3. Busy'
      BY <2>8, <2>r, <2>d DEF Busy, RequestState, Publish, EndRequest, RequestIdle
    <3>4. QED
      BY <2>8, <2>v, <2>r, <2>w, <3>1, <3>2, <3>3 DEF TypeOK, Publish, dbVars, historyVars
  <2>9. ASSUME NEW w \in Workers, NEW j \in Jobs, TakeMessage(w, j) PROVE TypeOK' /\ Busy'
    <3>1. [WorkerIdle EXCEPT !.pc = "guarded", !.job = j] \in WorkerState
      BY DEF WorkerState, WorkerIdle, Starting
    <3>2. worker' \in [Workers -> WorkerState]
      BY <2>9, <2>w, <3>1 DEF TakeMessage, StartTask
    <3>3. queue' \in [Jobs -> Nat]
      BY <2>9, <2>v DEF TakeMessage, StartTask
    <3>4. Busy'
      BY <2>9, <2>w, <2>d DEF Busy, WorkerState, TakeMessage, StartTask, WorkerIdle
    <3>5. QED
      BY <2>9, <2>v, <2>r, <2>w, <3>2, <3>3, <3>4
         DEF TypeOK, TakeMessage, dbVars, historyVars
  <2>10. ASSUME NEW w \in Workers, LoadJob(w) PROVE TypeOK' /\ Busy'
    <3>1. [pc |-> "loaded", job |-> worker[w].job, inst |-> instance[worker[w].job],
           force |-> force[worker[w].job],
           todo |-> {k \in Steps : step[worker[w].job][k] # "succeeded"}] \in WorkerState
      BY <2>10, <2>v, <2>c DEF LoadJob, WorkerState, Starting
    <3>2. worker' \in [Workers -> WorkerState]
      BY <2>10, <2>w, <2>a, <3>1 DEF LoadJob, EndTask, Advance
    <3>3. Busy'
      BY <2>10, <2>w, <2>d DEF Busy, WorkerState, LoadJob, Advance, EndTask, WorkerIdle
    <3>4. QED
      BY <2>10, <2>v, <2>r, <2>w, <3>2, <3>3 DEF TypeOK, LoadJob, dbVars, historyVars
  <2>11. ASSUME NEW w \in Workers, CheckHost(w) PROVE TypeOK' /\ Busy'
    <3>1. [worker[w] EXCEPT !.pc = "checked"] \in WorkerState
      BY <2>w DEF WorkerState, Starting, Running
    <3>2. worker' \in [Workers -> WorkerState]
      BY <2>11, <2>w, <2>a, <3>1 DEF CheckHost, EndTask, Advance
    <3>3. Busy'
      BY <2>11, <2>w, <2>d DEF Busy, WorkerState, CheckHost, Advance, EndTask, WorkerIdle
    <3>4. QED
      BY <2>11, <2>v, <2>r, <2>w, <3>2, <3>3 DEF TypeOK, CheckHost, dbVars, historyVars
  <2>12. ASSUME NEW w \in Workers, MarkRunning(w) PROVE TypeOK' /\ Busy'
    <3>1. [worker[w] EXCEPT !.pc = "stepping"] \in WorkerState
      BY <2>w DEF WorkerState, Starting, Running
    <3>2. worker' \in [Workers -> WorkerState]
      BY <2>12, <2>w, <2>a, <3>1 DEF MarkRunning, EndTask, Advance
    <3>3. status' \in [Jobs -> JobStatus]
      BY <2>12, <2>v, <2>b DEF MarkRunning
    <3>4. Busy'
      BY <2>12, <2>w, <2>d DEF Busy, WorkerState, MarkRunning, Advance, EndTask, WorkerIdle
    <3>5. QED
      BY <2>12, <2>v, <2>r, <2>w, <3>2, <3>3, <3>4
         DEF TypeOK, MarkRunning, dbVars, historyVars
  <2>13. ASSUME NEW w \in Workers, BeginStep(w) PROVE TypeOK' /\ Busy'
    <3>1. \A k \in Steps :
              [step[worker[w].job] EXCEPT ![k] = "running"] \in [Steps -> StepStatus]
      BY <2>13, <2>v, <2>b, <2>c DEF BeginStep
    <3>2. [worker[w] EXCEPT !.pc = "executing"] \in WorkerState
      BY <2>w DEF WorkerState, Starting, Running
    <3>3. \A k : StatusDuring(k, status[worker[w].job]) \in JobStatus
      BY <2>13, <2>v, <2>b, <2>c DEF BeginStep, StatusDuring
    <3>4. worker' \in [Workers -> WorkerState]
      BY <2>13, <2>w, <2>a, <3>1, <3>2, <3>3 DEF BeginStep, EndTask, Advance
    <3>5. status' \in [Jobs -> JobStatus]
      BY <2>13, <2>v, <3>1, <3>2, <3>3 DEF BeginStep
    <3>6. step' \in [Jobs -> [Steps -> StepStatus]]
      BY <2>13, <2>v, <3>1, <3>2, <3>3 DEF BeginStep
    <3>7. Busy'
      BY <2>13, <2>w, <2>d DEF Busy, WorkerState, BeginStep, Advance, EndTask, WorkerIdle
    <3>8. QED
      BY <2>13, <2>v, <2>r, <2>w, <3>4, <3>5, <3>6, <3>7
         DEF TypeOK, BeginStep, dbVars, historyVars
  <2>14. ASSUME NEW w \in Workers, InsertInstance(w) PROVE TypeOK' /\ Busy'
    <3>1. [worker[w] EXCEPT !.pc = "linking"] \in WorkerState
      BY <2>w DEF WorkerState, Starting, Running
    <3>2. worker' \in [Workers -> WorkerState]
      BY <2>14, <2>w, <3>1 DEF InsertInstance, Advance
    <3>3. cmdb' \subseteq Jobs
      BY <2>14, <2>v, <2>w, <2>c DEF InsertInstance
    <3>4. Busy'
      BY <2>14, <2>w, <2>d DEF Busy, WorkerState, InsertInstance, Advance
    <3>5. QED
      BY <2>14, <2>v, <2>r, <2>w, <3>2, <3>3, <3>4
         DEF TypeOK, InsertInstance, dbVars, historyVars
  <2>15. ASSUME NEW w \in Workers, LinkInstance(w) PROVE TypeOK' /\ Busy'
    <3>1. [worker[w] EXCEPT !.pc = "executing", !.inst = TRUE] \in WorkerState
      BY <2>w DEF WorkerState, Running
    <3>2. worker' \in [Workers -> WorkerState]
      BY <2>15, <2>w, <3>1 DEF LinkInstance
    <3>3. instance' \in [Jobs -> BOOLEAN]
      BY <2>15, <2>v DEF LinkInstance
    <3>4. Busy'
      BY <2>15, <2>w, <2>d DEF Busy, WorkerState, LinkInstance
    <3>5. QED
      BY <2>15, <2>v, <2>r, <2>w, <3>2, <3>3, <3>4
         DEF TypeOK, LinkInstance, dbVars, historyVars
  <2>16. ASSUME NEW w \in Workers, PassStep(w) PROVE TypeOK' /\ Busy'
    <3>1. \A k \in Steps :
              [step[worker[w].job] EXCEPT ![k] = "succeeded"] \in [Steps -> StepStatus]
      BY <2>16, <2>v, <2>b, <2>c DEF PassStep
    <3>2. \A k \in Steps : [worker EXCEPT ![w].pc = "stepping", ![w].todo = @ \ {k}]
              \in [Workers -> WorkerState]
      BY <2>w, ZenonT(30) DEF WorkerState, Running
    <3>3. worker' \in [Workers -> WorkerState]
      BY <2>16, <2>w, <2>a, <3>1, <3>2 DEF PassStep, EndTask, Advance
    <3>4. step' \in [Jobs -> [Steps -> StepStatus]]
      BY <2>16, <2>v, <3>1, <3>2 DEF PassStep
    <3>5. passed' \in [Jobs -> SUBSET Steps]
      BY <2>16, <2>v DEF PassStep
    <3>6. Busy'
      BY <2>16, <2>w, <2>d DEF Busy, WorkerState, PassStep, Advance, EndTask, WorkerIdle
    <3>7. QED
      BY <2>16, <2>v, <2>r, <2>w, <3>3, <3>4, <3>5, <3>6
         DEF TypeOK, PassStep, dbVars, historyVars
  <2>17. ASSUME NEW w \in Workers, FailStep(w) PROVE TypeOK' /\ Busy'
    <3>1. \A k \in Steps :
              [step[worker[w].job] EXCEPT ![k] = "failed"] \in [Steps -> StepStatus]
      BY <2>17, <2>v, <2>b, <2>c DEF FailStep
    <3>2. [worker[w] EXCEPT !.pc = "failing"] \in WorkerState
      BY <2>w DEF WorkerState, Starting, Running
    <3>3. worker' \in [Workers -> WorkerState]
      BY <2>17, <2>w, <2>a, <3>1, <3>2 DEF FailStep, EndTask, Advance
    <3>4. step' \in [Jobs -> [Steps -> StepStatus]]
      BY <2>17, <2>v, <3>1, <3>2 DEF FailStep
    <3>5. Busy'
      BY <2>17, <2>w, <2>d DEF Busy, WorkerState, FailStep, Advance, EndTask, WorkerIdle
    <3>6. QED
      BY <2>17, <2>v, <2>r, <2>w, <3>3, <3>4, <3>5 DEF TypeOK, FailStep, dbVars, historyVars
  <2>18. ASSUME NEW w \in Workers, RecordResult(w) PROVE TypeOK' /\ Busy'
    <3>1. [worker[w] EXCEPT !.pc = "clearing"] \in WorkerState
      BY <2>w DEF WorkerState, Starting, Running
    <3>2. worker' \in [Workers -> WorkerState]
      BY <2>18, <2>w, <2>a, <3>1 DEF RecordResult, EndTask, Advance
    <3>3. status' \in [Jobs -> JobStatus]
      BY <2>18, <2>v, <2>b DEF RecordResult
    <3>4. Busy'
      BY <2>18, <2>w, <2>d DEF Busy, WorkerState, RecordResult, Advance, EndTask, WorkerIdle
    <3>5. QED
      BY <2>18, <2>v, <2>r, <2>w, <3>2, <3>3, <3>4
         DEF TypeOK, RecordResult, dbVars, historyVars
  <2>19. ASSUME NEW w \in Workers, ClearFlag(w) PROVE TypeOK' /\ Busy'
    <3>1. worker' \in [Workers -> WorkerState]
      BY <2>19, <2>w, <2>a DEF ClearFlag, EndTask, Advance
    <3>2. force' \in [Jobs -> BOOLEAN]
      BY <2>19, <2>v, <2>w DEF ClearFlag, WorkerState
    <3>3. Busy'
      BY <2>19, <2>w, <2>d DEF Busy, WorkerState, ClearFlag, Advance, EndTask, WorkerIdle
    <3>4. QED
      BY <2>19, <2>v, <2>r, <2>w, <3>1, <3>2, <3>3
         DEF TypeOK, ClearFlag, dbVars, historyVars
  <2>20. ASSUME NEW w \in Workers, Crash(w) PROVE TypeOK' /\ Busy'
    <3>1. worker' \in [Workers -> WorkerState]
      BY <2>20, <2>w, <2>a DEF Crash, EndTask, Advance
    <3>2. crashed' \subseteq Jobs
      BY <2>20, <2>v, <2>w, <2>c DEF Crash, Running
    <3>3. Busy'
      BY <2>20, <2>w, <2>d DEF Busy, WorkerState, Crash, Advance, EndTask, WorkerIdle
    <3>4. QED
      BY <2>20, <2>v, <2>r, <2>w, <3>1, <3>2, <3>3 DEF TypeOK, Crash, dbVars, historyVars
  <2>21. CASE UNCHANGED vars
    BY <2>21 DEF vars, dbVars, historyVars, TypeOK, Busy
  <2>22. QED
    BY <2>1, <2>2, <2>3, <2>4, <2>5, <2>6, <2>7, <2>8, <2>9, <2>10, <2>11, <2>12, <2>13,
       <2>14, <2>15, <2>16, <2>17, <2>18, <2>19, <2>20, <2>21
       DEF Next, StartRequest, RequestStep, WorkerStep, ReadRetry, ReadRebuild, ReadCancel,
           ReadRelease, ReadDelete
<1>3. QED
  BY <1>1, <1>2, PTL DEF Spec

--------------------------------------------------------------------------------
(* Jobs in progress have a worker *)

\* The types the later proofs rest on, in one place.
LEMMA Types ==
    ASSUME TypeOK, Busy
    PROVE  /\ worker \in [Workers -> WorkerState]
           /\ request \in [Requests -> RequestState]
           /\ status \in [Jobs -> JobStatus]
           /\ queue \in [Jobs -> Nat]
           /\ hostLock \in [Hosts -> Requests \cup {NoOne}]
           /\ stale \subseteq Jobs
           /\ NoJob \notin Jobs
           /\ \A w \in Workers : worker[w].pc # "idle" => worker[w].job \in Jobs
           /\ \A r \in Requests : request[r].pc # "idle" => request[r].job \in Jobs
  BY BusyJobs, DeployAssumption DEF TypeOK

\* A job whose worker has not died shows as in progress only while a worker executes it,
\* whatever requests race with that worker: every error path gives the status back.
THEOREM InProgressCorrect == Spec => []InProgressHasWorker
<1>1. Init => InProgressHasWorker
  BY DEF Init, InProgressHasWorker, InProgress
<1>2. TypeOK /\ Busy /\ InProgressHasWorker /\ [Next]_vars => InProgressHasWorker'
  <2> SUFFICES ASSUME TypeOK, Busy, InProgressHasWorker, [Next]_vars
               PROVE  InProgressHasWorker'
    OBVIOUS
  <2>t. /\ worker \in [Workers -> WorkerState]
        /\ status \in [Jobs -> JobStatus]
        /\ \A w \in Workers : worker[w].pc # "idle" => worker[w].job \in Jobs
    BY Types
  <2> USE DEF InProgressHasWorker, Runs, InProgress, Running, dbVars, historyVars
  <2>1. ASSUME NEW r \in Requests, NEW j \in Jobs, CheckCreate(r, j)
        PROVE  InProgressHasWorker'
    BY <2>1 DEF CheckCreate
  <2>2. ASSUME NEW r \in Requests, NEW j \in Jobs, NEW op, ReadJob(r, j, op)
        PROVE  InProgressHasWorker'
    BY <2>2 DEF ReadJob
  <2>3. ASSUME NEW r \in Requests, CommitCreate(r) PROVE InProgressHasWorker'
    BY <2>3, <2>t DEF CommitCreate
  <2>4. ASSUME NEW r \in Requests, CheckRequeue(r) PROVE InProgressHasWorker'
    BY <2>4 DEF CheckRequeue
  <2>5. ASSUME NEW r \in Requests, CommitRequeue(r) PROVE InProgressHasWorker'
    BY <2>5, <2>t DEF CommitRequeue
  <2>6. ASSUME NEW r \in Requests, CommitCancel(r) PROVE InProgressHasWorker'
    BY <2>6, <2>t DEF CommitCancel
  <2>7. ASSUME NEW r \in Requests, CommitDelete(r) PROVE InProgressHasWorker'
    BY <2>7, <2>t DEF CommitDelete
  <2>8. ASSUME NEW r \in Requests, Publish(r) PROVE InProgressHasWorker'
    BY <2>8 DEF Publish
  <2> USE DEF WorkerState
  <2>9. ASSUME NEW w \in Workers, NEW j \in Jobs, TakeMessage(w, j)
        PROVE  InProgressHasWorker'
    BY <2>9, <2>t DEF TakeMessage, StartTask, WorkerIdle
  <2>10. ASSUME NEW w \in Workers, LoadJob(w) PROVE InProgressHasWorker'
    BY <2>10, <2>t DEF LoadJob, Advance, EndTask
  <2>11. ASSUME NEW w \in Workers, CheckHost(w) PROVE InProgressHasWorker'
    BY <2>11, <2>t DEF CheckHost, Advance, EndTask
  <2>12. ASSUME NEW w \in Workers, MarkRunning(w) PROVE InProgressHasWorker'
    BY <2>12, <2>t DEF MarkRunning, Advance, EndTask
  <2>13. ASSUME NEW w \in Workers, BeginStep(w) PROVE InProgressHasWorker'
    BY <2>13, <2>t DEF BeginStep, Advance, EndTask, StatusDuring, Exists
  <2>14. ASSUME NEW w \in Workers, InsertInstance(w) PROVE InProgressHasWorker'
    BY <2>14, <2>t DEF InsertInstance, Advance
  <2>15. ASSUME NEW w \in Workers, LinkInstance(w) PROVE InProgressHasWorker'
    BY <2>15, <2>t DEF LinkInstance
  <2>16. ASSUME NEW w \in Workers, PassStep(w) PROVE InProgressHasWorker'
    BY <2>16, <2>t DEF PassStep, Advance, EndTask, Exists
  <2>17. ASSUME NEW w \in Workers, FailStep(w) PROVE InProgressHasWorker'
    BY <2>17, <2>t DEF FailStep, Advance, EndTask, Exists
  <2>18. ASSUME NEW w \in Workers, RecordResult(w) PROVE InProgressHasWorker'
    BY <2>18, <2>t DEF RecordResult, Advance, EndTask, Exists
  <2>19. ASSUME NEW w \in Workers, ClearFlag(w) PROVE InProgressHasWorker'
    BY <2>19, <2>t DEF ClearFlag, Advance, EndTask
  <2>20. ASSUME NEW w \in Workers, Crash(w) PROVE InProgressHasWorker'
    BY <2>20, <2>t DEF Crash, Advance, EndTask
  <2>21. CASE UNCHANGED vars
    BY <2>21 DEF vars
  <2>22. QED
    BY <2>1, <2>2, <2>3, <2>4, <2>5, <2>6, <2>7, <2>8, <2>9, <2>10, <2>11, <2>12, <2>13,
       <2>14, <2>15, <2>16, <2>17, <2>18, <2>19, <2>20, <2>21
       DEF Next, StartRequest, RequestStep, WorkerStep, ReadRetry, ReadRebuild, ReadCancel,
           ReadRelease, ReadDelete
<1>3. QED
  BY <1>1, <1>2, TypeCorrect, PTL DEF Spec

--------------------------------------------------------------------------------
(* Requests and the rows they handle *)

\* A create holds the row lock of its host from its checks to its commit, and until then
\* nobody else handles the job: it has no message, no worker and no other request.
THEOREM CreateCorrect == Spec => [](Phases /\ CreateInv)
<1>1. Init => Phases /\ CreateInv
  BY DeployAssumption DEF Init, Phases, CreateInv, CreateLocks, AbsentUntouched, InFlight,
     RequestIdle,
     WorkerIdle
<1>2. TypeOK /\ Busy /\ Phases /\ CreateInv /\ [Next]_vars => Phases' /\ CreateInv'
  <2> SUFFICES ASSUME TypeOK, Busy, Phases, CreateInv, [Next]_vars
               PROVE  Phases' /\ CreateInv'
    OBVIOUS
  <2>t. /\ worker \in [Workers -> WorkerState]
        /\ request \in [Requests -> RequestState]
        /\ status \in [Jobs -> JobStatus]
        /\ queue \in [Jobs -> Nat]
        /\ hostLock \in [Hosts -> Requests \cup {NoOne}]
        /\ NoJob \notin Jobs /\ NoOne \notin Requests
        /\ HostOf \in [Jobs -> Hosts]
        /\ \A w \in Workers : worker[w].pc # "idle" => worker[w].job \in Jobs
        /\ \A r \in Requests : request[r].pc # "idle" => request[r].job \in Jobs
    BY Types, DeployAssumption
  <2> USE DEF Phases, Accepted, CreateInv, CreateLocks, AbsentUntouched, InFlight, dbVars,
     historyVars
  <2>1. ASSUME NEW r \in Requests, NEW j \in Jobs, CheckCreate(r, j)
        PROVE  Phases' /\ CreateInv'
    BY <2>1, <2>t DEF CheckCreate, RequestIdle, RequestState, Requeues
  <2>2. ASSUME NEW r \in Requests, NEW j \in Jobs,
               NEW op \in {"retry", "rebuild", "cancel", "release", "delete"},
               status[j] \in {"pending", "failed", "cancelled"}, ReadJob(r, j, op)
        PROVE  Phases' /\ CreateInv'
    BY <2>2, <2>t DEF ReadJob, RequestIdle, RequestState, Requeues
  <2>3. ASSUME NEW r \in Requests, CommitCreate(r) PROVE Phases' /\ CreateInv'
    BY <2>3, <2>t DEF CommitCreate, GoTo, RequestState, Requeues
  <2>4. ASSUME NEW r \in Requests, CheckRequeue(r) PROVE Phases' /\ CreateInv'
    <3>1. /\ request[r].job \in Jobs /\ request[r].pc = "read"
          /\ status[request[r].job] # "absent"
          /\ request[r].op \in {"retry", "rebuild"}
      BY <2>4, <2>t DEF CheckRequeue, Requeues
    <3>2. /\ \A s \in Requests \ {r} : request'[s] = request[s]
          /\ \/ request'[r].pc = "idle" /\ request'[r].job = NoJob
             \/ /\ request'[r].pc = "checked"
                /\ request'[r].op = request[r].op
                /\ request'[r].seen = request[r].seen
                /\ request'[r].job = request[r].job
      BY <2>4, <2>t, RequestEnds, RequestPasses DEF CheckRequeue
    <3>3. UNCHANGED <<status, queue, worker, hostLock>>
      BY <2>4 DEF CheckRequeue
    <3>4. Phases'
      BY <3>1, <3>2
    <3>5. CreateLocks'
      BY <3>1, <3>2, <3>3, <2>t
    <3>6. AbsentUntouched'
      BY <3>1, <3>2, <3>3, <2>t
    <3>7. QED
      BY <3>4, <3>5, <3>6
  <2>5. ASSUME NEW r \in Requests, CommitRequeue(r) PROVE Phases' /\ CreateInv'
    <3>1. /\ request[r].job \in Jobs /\ request[r].pc = "checked"
          /\ status[request[r].job] # "absent"
      BY <2>5, <2>t DEF CommitRequeue, Requeues
    <3>2. \/ EndRequest(r) /\ status' = status
          \/ GoTo(r, "publish") /\ status' = [status EXCEPT ![request[r].job] = "pending"]
      BY <2>5 DEF CommitRequeue
    <3>3. /\ \A s \in Requests \ {r} : request'[s] = request[s]
          /\ \/ request'[r].pc = "idle" /\ request'[r].job = NoJob
             \/ request'[r].pc = "publish" /\ request'[r].job = request[r].job
      BY <3>2, <2>t, RequestEnds, RequestMoves
    <3>4. /\ UNCHANGED <<queue, worker, hostLock>>
          /\ \A j \in Jobs : status'[j] = "absent" <=> status[j] = "absent"
      BY <2>5, <3>1, <3>2, <2>t DEF CommitRequeue
    <3>5. Phases'
      BY <3>3
    <3>6. CreateLocks'
      BY <3>3, <3>4, <2>t
    <3>7. AbsentUntouched'
      BY <3>1, <3>3, <3>4, <2>t
    <3>8. QED
      BY <3>5, <3>6, <3>7
  <2>6. ASSUME NEW r \in Requests, CommitCancel(r) PROVE Phases' /\ CreateInv'
    BY <2>6, <2>t DEF CommitCancel, EndRequest, RequestIdle, RequestState, Requeues
  <2>7. ASSUME NEW r \in Requests, CommitDelete(r) PROVE Phases' /\ CreateInv'
    BY <2>7, <2>t DEF CommitDelete, EndRequest, RequestIdle, RequestState, Requeues
  <2>8. ASSUME NEW r \in Requests, Publish(r) PROVE Phases' /\ CreateInv'
    BY <2>8, <2>t DEF Publish, EndRequest, RequestIdle, RequestState, Requeues
  <2>9. ASSUME NEW w \in Workers, NEW j \in Jobs, TakeMessage(w, j)
        PROVE  Phases' /\ CreateInv'
    <3>1. status[j] # "absent" /\ queue[j] > 0
      BY <2>9 DEF TakeMessage
    <3>2. \A v \in Workers : worker'[v].job = worker[v].job \/ worker'[v].job = j
      BY <2>9, <2>t, WorkerTakes DEF TakeMessage
    <3>3. AbsentUntouched'
      BY <2>9, <3>1, <3>2, <2>t DEF TakeMessage
    <3>4. QED
      BY <2>9, <3>3 DEF TakeMessage
  <2>10. ASSUME NEW w \in Workers, LoadJob(w) PROVE Phases' /\ CreateInv'
    BY <2>10, <2>t DEF LoadJob, Advance, EndTask, WorkerIdle, WorkerState, Exists,
       StatusDuring
  <2>11. ASSUME NEW w \in Workers, CheckHost(w) PROVE Phases' /\ CreateInv'
    BY <2>11, <2>t DEF CheckHost, Advance, EndTask, WorkerIdle, WorkerState, Exists,
       StatusDuring
  <2>12. ASSUME NEW w \in Workers, MarkRunning(w) PROVE Phases' /\ CreateInv'
    BY <2>12, <2>t DEF MarkRunning, Advance, EndTask, WorkerIdle, WorkerState, Exists,
       StatusDuring
  <2>13. ASSUME NEW w \in Workers, BeginStep(w) PROVE Phases' /\ CreateInv'
    BY <2>13, <2>t DEF BeginStep, Advance, EndTask, WorkerIdle, WorkerState, Exists,
       StatusDuring
  <2>14. ASSUME NEW w \in Workers, InsertInstance(w) PROVE Phases' /\ CreateInv'
    BY <2>14, <2>t DEF InsertInstance, Advance, WorkerState, Exists, StatusDuring
  <2>15. ASSUME NEW w \in Workers, LinkInstance(w) PROVE Phases' /\ CreateInv'
    BY <2>15, <2>t DEF LinkInstance, WorkerState, Exists, StatusDuring
  <2>16. ASSUME NEW w \in Workers, PassStep(w) PROVE Phases' /\ CreateInv'
    BY <2>16, <2>t DEF PassStep, Advance, EndTask, WorkerIdle, WorkerState, Exists,
       StatusDuring
  <2>17. ASSUME NEW w \in Workers, FailStep(w) PROVE Phases' /\ CreateInv'
    BY <2>17, <2>t DEF FailStep, Advance, EndTask, WorkerIdle, WorkerState, Exists,
       StatusDuring
  <2>18. ASSUME NEW w \in Workers, RecordResult(w) PROVE Phases' /\ CreateInv'
    BY <2>18, <2>t DEF RecordResult, Advance, EndTask, WorkerIdle, WorkerState, Exists,
       StatusDuring
  <2>19. ASSUME NEW w \in Workers, ClearFlag(w) PROVE Phases' /\ CreateInv'
    BY <2>19, <2>t DEF ClearFlag, Advance, EndTask, WorkerIdle, WorkerState, Exists,
       StatusDuring
  <2>20. ASSUME NEW w \in Workers, Crash(w) PROVE Phases' /\ CreateInv'
    BY <2>20, <2>t DEF Crash, Advance, EndTask, WorkerIdle, WorkerState, Exists,
       StatusDuring
  <2>21. CASE UNCHANGED vars
    BY <2>21 DEF vars
  <2>22. QED
    BY <2>1, <2>2, <2>3, <2>4, <2>5, <2>6, <2>7, <2>8, <2>9, <2>10, <2>11, <2>12, <2>13,
       <2>14, <2>15, <2>16, <2>17, <2>18, <2>19, <2>20, <2>21
       DEF Next, StartRequest, RequestStep, WorkerStep, ReadRetry, ReadRebuild, ReadCancel,
           ReadRelease, ReadDelete
<1>3. QED
  BY <1>1, <1>2, TypeCorrect, PTL DEF Spec

--------------------------------------------------------------------------------
(* One run at a time *)

\* A job nobody has changed on an outdated read has one run at most, counting the message
\* that would start one, and its status says which phase that run is in.
THEOREM RunsCorrect == Spec => [](OneRunInv /\ StatusInv)
<1>1. Init => OneRunInv /\ StatusInv
  BY DeployAssumption DEF Init, OneRunInv, OneRun, StatusInv, StatusFollows, Due, Publishes,
     InFlight, RequestIdle, WorkerIdle
<1>2. /\ TypeOK /\ Busy /\ Phases /\ CreateInv
      /\ OneRunInv /\ StatusInv /\ [Next]_vars
      => OneRunInv' /\ StatusInv'
  <2> SUFFICES ASSUME TypeOK, Busy, Phases, CreateInv, OneRunInv, StatusInv, [Next]_vars,
                      NEW x \in Jobs \ stale'
               PROVE  OneRun(x)' /\ StatusFollows(x)'
    BY DEF OneRunInv, StatusInv
  <2>t. /\ worker \in [Workers -> WorkerState]
        /\ request \in [Requests -> RequestState]
        /\ status \in [Jobs -> JobStatus]
        /\ queue \in [Jobs -> Nat]
        /\ NoJob \notin Jobs
        /\ \A w \in Workers : worker[w].pc # "idle" <=> worker[w].job \in Jobs
        /\ \A r \in Requests : request[r].pc # "idle" <=> request[r].job \in Jobs
    BY Types DEF Busy
  <2>i. x \notin stale => OneRun(x) /\ StatusFollows(x)
    BY DEF OneRunInv, StatusInv
  <2>a. status[x] = "absent" =>
            /\ queue[x] = 0
            /\ ~InFlight(x)
            /\ \A r \in Requests : ~Publishes(r, x)
    BY DEF CreateInv, AbsentUntouched, Publishes
  <2> USE DEF OneRun, StatusFollows, Due, Publishes, InFlight, InProgress, Starting,
     Running,
          dbVars, historyVars
  <2>1. ASSUME NEW r \in Requests, NEW j \in Jobs, CheckCreate(r, j)
        PROVE  OneRun(x)' /\ StatusFollows(x)'
    BY <2>1, <2>t, <2>i DEF CheckCreate, RequestIdle
  <2>2. ASSUME NEW r \in Requests, NEW j \in Jobs,
               NEW op \in {"retry", "rebuild", "cancel", "release", "delete"},
               status[j] \in {"pending", "failed", "cancelled"}, ReadJob(r, j, op)
        PROVE  OneRun(x)' /\ StatusFollows(x)'
    BY <2>2, <2>t, <2>i DEF ReadJob, RequestIdle
  <2>3. ASSUME NEW r \in Requests, CommitCreate(r) PROVE OneRun(x)' /\ StatusFollows(x)'
    <3>1. status[request[r].job] = "absent" /\ request[r].job \in Jobs
      BY <2>3, <2>t DEF CommitCreate, CreateInv, CreateLocks
    <3>2. CASE x = request[r].job
      <4>1. status'[x] = "pending" /\ UNCHANGED <<queue, worker>>
        BY <2>3, <3>1, <3>2, <2>t DEF CommitCreate
      <4>2. \A s \in Requests : Publishes(s, x)' => s = r
        BY <2>3, <3>1, <3>2, <2>t, <2>a, RequestMoves DEF CommitCreate
      <4>3. QED
        BY <4>1, <4>2, <3>1, <3>2, <2>a
    <3>3. CASE x # request[r].job
      BY <2>3, <3>3, <2>t, <2>i, RequestMoves DEF CommitCreate
    <3>4. QED
      BY <3>2, <3>3
  <2>4. ASSUME NEW r \in Requests, CheckRequeue(r) PROVE OneRun(x)' /\ StatusFollows(x)'
    BY <2>4, <2>t, <2>i, RequestEnds, RequestPasses, SMTT(30) DEF CheckRequeue
  <2>5. ASSUME NEW r \in Requests, CommitRequeue(r) PROVE OneRun(x)' /\ StatusFollows(x)'
    BY <2>5, <2>t, <2>i, RequestEnds, RequestMoves, SMTT(30) DEF CommitRequeue, Overtaken, MessageDue
  <2>6. ASSUME NEW r \in Requests, CommitCancel(r) PROVE OneRun(x)' /\ StatusFollows(x)'
    BY <2>6, <2>t, <2>i, RequestEnds DEF CommitCancel, Overtaken
  <2>7. ASSUME NEW r \in Requests, CommitDelete(r) PROVE OneRun(x)' /\ StatusFollows(x)'
    BY <2>7, <2>t, <2>i, RequestEnds DEF CommitDelete, Overtaken
  <2>8. ASSUME NEW r \in Requests, Publish(r) PROVE OneRun(x)' /\ StatusFollows(x)'
    BY <2>8, <2>t, <2>i, RequestEnds DEF Publish
  <2>9. ASSUME NEW w \in Workers, NEW j \in Jobs, TakeMessage(w, j)
        PROVE  OneRun(x)' /\ StatusFollows(x)'
    BY <2>9, <2>t, <2>i, WorkerTakes DEF TakeMessage
  <2>10. ASSUME NEW w \in Workers, LoadJob(w) PROVE OneRun(x)' /\ StatusFollows(x)'
    BY <2>10, <2>t, <2>i, WorkerEnds DEF LoadJob
  <2>11. ASSUME NEW w \in Workers, CheckHost(w) PROVE OneRun(x)' /\ StatusFollows(x)'
    BY <2>11, <2>t, <2>i, WorkerMoves, WorkerEnds DEF CheckHost
  <2>12. ASSUME NEW w \in Workers, MarkRunning(w) PROVE OneRun(x)' /\ StatusFollows(x)'
    BY <2>12, <2>t, <2>i, WorkerMoves, WorkerEnds DEF MarkRunning
  <2>13. ASSUME NEW w \in Workers, BeginStep(w) PROVE OneRun(x)' /\ StatusFollows(x)'
    BY <2>13, <2>t, <2>i, WorkerMoves, WorkerEnds DEF BeginStep, StatusDuring
  <2>14. ASSUME NEW w \in Workers, InsertInstance(w) PROVE OneRun(x)' /\ StatusFollows(x)'
    BY <2>14, <2>t, <2>i, WorkerMoves DEF InsertInstance
  <2>15. ASSUME NEW w \in Workers, LinkInstance(w) PROVE OneRun(x)' /\ StatusFollows(x)'
    BY <2>15, <2>t, <2>i, WorkerMoves, WorkerEnds DEF LinkInstance, WorkerState
  <2>16. ASSUME NEW w \in Workers, PassStep(w) PROVE OneRun(x)' /\ StatusFollows(x)'
    <3>1. /\ \A v \in Workers \ {w} : worker'[v] = worker[v]
          /\ \/ worker'[w].pc = "stepping" /\ worker'[w].job = worker[w].job
             \/ worker'[w].pc = "idle" /\ worker'[w].job = NoJob
      <4>1. CASE EndTask(w)
        BY <4>1, <2>t, WorkerEnds
      <4>2. CASE \E k : worker' = [worker EXCEPT ![w].pc = "stepping", ![w].todo = @ \ {k}]
        BY <4>2, <2>t DEF WorkerState
      <4>3. QED
        BY <2>16, <4>1, <4>2 DEF PassStep
    <3>2. worker[w].pc = "executing" /\ UNCHANGED <<status, queue, request, stale>>
      BY <2>16 DEF PassStep
    <3>3. QED
      BY <3>1, <3>2, <2>t, <2>i
  <2>17. ASSUME NEW w \in Workers, FailStep(w) PROVE OneRun(x)' /\ StatusFollows(x)'
    BY <2>17, <2>t, <2>i, WorkerMoves, WorkerEnds DEF FailStep
  <2>18. ASSUME NEW w \in Workers, RecordResult(w) PROVE OneRun(x)' /\ StatusFollows(x)'
    BY <2>18, <2>t, <2>i, WorkerMoves, WorkerEnds DEF RecordResult
  <2>19. ASSUME NEW w \in Workers, ClearFlag(w) PROVE OneRun(x)' /\ StatusFollows(x)'
    BY <2>19, <2>t, <2>i, WorkerMoves, WorkerEnds DEF ClearFlag
  <2>20. ASSUME NEW w \in Workers, Crash(w) PROVE OneRun(x)' /\ StatusFollows(x)'
    BY <2>20, <2>t, <2>i, WorkerMoves, WorkerEnds DEF Crash
  <2>21. CASE UNCHANGED vars
    BY <2>21, <2>i DEF vars
  <2>22. QED
    BY <2>1, <2>2, <2>3, <2>4, <2>5, <2>6, <2>7, <2>8, <2>9, <2>10, <2>11, <2>12, <2>13,
       <2>14, <2>15, <2>16, <2>17, <2>18, <2>19, <2>20, <2>21
       DEF Next, StartRequest, RequestStep, WorkerStep, ReadRetry, ReadRebuild, ReadCancel,
           ReadRelease, ReadDelete
<1>3. QED
  BY <1>1, <1>2, TypeCorrect, CreateCorrect, PTL DEF Spec

\* Two workers run one job only if a request changed it on an outdated read.
THEOREM OneRunCorrect == Spec => []OneRunPerJob
<1>1. TypeOK /\ OneRunInv => OneRunPerJob
  BY DEF TypeOK, WorkerState, OneRunInv, OneRun, OneRunPerJob
<1>2. QED
  BY <1>1, TypeCorrect, RunsCorrect, PTL

--------------------------------------------------------------------------------
(* Hosts and endpoints have one job at a time *)

\* Every step but the checks and commits of create, retry and rebuild is quiet: a worker of
\* a job nobody overtook only changes a status that was active already.
LEMMA Quiet ==
    ASSUME TypeOK, Busy, StatusInv
    PROVE  /\ \A r \in Requests, j \in Jobs : \A op : ReadJob(r, j, op) => NothingNew
           /\ \A r \in Requests :
                  CommitCancel(r) \/ CommitDelete(r) \/ Publish(r) => NothingNew
           /\ \A w \in Workers, j \in Jobs : TakeMessage(w, j) => NothingNew
           /\ \A w \in Workers :
                  \/ LoadJob(w) \/ CheckHost(w) \/ MarkRunning(w) \/ BeginStep(w)
                  \/ InsertInstance(w) \/ LinkInstance(w) \/ PassStep(w) \/ FailStep(w)
                  \/ RecordResult(w) \/ ClearFlag(w) \/ Crash(w)
                  => NothingNew
<1>t. /\ request \in [Requests -> RequestState]
      /\ status \in [Jobs -> JobStatus]
      /\ \A w \in Workers : worker[w].pc # "idle" => worker[w].job \in Jobs
  BY Types
<1>s. \A w \in Workers : worker[w].job \in Jobs \ stale =>
          /\ worker[w].pc = "checked" => status[worker[w].job] = "pending"
          /\ worker[w].pc \in Running => status[worker[w].job] \in InProgress
  BY DEF StatusInv, StatusFollows, Starting
<1> USE DEF NothingNew, Claims, EndpointActive, HostActive, InProgress, dbVars, historyVars
<1>1. ASSUME NEW r \in Requests, NEW j \in Jobs, NEW op, ReadJob(r, j, op)
      PROVE  NothingNew
  BY <1>1, <1>t DEF ReadJob, RequestIdle
<1>2. ASSUME NEW r \in Requests, CommitCancel(r) PROVE NothingNew
  BY <1>2, <1>t, RequestEnds DEF CommitCancel
<1>3. ASSUME NEW r \in Requests, CommitDelete(r) PROVE NothingNew
  BY <1>3, <1>t, RequestEnds DEF CommitDelete
<1>4. ASSUME NEW r \in Requests, Publish(r) PROVE NothingNew
  BY <1>4, <1>t, RequestEnds DEF Publish
<1>5. ASSUME NEW w \in Workers, NEW j \in Jobs, TakeMessage(w, j) PROVE NothingNew
  BY <1>5 DEF TakeMessage
<1>6. ASSUME NEW w \in Workers, LoadJob(w) PROVE NothingNew
  BY <1>6 DEF LoadJob
<1>7. ASSUME NEW w \in Workers, CheckHost(w) PROVE NothingNew
  BY <1>7 DEF CheckHost
<1>8. ASSUME NEW w \in Workers, MarkRunning(w) PROVE NothingNew
  BY <1>8, <1>t, <1>s DEF MarkRunning
<1>9. ASSUME NEW w \in Workers, BeginStep(w) PROVE NothingNew
  BY <1>9, <1>t, <1>s DEF BeginStep, Running
<1>10. ASSUME NEW w \in Workers, InsertInstance(w) PROVE NothingNew
  BY <1>10, <1>t, <1>s DEF InsertInstance, Running
<1>11. ASSUME NEW w \in Workers, LinkInstance(w) PROVE NothingNew
  BY <1>11 DEF LinkInstance
<1>12. ASSUME NEW w \in Workers, PassStep(w) PROVE NothingNew
  BY <1>12 DEF PassStep
<1>13. ASSUME NEW w \in Workers, FailStep(w) PROVE NothingNew
  BY <1>13 DEF FailStep
<1>14. ASSUME NEW w \in Workers, RecordResult(w) PROVE NothingNew
  BY <1>14, <1>t, <1>s DEF RecordResult, Running
<1>15. ASSUME NEW w \in Workers, ClearFlag(w) PROVE NothingNew
  BY <1>15 DEF ClearFlag
<1>16. ASSUME NEW w \in Workers, Crash(w) PROVE NothingNew
  BY <1>16 DEF Crash
<1>17. QED
  BY <1>1, <1>2, <1>3, <1>4, <1>5, <1>6, <1>7, <1>8, <1>9, <1>10, <1>11, <1>12, <1>13,
     <1>14, <1>15, <1>16

\* What CommitCreate and CommitRequeue have in common: who else has passed its checks on
\* the host is outdated, or the job itself is.
LEMMA CommitsSeen ==
    ASSUME TypeOK, Busy, Phases, CreateInv, NEW r \in Requests,
           \/ CommitCreate(r)
           \/ CommitRequeue(r) /\ Exists(request[r].job),
           request[r].job \notin stale'
    PROVE  \A s \in Requests \ {r} :
               request[s].pc = "checked" /\ SameHost(request[s].job, request[r].job)
               => request[s].job \in stale'
<1> SUFFICES ASSUME NEW s \in Requests \ {r}, request[s].pc = "checked",
                    SameHost(request[s].job, request[r].job)
             PROVE  request[s].job \in stale'
  OBVIOUS
<1> DEFINE j == request[r].job
<1>1. j \in Jobs /\ request[s].job \in Jobs
  BY Types DEF CommitCreate, CommitRequeue
<1>2. s \in CheckedOnHost(r, j)
  BY <1>1 DEF CheckedOnHost
<1>3. CASE CommitCreate(r)
  <2>1. hostLock[HostOf[j]] = r
    BY <1>3 DEF CommitCreate, CreateInv, CreateLocks
  <2>2. request[s].op # "create"
    BY <1>1, <2>1 DEF CreateInv, CreateLocks, SameHost
  <2>3. request[s].job \in Outdated(r, j)
    BY <1>2, <2>2 DEF Outdated, Phases, Requeues
  <2>4. QED
    BY <1>3, <2>3 DEF CommitCreate
<1>4. CASE CommitRequeue(r) /\ Exists(j)
  BY <1>2, <1>4 DEF CommitRequeue
<1>5. QED
  BY <1>3, <1>4

\* Unless a request changed one of them on an outdated read, two jobs of a host are never
\* both active, and two jobs of an endpoint never both claim it.
THEOREM AloneCorrect == Spec => [](HostInv /\ EndpointInv)
<1>1. Init => HostInv /\ EndpointInv
  BY DEF Init, HostInv, ActiveAlone, CheckedAlone, EndpointInv, ClaimAlone, CheckedClaim,
     Claims, HostActive, EndpointActive, InProgress, RequestIdle
<1>2. /\ TypeOK /\ Busy /\ Phases /\ CreateInv /\ StatusInv
      /\ HostInv /\ EndpointInv /\ [Next]_vars
      => HostInv' /\ EndpointInv'
  <2> SUFFICES ASSUME TypeOK, Busy, Phases, CreateInv, StatusInv, HostInv, EndpointInv,
                      [Next]_vars
               PROVE  HostInv' /\ EndpointInv'
    OBVIOUS
  <2>t. /\ request \in [Requests -> RequestState]
        /\ status \in [Jobs -> JobStatus]
        /\ \A r \in Requests : request[r].pc # "idle" => request[r].job \in Jobs
    BY Types
  <2>e. \A i, j \in Jobs : EndpointOf[i] = EndpointOf[j] => SameHost(i, j)
    BY DeployAssumption DEF SameHost
  <2>n. NothingNew => HostInv' /\ EndpointInv'
    <3> SUFFICES ASSUME NothingNew PROVE HostInv' /\ EndpointInv'
      OBVIOUS
    <3>1. HostInv'
      BY DEF NothingNew, HostInv, ActiveAlone, CheckedAlone, SameHost
    <3>2. EndpointInv'
      BY DEF NothingNew, EndpointInv, ClaimAlone, CheckedClaim
    <3>3. QED
      BY <3>1, <3>2
  <2>1. ASSUME NEW r \in Requests, NEW j \in Jobs, CheckCreate(r, j)
        PROVE  HostInv' /\ EndpointInv'
    <3>1. /\ \A s \in Requests \ {r} : request'[s] = request[s]
          /\ request'[r].job = j
          /\ UNCHANGED <<status, cmdb, stale>>
      BY <2>1, <2>t DEF CheckCreate, RequestIdle, dbVars, historyVars
    <3>2. HostInv'
      BY <2>1, <3>1 DEF CheckCreate, HostInv, ActiveAlone, CheckedAlone, HostFree, SameHost
    <3>3. EndpointInv'
      BY <2>1, <3>1
         DEF CheckCreate, EndpointInv, ClaimAlone, CheckedClaim, Claims, EndpointFree
    <3>4. QED
      BY <3>2, <3>3
  <2>2. ASSUME NEW r \in Requests, CheckRequeue(r) PROVE HostInv' /\ EndpointInv'
    <3> DEFINE j == request[r].job
    <3>1. UNCHANGED <<status, cmdb, stale>>
      BY <2>2 DEF CheckRequeue, dbVars, historyVars
    <3>2. CASE EndRequest(r)
      <4>1. NothingNew
        BY <3>1, <3>2, <2>t, RequestEnds DEF NothingNew, Claims
      <4>2. QED
        BY <4>1, <2>n
    <3>3. CASE \E k : PassChecks(r, k) /\ HostFree(j) /\ (Resumes(r) \/ EndpointFree(j))
      <4>1. /\ \A s \in Requests \ {r} : request'[s] = request[s]
            /\ request'[r].job = j
            /\ request'[r].seen = request[r].seen
        BY <3>3, <2>t, RequestPasses
      <4>2. HostInv'
        BY <3>1, <3>3, <4>1
           DEF HostInv, ActiveAlone, CheckedAlone, HostFree, SameHost
      <4>3. request[r].seen # "failed" => EndpointFree(j)
        BY <3>3 DEF Resumes
      <4>4. EndpointInv'
        BY <3>1, <4>1, <4>3 DEF EndpointInv, ClaimAlone, CheckedClaim, Claims, EndpointFree
      <4>5. QED
        BY <4>2, <4>4
    <3>4. QED
      BY <2>2, <3>2, <3>3 DEF CheckRequeue
  <2>3. ASSUME NEW r \in Requests,
               \/ CommitCreate(r)
               \/ CommitRequeue(r) /\ Exists(request[r].job)
        PROVE  HostInv' /\ EndpointInv'
    <3> DEFINE j == request[r].job
    <3>1. /\ j \in Jobs
          /\ request[r].pc = "checked"
          /\ \A s \in Requests \ {r} : request'[s] = request[s]
          /\ request'[r].pc = "publish"
          /\ stale \subseteq stale'
          /\ cmdb' = cmdb
          /\ status' = [status EXCEPT ![j] = "pending"]
      BY <2>3, <2>t, RequestMoves DEF CommitCreate, CommitRequeue
    <3>2. j \notin stale' =>
              \A s \in Requests \ {r} :
                  request[s].pc = "checked" /\ SameHost(request[s].job, j)
                  => request[s].job \in stale'
      BY <2>3, CommitsSeen
    <3>3. j \notin stale' => request[r].seen = status[j] \/ request[r].seen = "absent"
      BY <2>3 DEF CommitCreate, CommitRequeue, Overtaken, Phases, Requeues
    <3>4. HostInv'
      <4>1. ActiveAlone'
        BY <3>1, <2>t DEF HostInv, ActiveAlone, CheckedAlone, SameHost
      <4>2. CheckedAlone'
        BY <3>1, <3>2, <2>t DEF HostInv, CheckedAlone, SameHost
      <4>3. QED
        BY <4>1, <4>2 DEF HostInv
    <3>5. EndpointInv'
      <4>1. \A i \in Jobs \ {j} : Claims(i)' <=> Claims(i)
        BY <3>1, <2>t DEF Claims
      <4>2. j \notin stale' /\ request[r].seen \in {"pending", "failed"} => Claims(j)
        BY <3>3 DEF Claims, EndpointActive, HostActive
      <4>3. ClaimAlone'
        BY <3>1, <4>1, <4>2 DEF EndpointInv, ClaimAlone, CheckedClaim
      <4>4. CheckedClaim'
        BY <3>1, <3>2, <4>1, <2>e, <2>t DEF EndpointInv, CheckedClaim, SameHost
      <4>5. QED
        BY <4>3, <4>4 DEF EndpointInv
    <3>6. QED
      BY <3>4, <3>5
  <2>4. ASSUME NEW r \in Requests, CommitRequeue(r), ~Exists(request[r].job)
        PROVE  HostInv' /\ EndpointInv'
    <3>1. NothingNew
      BY <2>4, <2>t, RequestEnds DEF CommitRequeue, NothingNew, Claims
    <3>2. QED
      BY <3>1, <2>n
  <2>5. CASE UNCHANGED vars
    <3>1. NothingNew
      BY <2>5 DEF vars, dbVars, historyVars, NothingNew, Claims
    <3>2. QED
      BY <3>1, <2>n
  <2>6. QED
    BY <2>1, <2>2, <2>3, <2>4, <2>5, <2>n, Quiet
       DEF Next, StartRequest, RequestStep, WorkerStep, ReadRetry, ReadRebuild, ReadCancel,
           ReadRelease, ReadDelete
<1>3. QED
  BY <1>1, <1>2, TypeCorrect, CreateCorrect, RunsCorrect, PTL DEF Spec

\* A host is occupied by one job at a time, by status or by a worker at work.
THEOREM HostCorrect == Spec => []HostExclusive
<1>1. StatusInv /\ HostInv => HostExclusive
  BY DEF StatusInv, StatusFollows, HostInv, ActiveAlone, HostExclusive, Occupies, Runs,
     HostActive
<1>2. QED
  BY <1>1, RunsCorrect, AloneCorrect, PTL

\* An endpoint has one claimant, from the creation of a job to its row in the ledger.
THEOREM EndpointCorrect == Spec => []EndpointExclusive
<1>1. EndpointInv => EndpointExclusive
  BY DEF EndpointInv, ClaimAlone, EndpointExclusive
<1>2. QED
  BY <1>1, AloneCorrect, PTL

--------------------------------------------------------------------------------
(* The ledger's promise *)

\* What is recorded as done was done: a step marked succeeded has run, and a worker skips
\* only steps that have.
THEOREM EvidenceCorrect == Spec => []Evidence
<1>1. Init => Evidence
  BY DEF Init, Evidence, StepEvidence, RunEvidence, WorkerIdle
<1>2. TypeOK /\ Busy /\ Evidence /\ [Next]_vars => Evidence'
  <2> SUFFICES ASSUME TypeOK, Busy, Evidence, [Next]_vars PROVE Evidence'
    OBVIOUS
  <2>t. /\ worker \in [Workers -> WorkerState]
        /\ step \in [Jobs -> [Steps -> StepStatus]]
        /\ passed \in [Jobs -> SUBSET Steps]
        /\ instance \in [Jobs -> BOOLEAN]
        /\ NoJob \notin Jobs
        /\ \A w \in Workers : worker[w].pc # "idle" => worker[w].job \in Jobs
        /\ \A r \in Requests : request[r].pc # "idle" => request[r].job \in Jobs
    BY Types DEF TypeOK
  <2> USE DEF Evidence, StepEvidence, RunEvidence, dbVars, historyVars
  <2>1. ASSUME NEW r \in Requests, NEW j \in Jobs, CheckCreate(r, j) PROVE Evidence'
    BY <2>1, <2>t DEF CheckCreate
  <2>2. ASSUME NEW r \in Requests, NEW j \in Jobs, NEW op, ReadJob(r, j, op)
        PROVE  Evidence'
    BY <2>2, <2>t DEF ReadJob
  <2>3. ASSUME NEW r \in Requests, CommitCreate(r) PROVE Evidence'
    BY <2>3, <2>t DEF CommitCreate
  <2>4. ASSUME NEW r \in Requests, CheckRequeue(r) PROVE Evidence'
    BY <2>4, <2>t DEF CheckRequeue
  <2>5. ASSUME NEW r \in Requests, CommitRequeue(r) PROVE Evidence'
    BY <2>5, <2>t DEF CommitRequeue
  <2>6. ASSUME NEW r \in Requests, CommitCancel(r) PROVE Evidence'
    BY <2>6, <2>t DEF CommitCancel
  <2>7. ASSUME NEW r \in Requests, CommitDelete(r) PROVE Evidence'
    BY <2>7, <2>t DEF CommitDelete
  <2>8. ASSUME NEW r \in Requests, Publish(r) PROVE Evidence'
    BY <2>8, <2>t DEF Publish
  <2>9. ASSUME NEW w \in Workers, NEW j \in Jobs, TakeMessage(w, j) PROVE Evidence'
    BY <2>9, <2>t, WorkerTakes DEF TakeMessage
  <2>10. ASSUME NEW w \in Workers, LoadJob(w) PROVE Evidence'
    BY <2>10, <2>t, WorkerMoves, WorkerEnds DEF LoadJob
  <2>11. ASSUME NEW w \in Workers, CheckHost(w) PROVE Evidence'
    BY <2>11, <2>t, WorkerMoves, WorkerEnds DEF CheckHost
  <2>12. ASSUME NEW w \in Workers, MarkRunning(w) PROVE Evidence'
    BY <2>12, <2>t, WorkerMoves, WorkerEnds DEF MarkRunning
  <2>13. ASSUME NEW w \in Workers, BeginStep(w) PROVE Evidence'
    <3>1. UNCHANGED <<passed, instance, cmdb>>
      BY <2>13 DEF BeginStep
    <3>2. \A j \in Jobs, k \in Steps : step'[j][k] \in {step[j][k], "running"}
      BY <2>13, <2>t DEF BeginStep
    <3>3. RunEvidence'
      BY <2>13, <3>1, <2>t, WorkerMoves, WorkerEnds DEF BeginStep
    <3>4. QED
      BY <3>1, <3>2, <3>3
  <2>14. ASSUME NEW w \in Workers, InsertInstance(w) PROVE Evidence'
    BY <2>14, <2>t, WorkerMoves, WorkerEnds DEF InsertInstance
  <2>15. ASSUME NEW w \in Workers, LinkInstance(w) PROVE Evidence'
    BY <2>15, <2>t, WorkerMoves, WorkerEnds DEF LinkInstance
  <2>16. ASSUME NEW w \in Workers, PassStep(w) PROVE Evidence'
    <3>1. CASE EndTask(w) /\ UNCHANGED <<step, passed>>
      BY <2>16, <3>1, <2>t, WorkerEnds DEF PassStep
    <3>2. CASE \E k \in Steps :
                   /\ step' = [step EXCEPT ![worker[w].job][k] = "succeeded"]
                   /\ passed' = [passed EXCEPT ![worker[w].job] = @ \cup {k}]
                   /\ worker' = [worker EXCEPT ![w].pc = "stepping", ![w].todo = @ \ {k}]
      <4>1. PICK k \in Steps :
                   /\ step' = [step EXCEPT ![worker[w].job][k] = "succeeded"]
                   /\ passed' = [passed EXCEPT ![worker[w].job] = @ \cup {k}]
                   /\ worker' = [worker EXCEPT ![w].pc = "stepping", ![w].todo = @ \ {k}]
        BY <3>2
      <4>2. /\ worker[w].pc = "executing"
            /\ worker[w].job \in Jobs
            /\ UNCHANGED <<instance, cmdb>>
        BY <2>16, <2>t DEF PassStep
      <4>3. /\ \A v \in Workers \ {w} : worker'[v] = worker[v]
            /\ worker'[w].pc = "stepping"
            /\ worker'[w].job = worker[w].job
            /\ worker'[w].todo = worker[w].todo \ {k}
            /\ worker'[w].inst = worker[w].inst
        BY <4>1, <2>t DEF WorkerState
      <4>4. /\ \A j \in Jobs : passed[j] \subseteq passed'[j]
            /\ k \in passed'[worker[w].job]
        BY <4>1, <4>2, <2>t
      <4>5. StepEvidence'
        <5>1. /\ \A j \in Jobs \ {worker[w].job} : step'[j] = step[j]
              /\ step'[worker[w].job] = [step[worker[w].job] EXCEPT ![k] = "succeeded"]
          BY <4>1, <4>2, <2>t
        <5>2. \A i \in Steps \ {k} : step'[worker[w].job][i] = step[worker[w].job][i]
          BY <5>1, <4>2, <2>t
        <5>3. \A i \in Steps : step'[worker[w].job][i] = "succeeded"
                               => i \in passed'[worker[w].job]
          BY <4>2, <4>4, <5>2 DEF StepEvidence
        <5>4. \A j \in Jobs \ {worker[w].job}, i \in Steps :
                  step'[j][i] = "succeeded" => i \in passed'[j]
          BY <4>4, <5>1 DEF StepEvidence
        <5>5. QED
          BY <5>3, <5>4 DEF StepEvidence
      <4>6. RunEvidence'
        BY <4>2, <4>3, <4>4, <2>t DEF RunEvidence
      <4>7. QED
        BY <4>5, <4>6
    <3>3. QED
      BY <2>16, <3>1, <3>2 DEF PassStep
  <2>17. ASSUME NEW w \in Workers, FailStep(w) PROVE Evidence'
    <3>1. UNCHANGED <<passed, instance, cmdb>>
      BY <2>17 DEF FailStep
    <3>2. \A j \in Jobs, k \in Steps : step'[j][k] \in {step[j][k], "failed"}
      BY <2>17, <2>t DEF FailStep
    <3>3. RunEvidence'
      BY <2>17, <3>1, <2>t, WorkerMoves, WorkerEnds DEF FailStep
    <3>4. QED
      BY <3>1, <3>2, <3>3
  <2>18. ASSUME NEW w \in Workers, RecordResult(w) PROVE Evidence'
    BY <2>18, <2>t, WorkerMoves, WorkerEnds DEF RecordResult
  <2>19. ASSUME NEW w \in Workers, ClearFlag(w) PROVE Evidence'
    BY <2>19, <2>t, WorkerMoves, WorkerEnds DEF ClearFlag
  <2>20. ASSUME NEW w \in Workers, Crash(w) PROVE Evidence'
    BY <2>20, <2>t, WorkerMoves, WorkerEnds DEF Crash
  <2>21. CASE UNCHANGED vars
    BY <2>21 DEF vars
  <2>22. QED
    BY <2>1, <2>2, <2>3, <2>4, <2>5, <2>6, <2>7, <2>8, <2>9, <2>10, <2>11, <2>12, <2>13,
       <2>14, <2>15, <2>16, <2>17, <2>18, <2>19, <2>20, <2>21
       DEF Next, StartRequest, RequestStep, WorkerStep, ReadRetry, ReadRebuild, ReadCancel,
           ReadRelease, ReadDelete
<1>3. QED
  BY <1>1, <1>2, TypeCorrect, PTL DEF Spec

\* DeployJob keeps the promise of DeployPromise: no row in the ledger, and no success
\* reported, without the steps that justify it, however requests and workers overlap.
THEOREM PromiseKept == Spec => KeepsPromise
<1>1. Init => Promise!Init
  BY DEF Init, Promise!Init
<1>2. TypeOK /\ Busy /\ Evidence /\ [Next]_vars => [Promise!Next]_Promise!vars
  <2> SUFFICES ASSUME TypeOK, Busy, Evidence, [Next]_vars
               PROVE  [Promise!Next]_Promise!vars
    OBVIOUS
  <2>t. /\ worker \in [Workers -> WorkerState]
        /\ status \in [Jobs -> JobStatus]
        /\ instance \in [Jobs -> BOOLEAN]
        /\ passed \in [Jobs -> SUBSET Steps]
        /\ \A w \in Workers : worker[w].pc # "idle" => worker[w].job \in Jobs
        /\ \A r \in Requests : request[r].pc # "idle" => request[r].job \in Jobs
        /\ NSteps \in Nat /\ NSteps >= 3
    BY Types, DeployAssumption DEF TypeOK
  <2> DEFINE linked == {j \in Jobs : instance[j]}
             told == {j \in Jobs : status[j] = "succeeded"}
  <2>s. UNCHANGED <<passed, cmdb, instance, status>> => [Promise!Next]_Promise!vars
    BY DEF Promise!vars
  <2>w. ASSUME NEW j \in Jobs, NEW value \in JobStatus \ {"succeeded"},
               status' = [status EXCEPT ![j] = value],
               UNCHANGED <<passed, cmdb, instance>>
        PROVE  [Promise!Next]_Promise!vars
    <3>1. told' = told \ {j}
      BY <2>w, <2>t
    <3>2. linked' = linked
      BY <2>w
    <3>3. Promise!Withdraw(j)
      BY <2>w, <3>1, <3>2 DEF Promise!Withdraw
    <3>4. QED
      BY <3>3 DEF Promise!Next
  <2>v. {"pending", "running", "failed", "cancelled", "deleted", "prechecking",
         "verifying"} \subseteq JobStatus \ {"succeeded"}
    BY DEF JobStatus, EndpointActive, HostActive, InProgress
  <2> USE DEF dbVars, historyVars
  <2>1. ASSUME NEW r \in Requests, NEW j \in Jobs, CheckCreate(r, j)
        PROVE  [Promise!Next]_Promise!vars
    BY <2>1, <2>s DEF CheckCreate
  <2>2. ASSUME NEW r \in Requests, NEW j \in Jobs, NEW op, ReadJob(r, j, op)
        PROVE  [Promise!Next]_Promise!vars
    BY <2>2, <2>s DEF ReadJob
  <2>3. ASSUME NEW r \in Requests, CommitCreate(r) PROVE [Promise!Next]_Promise!vars
    BY <2>3, <2>t, <2>w, <2>v DEF CommitCreate
  <2>4. ASSUME NEW r \in Requests, CheckRequeue(r) PROVE [Promise!Next]_Promise!vars
    BY <2>4, <2>s DEF CheckRequeue
  <2>5. ASSUME NEW r \in Requests, CommitRequeue(r) PROVE [Promise!Next]_Promise!vars
    BY <2>5, <2>t, <2>s, <2>w, <2>v DEF CommitRequeue
  <2>6. ASSUME NEW r \in Requests, CommitCancel(r) PROVE [Promise!Next]_Promise!vars
    BY <2>6, <2>t, <2>s, <2>w, <2>v DEF CommitCancel
  <2>7. ASSUME NEW r \in Requests, CommitDelete(r) PROVE [Promise!Next]_Promise!vars
    BY <2>7, <2>t, <2>w, <2>v DEF CommitDelete
  <2>8. ASSUME NEW r \in Requests, Publish(r) PROVE [Promise!Next]_Promise!vars
    BY <2>8, <2>s DEF Publish
  <2>9. ASSUME NEW w \in Workers, NEW j \in Jobs, TakeMessage(w, j)
        PROVE  [Promise!Next]_Promise!vars
    BY <2>9, <2>s DEF TakeMessage
  <2>10. ASSUME NEW w \in Workers, LoadJob(w) PROVE [Promise!Next]_Promise!vars
    BY <2>10, <2>s DEF LoadJob
  <2>11. ASSUME NEW w \in Workers, CheckHost(w) PROVE [Promise!Next]_Promise!vars
    BY <2>11, <2>s DEF CheckHost
  <2>12. ASSUME NEW w \in Workers, MarkRunning(w) PROVE [Promise!Next]_Promise!vars
    BY <2>12, <2>t, <2>s, <2>w, <2>v DEF MarkRunning
  <2>13. ASSUME NEW w \in Workers, BeginStep(w) PROVE [Promise!Next]_Promise!vars
    <3>1. \/ status' = status
          \/ status' = [status EXCEPT ![worker[w].job] = "prechecking"]
          \/ status' = [status EXCEPT ![worker[w].job] = "verifying"]
      BY <2>13, <2>t DEF BeginStep, StatusDuring
    <3>2. worker[w].job \in Jobs /\ UNCHANGED <<passed, cmdb, instance>>
      BY <2>13, <2>t DEF BeginStep
    <3>3. QED
      BY <3>1, <3>2, <2>s, <2>w, <2>v
  <2>14. ASSUME NEW w \in Workers, InsertInstance(w) PROVE [Promise!Next]_Promise!vars
    <3> DEFINE j == worker[w].job
    <3>1. Steps \ worker[w].todo \subseteq passed[j] /\ j \in Jobs
      BY <2>14, <2>t DEF InsertInstance, Evidence, RunEvidence
    <3>2. 1..(NSteps - 1) \subseteq passed[j]
      BY <2>14, <3>1, <2>t DEF InsertInstance, IsNext, RegisterCmdb, Steps
    <3>3. Promise!Register(j)
      BY <2>14, <3>2 DEF InsertInstance, Promise!Register
    <3>4. QED
      BY <3>1, <3>3 DEF Promise!Next
  <2>15. ASSUME NEW w \in Workers, LinkInstance(w) PROVE [Promise!Next]_Promise!vars
    <3>j. PICK j \in Jobs : j = worker[w].job
      BY <2>15, <2>t DEF LinkInstance
    <3>1. j \in cmdb
      BY <2>15, <3>j DEF LinkInstance, Evidence, RunEvidence
    <3>2. linked' = linked \cup {j}
      BY <2>15, <3>j, <2>t DEF LinkInstance
    <3>3. Promise!Link(j)
      BY <2>15, <3>1, <3>2 DEF LinkInstance, Promise!Link
    <3>4. QED
      BY <3>3 DEF Promise!Next
  <2>16. ASSUME NEW w \in Workers, PassStep(w) PROVE [Promise!Next]_Promise!vars
    <3> DEFINE j == worker[w].job
    <3>1. CASE UNCHANGED passed
      BY <2>16, <3>1, <2>s DEF PassStep
    <3>2. CASE ~UNCHANGED passed
      <4>1. PICK k \in Steps : /\ IsNext(k, worker[w].todo)
                               /\ k = RegisterCmdb => worker[w].inst
                               /\ passed' = [passed EXCEPT ![j] = @ \cup {k}]
        BY <2>16, <3>2 DEF PassStep
      <4>2. /\ j \in Jobs
            /\ Steps \ worker[w].todo \subseteq passed[j]
            /\ worker[w].inst => instance[j]
        BY <2>16, <2>t DEF PassStep, Evidence, RunEvidence
      <4>3. 1..(k - 1) \subseteq passed[j]
        BY <4>1, <4>2, <2>t DEF IsNext, Steps
      <4>4. k = NSteps => j \in linked
        BY <4>1, <4>2 DEF RegisterCmdb
      <4>5. Promise!Prove(j, k)
        BY <2>16, <4>1, <4>3, <4>4 DEF PassStep, Promise!Prove
      <4>6. QED
        BY <4>2, <4>5 DEF Promise!Next, Steps
    <3>3. QED
      BY <3>1, <3>2
  <2>17. ASSUME NEW w \in Workers, FailStep(w) PROVE [Promise!Next]_Promise!vars
    BY <2>17, <2>s DEF FailStep
  <2>18. ASSUME NEW w \in Workers, RecordResult(w) PROVE [Promise!Next]_Promise!vars
    <3>j. PICK j \in Jobs : j = worker[w].job
      BY <2>18, <2>t DEF RecordResult
    <3>1. CASE status' = [status EXCEPT ![j] = "succeeded"] /\ worker[w].pc = "stepping"
      <4>1. 1..NSteps \subseteq passed[j]
        BY <2>18, <3>j, <3>1 DEF RecordResult, Evidence, RunEvidence, Steps
      <4>2. told' = told \cup {j}
        BY <3>1, <2>t
      <4>3. Promise!Tell(j)
        BY <2>18, <4>1, <4>2 DEF RecordResult, Promise!Tell
      <4>4. QED
        BY <4>3 DEF Promise!Next
    <3>2. CASE status' = [status EXCEPT ![j] = "failed"]
      BY <2>18, <3>2, <2>t, <2>w, <2>v DEF RecordResult
    <3>3. CASE status' = status
      BY <2>18, <3>3, <2>s DEF RecordResult
    <3>4. QED
      BY <2>18, <3>j, <3>1, <3>2, <3>3 DEF RecordResult
  <2>19. ASSUME NEW w \in Workers, ClearFlag(w) PROVE [Promise!Next]_Promise!vars
    BY <2>19, <2>s DEF ClearFlag
  <2>20. ASSUME NEW w \in Workers, Crash(w) PROVE [Promise!Next]_Promise!vars
    BY <2>20, <2>s DEF Crash
  <2>21. CASE UNCHANGED vars
    BY <2>21, <2>s DEF vars
  <2>22. QED
    BY <2>1, <2>2, <2>3, <2>4, <2>5, <2>6, <2>7, <2>8, <2>9, <2>10, <2>11, <2>12, <2>13,
       <2>14, <2>15, <2>16, <2>17, <2>18, <2>19, <2>20, <2>21
       DEF Next, StartRequest, RequestStep, WorkerStep, ReadRetry, ReadRebuild, ReadCancel,
           ReadRelease, ReadDelete
<1>3. QED
  BY <1>1, <1>2, TypeCorrect, EvidenceCorrect, PTL DEF Spec, KeepsPromise, Promise!Spec


--------------------------------------------------------------------------------
(* What is left to be done after a failure *)

\* As long as the rows of a job's steps stay, so does what is said of them alone.
LEMMA SameRows ==
    ASSUME NEW x, step'[x] = step[x]
    PROVE  /\ Undone(x)' = Undone(x)
           /\ HasFailed(x)' <=> HasFailed(x)
           /\ Ordered(x)' <=> Ordered(x)
  BY DEF Undone, HasFailed, Ordered, Steps

\* A step of this kind that touches neither the rows of a job nor its run.
LEMMA LeftAlone ==
    ASSUME NEW x, Ordered(x), OnTrack(x), AfterFailure(x),
           step'[x] = step[x], force'[x] = force[x],
           status'[x] = "failed" => status[x] = "failed",
           \A w \in Workers : worker[w].job = x \/ worker'[w].job = x => worker'[w] = worker[w]
    PROVE  Ordered(x)' /\ OnTrack(x)' /\ AfterFailure(x)'
<1>1. InFlight(x)' <=> InFlight(x)
  BY DEF InFlight
<1> QED
  BY <1>1, SameRows DEF OnTrack, AfterFailure

\* The step a run is at, marked in any way, keeps the rows in order.
LEMMA MarksOne ==
    ASSUME NEW x \in Jobs, step \in [Jobs -> [Steps -> StepStatus]], Ordered(x),
           NEW k \in Steps, IsNext(k, Undone(x)), NEW mark \in {"running", "succeeded", "failed"},
           step' = [step EXCEPT ![x][k] = mark]
    PROVE  /\ Ordered(x)'
           /\ Undone(x)' = IF mark = "succeeded" THEN Undone(x) \ {k} ELSE Undone(x)
           /\ mark = "failed" => HasFailed(x)'
<1>1. step'[x][k] = mark /\ \A i \in Steps \ {k} : step'[x][i] = step[x][i]
  OBVIOUS
<1>2. \A i \in Steps : i < k => step[x][i] = "succeeded"
  BY DEF IsNext, Undone, Steps
<1>3. \A i \in Steps : i > k => step[x][i] = "pending"
  BY DEF IsNext, Undone, Ordered, Steps
<1>4. Ordered(x)'
  <2> SUFFICES ASSUME NEW i \in Steps, NEW m \in Steps, i < m, step'[x][m] # "pending"
               PROVE  step'[x][i] = "succeeded"
    BY DEF Ordered, Steps
  <2>1. m <= k
    BY <1>1, <1>3 DEF Steps
  <2> QED
    BY <1>1, <1>2, <2>1 DEF Steps
<1>5. Undone(x)' = IF mark = "succeeded" THEN Undone(x) \ {k} ELSE Undone(x)
  BY <1>1 DEF Undone, IsNext, Steps
<1>6. mark = "failed" => HasFailed(x)'
  BY <1>1 DEF HasFailed, Steps
<1> QED
  BY <1>4, <1>5, <1>6

\* What has been done and what is left is clear from the rows of a job, and a failure leaves
\* no flag behind once its worker is done.
THEOREM ResumeCorrect == Spec => []ResumeInv
<1>1. Init => ResumeInv
  <2> SUFFICES ASSUME Init, NEW j \in Jobs PROVE Ordered(j) /\ OnTrack(j) /\ AfterFailure(j)
    BY DEF ResumeInv
  <2>1. status[j] = "absent" /\ \A k \in Steps : step[j][k] = "pending"
    BY DEF Init
  <2>2. \A w \in Workers : worker[w].job # j
    BY DeployAssumption DEF Init, WorkerIdle
  <2> QED
    BY <2>1, <2>2 DEF Ordered, OnTrack, AfterFailure, Steps
<1>2. TypeOK /\ Busy /\ OneRunInv /\ StatusInv /\ ResumeInv /\ [Next]_vars => ResumeInv'
  <2> SUFFICES ASSUME TypeOK, Busy, OneRunInv, StatusInv, ResumeInv, [Next]_vars,
                      NEW x \in Jobs \ (stale' \cup crashed')
               PROVE  Ordered(x)' /\ OnTrack(x)' /\ AfterFailure(x)'
    BY DEF ResumeInv
  <2> DEFINE Goal == Ordered(x)' /\ OnTrack(x)' /\ AfterFailure(x)'
  <2>t. /\ worker \in [Workers -> WorkerState]
        /\ request \in [Requests -> RequestState]
        /\ status \in [Jobs -> JobStatus]
        /\ step \in [Jobs -> [Steps -> StepStatus]]
        /\ force \in [Jobs -> BOOLEAN]
        /\ NoJob \notin Jobs
        /\ \A w \in Workers : worker[w].pc # "idle" <=> worker[w].job \in Jobs
        /\ \A r \in Requests : request[r].pc # "idle" <=> request[r].job \in Jobs
    BY Types DEF TypeOK, Busy
  <2>i. x \notin stale \cup crashed =>
            /\ Ordered(x) /\ OnTrack(x) /\ AfterFailure(x)
            /\ StatusFollows(x)
            /\ \A v, w \in Workers : worker[v].job = x /\ worker[w].job = x => v = w
    BY DEF ResumeInv, StatusInv, OneRunInv, OneRun
  <2> HIDE DEF Goal
  <2>g. Ordered(x)' /\ OnTrack(x)' /\ AfterFailure(x)' <=> Goal
    BY DEF Goal
  <2> USE DEF dbVars, historyVars
  <2>1. ASSUME NEW r \in Requests, NEW j \in Jobs, CheckCreate(r, j) PROVE Goal
    BY <2>1, <2>i, <2>g, LeftAlone DEF CheckCreate
  <2>2. ASSUME NEW r \in Requests, NEW j \in Jobs, NEW op, ReadJob(r, j, op) PROVE Goal
    BY <2>2, <2>i, <2>g, LeftAlone DEF ReadJob
  <2>3. ASSUME NEW r \in Requests, CommitCreate(r) PROVE Goal
    <3>1. request[r].job \in Jobs
      BY <2>3, <2>t DEF CommitCreate
    <3>2. /\ UNCHANGED <<step, force, worker>> /\ x \notin stale \cup crashed
          /\ status'[x] = "failed" => status[x] = "failed"
      BY <2>3, <2>t, <3>1 DEF CommitCreate
    <3> QED
      BY <3>2, <2>i, <2>g, LeftAlone
  <2>4. ASSUME NEW r \in Requests, CheckRequeue(r) PROVE Goal
    BY <2>4, <2>i, <2>g, LeftAlone DEF CheckRequeue
  <2>5. ASSUME NEW r \in Requests, CommitRequeue(r) PROVE Goal
    <3>1. request[r].job \in Jobs /\ UNCHANGED <<worker, crashed>>
      BY <2>5, <2>t DEF CommitRequeue
    <3>2. x \notin stale \cup crashed
      BY <2>5 DEF CommitRequeue
    <3>3. CASE x # request[r].job \/ ~Exists(request[r].job)
      <4>1. step'[x] = step[x] /\ force'[x] = force[x] /\ status'[x] = status[x]
        BY <2>5, <2>t, <3>1, <3>3 DEF CommitRequeue
      <4> QED
        BY <3>1, <3>2, <4>1, <2>i, <2>g, LeftAlone
    <3>4. CASE x = request[r].job /\ Exists(x)
      <4>1. /\ status'[x] = "pending" /\ ~InFlight(x)
            /\ \A k \in Steps : step'[x][k] = IF k < request[r].from THEN step[x][k] ELSE "pending"
        BY <2>5, <2>t, <3>1, <3>4 DEF CommitRequeue, Overtaken
      <4>2. Ordered(x)'
        <5> SUFFICES ASSUME NEW i \in Steps, NEW k \in Steps, i < k, step'[x][k] # "pending"
                     PROVE  step'[x][i] = "succeeded"
          BY DEF Ordered, Steps
        <5>1. request[r].from \in Nat
          BY <2>t, DeployAssumption DEF RequestState
        <5>2. k < request[r].from /\ i < request[r].from
          BY <4>1, <5>1 DEF Steps
        <5> QED
          BY <4>1, <5>2, <2>i, <3>2 DEF Ordered
      <4>3. OnTrack(x)' /\ AfterFailure(x)'
        BY <3>1, <4>1 DEF OnTrack, AfterFailure, InFlight
      <4> QED
        BY <4>2, <4>3, <2>g
    <3> QED
      BY <3>3, <3>4
  <2>6. ASSUME NEW r \in Requests, CommitCancel(r) PROVE Goal
    <3>1. request[r].job \in Jobs
      BY <2>6, <2>t DEF CommitCancel
    <3>2. /\ UNCHANGED <<step, force, worker>> /\ x \notin stale \cup crashed
          /\ status'[x] = "failed" => status[x] = "failed"
      BY <2>6, <2>t, <3>1 DEF CommitCancel
    <3> QED
      BY <3>2, <2>i, <2>g, LeftAlone
  <2>7. ASSUME NEW r \in Requests, CommitDelete(r) PROVE Goal
    <3>1. request[r].job \in Jobs /\ UNCHANGED worker /\ x \notin stale \cup crashed
      BY <2>7, <2>t DEF CommitDelete
    <3>2. CASE x # request[r].job
      <4>1. step'[x] = step[x] /\ force'[x] = force[x] /\ status'[x] = status[x]
        BY <2>7, <2>t, <3>1, <3>2 DEF CommitDelete
      <4> QED
        BY <3>1, <4>1, <2>i, <2>g, LeftAlone
    <3>3. CASE x = request[r].job
      <4>1. /\ status'[x] = "deleted" /\ ~InFlight(x)
            /\ \A k \in Steps : step'[x][k] = "pending"
        BY <2>7, <2>t, <3>1, <3>3 DEF CommitDelete, Overtaken
      <4> QED
        BY <3>1, <4>1, <2>g DEF Ordered, OnTrack, AfterFailure, InFlight, Steps
    <3> QED
      BY <3>2, <3>3
  <2>8. ASSUME NEW r \in Requests, Publish(r) PROVE Goal
    BY <2>8, <2>i, <2>g, LeftAlone DEF Publish
  <2>9. ASSUME NEW w \in Workers, NEW j \in Jobs, TakeMessage(w, j) PROVE Goal
    <3>1. /\ UNCHANGED <<status, step, force>> /\ x \notin stale \cup crashed
          /\ worker[w].pc = "idle"
          /\ UNCHANGED worker \/ StartTask(w, j)
      BY <2>9 DEF TakeMessage
    <3>2. CASE UNCHANGED worker
      BY <3>1, <3>2, <2>i, <2>g, LeftAlone
    <3>3. CASE StartTask(w, j)
      BY <3>1, <3>3, <2>t, <2>i, <2>g, WorkerTakes, SameRows, SMTT(30) DEF OnTrack, AfterFailure, InFlight
    <3> QED
      BY <3>1, <3>2, <3>3
  \* A worker of another job, and one of this job whose status is not failed.
  <2>w. ASSUME NEW w \in Workers, worker[w].job # x,
               \A v \in Workers \ {w} : worker'[v] = worker[v],
               worker'[w].job \in {worker[w].job, NoJob},
               step'[x] = step[x], force'[x] = force[x], status'[x] = status[x],
               x \notin stale \cup crashed
        PROVE  Goal
    <3>1. \A v \in Workers : worker[v].job = x \/ worker'[v].job = x => worker'[v] = worker[v]
      BY <2>w, <2>t
    <3> QED
      BY <2>w, <3>1, <2>i, <2>g, LeftAlone
  <2>e. ASSUME NEW w \in Workers, EndTask(w), UNCHANGED <<status, step, force>>,
               x \notin stale \cup crashed, worker[w].job = x => status[x] # "failed"
        PROVE  Goal
    BY <2>e, <2>t, <2>i, <2>g, WorkerEnds, SameRows, SMTT(30) DEF OnTrack, AfterFailure, InFlight
  <2>m. ASSUME NEW w \in Workers, worker[w].job = x,
               \A v \in Workers \ {w} : worker'[v] = worker[v],
               worker'[w].job = x, worker'[w].force = worker[w].force,
               worker'[w].todo = worker[w].todo,
               worker[w].pc \in {"loaded", "checked"} \cup Running,
               worker'[w].pc \in {"loaded", "checked"} \cup Running,
               worker'[w].pc = "failing" => worker[w].pc = "failing",
               UNCHANGED <<step, force>>, status'[x] # "failed",
               x \notin stale \cup crashed
        PROVE  Goal
    BY <2>m, <2>t, <2>i, <2>g, SameRows DEF OnTrack, AfterFailure, Running
  <2>10. ASSUME NEW w \in Workers, LoadJob(w) PROVE Goal
    <3>1. UNCHANGED <<status, step, force>> /\ x \notin stale \cup crashed /\ worker[w].pc = "guarded"
      BY <2>10 DEF LoadJob
    <3>2. CASE ~Exists(worker[w].job)
      BY <2>10, <3>1, <3>2, <2>e DEF LoadJob, Exists
    <3>3. CASE Exists(worker[w].job)
      <4>1. /\ \A v \in Workers \ {w} : worker'[v] = worker[v]
            /\ worker'[w].job = worker[w].job /\ worker'[w].pc = "loaded"
            /\ worker'[w].force = force[worker[w].job]
            /\ worker'[w].todo = Undone(worker[w].job)
        BY <2>10, <3>3, <2>t DEF LoadJob, Undone
      <4>2. CASE worker[w].job # x
        BY <3>1, <4>1, <4>2, <2>w
      <4>3. CASE worker[w].job = x
        BY <3>1, <4>1, <4>3, <2>i, <2>g, SameRows DEF OnTrack, AfterFailure, InFlight
      <4> QED
        BY <4>2, <4>3
    <3> QED
      BY <3>2, <3>3
  <2>11. ASSUME NEW w \in Workers, CheckHost(w) PROVE Goal
    <3>1. UNCHANGED <<status, step, force>> /\ x \notin stale \cup crashed /\ worker[w].pc = "loaded"
      BY <2>11 DEF CheckHost
    <3>2. worker[w].job = x => status[x] = "pending"
      BY <3>1, <2>i DEF StatusFollows, Starting
    <3>3. CASE EndTask(w)
      BY <3>1, <3>2, <3>3, <2>e
    <3>4. CASE Advance(w, "checked")
      BY <3>1, <3>2, <3>4, <2>t, <2>m, <2>w, WorkerMoves
    <3> QED
      BY <2>11, <3>3, <3>4 DEF CheckHost
  <2>12. ASSUME NEW w \in Workers, MarkRunning(w) PROVE Goal
    <3>1. UNCHANGED <<step, force>> /\ x \notin stale \cup crashed /\ worker[w].pc = "checked"
      BY <2>12 DEF MarkRunning
    <3>2. CASE ~Exists(worker[w].job)
      BY <2>12, <3>1, <3>2, <2>e DEF MarkRunning, Exists
    <3>3. CASE Exists(worker[w].job)
      <4>1. Advance(w, "stepping") /\ status' = [status EXCEPT ![worker[w].job] = "running"]
        BY <2>12, <3>3 DEF MarkRunning
      <4>2. worker[w].job # x => status'[x] = status[x]
        BY <4>1, <2>t
      <4>3. worker[w].job = x => status'[x] = "running"
        BY <4>1, <2>t
      <4> QED
        BY <3>1, <4>1, <4>2, <4>3, <2>t, <2>m, <2>w, WorkerMoves DEF Running
    <3> QED
      BY <3>2, <3>3
  \* A step of the run is marked.
  <2>k. ASSUME NEW w \in Workers, NEW k \in Steps, IsNext(k, worker[w].todo),
               worker[w].pc \in Running, x \notin stale \cup crashed,
               NEW mark \in {"running", "succeeded", "failed"},
               step' = [step EXCEPT ![worker[w].job][k] = mark],
               \A v \in Workers \ {w} : worker'[v] = worker[v],
               worker'[w].job = worker[w].job, worker'[w].force = worker[w].force,
               worker'[w].todo = IF mark = "succeeded" THEN worker[w].todo \ {k} ELSE worker[w].todo,
               worker'[w].pc \in Running, worker'[w].pc = "failing" => mark = "failed",
               UNCHANGED force,
               worker[w].job # x => status'[x] = status[x],
               worker[w].job = x => status'[x] # "failed"
        PROVE  Goal
    <3>1. worker[w].job \in Jobs
      BY <2>k, <2>t DEF Running
    <3>2. CASE worker[w].job # x
      <4>1. step'[x] = step[x]
        BY <2>k, <3>1, <3>2, <2>t
      <4> QED
        BY <2>k, <3>2, <4>1, <2>w
    <3>3. CASE worker[w].job = x
      <4>1. worker[w].todo = Undone(x)
        BY <2>k, <3>3, <2>i DEF OnTrack, Running
      <4>2. /\ Ordered(x)'
            /\ Undone(x)' = IF mark = "succeeded" THEN Undone(x) \ {k} ELSE Undone(x)
            /\ mark = "failed" => HasFailed(x)'
        BY <2>k, <3>3, <4>1, <2>t, <2>i, MarksOne
      <4>3. worker[w].force = force[x]
        BY <2>k, <3>3, <2>i DEF OnTrack, Running
      <4>4. \A v \in Workers \ {w} : worker'[v].job # x
        BY <2>k, <3>3, <2>i
      <4>5. OnTrack(x)'
        BY <2>k, <3>3, <4>1, <4>2, <4>3, <4>4 DEF OnTrack
      <4>6. AfterFailure(x)'
        BY <2>k, <3>3 DEF AfterFailure
      <4> QED
        BY <4>2, <4>5, <4>6, <2>g
    <3> QED
      BY <3>2, <3>3
  <2>13. ASSUME NEW w \in Workers, BeginStep(w) PROVE Goal
    <3>1. UNCHANGED force /\ x \notin stale \cup crashed /\ worker[w].pc = "stepping"
      BY <2>13 DEF BeginStep
    <3>2. CASE ~Exists(worker[w].job)
      BY <2>13, <3>1, <3>2, <2>e DEF BeginStep, Exists
    <3>3. CASE Exists(worker[w].job)
      <4>1. PICK k \in Steps :
                /\ IsNext(k, worker[w].todo)
                /\ status' = [status EXCEPT ![worker[w].job] = StatusDuring(k, @)]
                /\ step' = [step EXCEPT ![worker[w].job][k] = "running"]
                /\ Advance(w, "executing")
        BY <2>13, <3>3 DEF BeginStep
      <4>2. worker[w].job # x => status'[x] = status[x]
        BY <4>1, <2>t
      <4>3. worker[w].job = x => status'[x] # "failed"
        <5> SUFFICES ASSUME worker[w].job = x PROVE status'[x] # "failed"
          OBVIOUS
        <5>1. status[x] \in InProgress
          BY <3>1, <2>i DEF StatusFollows, Running
        <5> QED
          BY <4>1, <5>1, <2>t DEF StatusDuring, InProgress
      <4>4. /\ \A v \in Workers \ {w} : worker'[v] = worker[v]
            /\ worker'[w].job = worker[w].job /\ worker'[w].force = worker[w].force
            /\ worker'[w].todo = worker[w].todo
            /\ worker'[w].pc \in Running /\ worker'[w].pc # "failing"
        BY <4>1, <2>t, WorkerMoves DEF Running
      <4>5. worker[w].pc \in Running /\ "running" # "succeeded"
        BY <3>1 DEF Running
      <4> QED
        BY <3>1, <4>1, <4>2, <4>3, <4>4, <4>5, <2>k, ZenonT(30)
    <3> QED
      BY <3>2, <3>3
  <2>f. \A w \in Workers : worker[w].pc \in Running /\ worker[w].job = x /\ x \notin stale \cup crashed
                           => status[x] # "failed"
    BY <2>i DEF StatusFollows, InProgress
  <2>14. ASSUME NEW w \in Workers, InsertInstance(w) PROVE Goal
    <3>1. /\ UNCHANGED <<status, step, force>> /\ x \notin stale \cup crashed
          /\ worker[w].pc = "executing" /\ Advance(w, "linking")
      BY <2>14 DEF InsertInstance
    <3> QED
      BY <3>1, <2>f, <2>t, <2>m, <2>w, WorkerMoves DEF Running
  <2>15. ASSUME NEW w \in Workers, LinkInstance(w) PROVE Goal
    <3>1. /\ UNCHANGED <<status, step, force>> /\ x \notin stale \cup crashed
          /\ worker[w].pc = "linking"
          /\ worker' = [worker EXCEPT ![w].pc = "executing", ![w].inst = TRUE]
      BY <2>15 DEF LinkInstance
    <3>2. /\ \A v \in Workers \ {w} : worker'[v] = worker[v]
          /\ worker'[w].pc = "executing" /\ worker'[w].job = worker[w].job
          /\ worker'[w].todo = worker[w].todo /\ worker'[w].force = worker[w].force
      BY <3>1, <2>t DEF WorkerState
    <3> QED
      BY <3>1, <3>2, <2>f, <2>m, <2>w DEF Running
  <2>16. ASSUME NEW w \in Workers, PassStep(w) PROVE Goal
    <3>1. /\ UNCHANGED <<status, force>> /\ x \notin stale \cup crashed
          /\ worker[w].pc = "executing"
      BY <2>16 DEF PassStep
    <3>2. CASE ~Exists(worker[w].job)
      BY <2>16, <3>1, <3>2, <2>e DEF PassStep, Exists
    <3>3. CASE Exists(worker[w].job)
      <4>1. PICK k \in Steps :
                /\ IsNext(k, worker[w].todo)
                /\ step' = [step EXCEPT ![worker[w].job][k] = "succeeded"]
                /\ worker' = [worker EXCEPT ![w].pc = "stepping", ![w].todo = @ \ {k}]
        BY <2>16, <3>3 DEF PassStep
      <4>2. /\ \A v \in Workers \ {w} : worker'[v] = worker[v]
            /\ worker'[w].pc = "stepping" /\ worker'[w].job = worker[w].job
            /\ worker'[w].todo = worker[w].todo \ {k} /\ worker'[w].force = worker[w].force
        BY <4>1, <2>t DEF WorkerState
      <4> QED
        BY <3>1, <4>1, <4>2, <2>f, <2>k DEF Running
    <3> QED
      BY <3>2, <3>3
  <2>17. ASSUME NEW w \in Workers, FailStep(w) PROVE Goal
    <3>1. /\ UNCHANGED <<status, force>> /\ x \notin stale \cup crashed
          /\ worker[w].pc \in Running
      BY <2>17 DEF FailStep, Running
    <3>2. CASE ~Exists(worker[w].job)
      BY <2>17, <3>1, <3>2, <2>e DEF FailStep, Exists
    <3>3. CASE Exists(worker[w].job)
      <4>1. PICK k \in Steps :
                /\ IsNext(k, worker[w].todo)
                /\ step' = [step EXCEPT ![worker[w].job][k] = "failed"]
                /\ Advance(w, "failing")
        BY <2>17, <3>3 DEF FailStep
      <4> QED
        BY <3>1, <4>1, <2>f, <2>t, <2>k, WorkerMoves DEF Running
    <3> QED
      BY <3>2, <3>3
  <2>18. ASSUME NEW w \in Workers, RecordResult(w) PROVE Goal
    <3>1. /\ UNCHANGED <<step, force>> /\ x \notin stale \cup crashed
          /\ worker[w].pc \in {"stepping", "failing"}
      BY <2>18 DEF RecordResult
    <3>2. CASE ~Exists(worker[w].job)
      BY <2>18, <3>1, <3>2, <2>e DEF RecordResult, Exists
    <3>3. CASE Exists(worker[w].job)
      <4>1. /\ status' = [status EXCEPT ![worker[w].job] =
                             IF worker[w].pc = "failing" THEN "failed" ELSE "succeeded"]
            /\ Advance(w, "clearing")
        BY <2>18, <3>3 DEF RecordResult
      <4>2. CASE worker[w].job # x
        <5>1. status'[x] = status[x]
          BY <4>1, <4>2, <2>t
        <5> QED
          BY <3>1, <4>1, <4>2, <5>1, <2>t, <2>w, WorkerMoves
      <4>3. CASE worker[w].job = x
        <5>1. /\ status'[x] = "failed" => HasFailed(x)
              /\ worker[w].force = force[x]
          BY <3>1, <4>1, <4>3, <2>t, <2>i DEF OnTrack
        <5>2. /\ \A v \in Workers \ {w} : worker'[v].job # x
              /\ worker'[w].pc = "clearing" /\ worker'[w].job = x
              /\ worker'[w].force = worker[w].force
          BY <3>1, <4>1, <4>3, <2>t, <2>i, WorkerMoves
        <5>3. OnTrack(x)'
          BY <3>1, <5>1, <5>2 DEF OnTrack
        <5>4. AfterFailure(x)'
          BY <3>1, <5>1, <5>2, SameRows DEF AfterFailure, InFlight
        <5> QED
          BY <3>1, <5>3, <5>4, <2>i, <2>g, SameRows
      <4> QED
        BY <4>2, <4>3
    <3> QED
      BY <3>2, <3>3
  <2>19. ASSUME NEW w \in Workers, ClearFlag(w) PROVE Goal
    <3>1. /\ UNCHANGED <<status, step>> /\ x \notin stale \cup crashed
          /\ worker[w].pc = "clearing" /\ EndTask(w)
          /\ force' = [force EXCEPT ![worker[w].job] = @ /\ ~worker[w].force]
      BY <2>19 DEF ClearFlag
    <3>2. CASE worker[w].job # x
      <4>1. force'[x] = force[x]
        BY <3>1, <3>2, <2>t
      <4> QED
        BY <3>1, <3>2, <4>1, <2>t, <2>w, WorkerEnds
    <3>3. CASE worker[w].job = x
      <4>1. worker[w].force = force[x]
        BY <3>1, <3>3, <2>i DEF OnTrack
      <4>2. ~force'[x]
        BY <3>1, <3>3, <4>1, <2>t
      <4>3. step'[x] = step[x] /\ status'[x] = status[x]
        BY <3>1
      <4>4. \A v \in Workers : worker'[v].job # x
        BY <3>1, <3>3, <2>t, <2>i, WorkerEnds
      <4>5. OnTrack(x)'
        BY <4>4 DEF OnTrack
      <4>6. AfterFailure(x)'
        BY <3>1, <4>2, <4>3, <2>i, SameRows DEF AfterFailure
      <4> QED
        BY <3>1, <4>3, <4>5, <4>6, <2>i, <2>g, SameRows
    <3> QED
      BY <3>2, <3>3
  <2>20. ASSUME NEW w \in Workers, Crash(w) PROVE Goal
    <3>1. /\ UNCHANGED <<status, step, force>> /\ x \notin stale \cup crashed
          /\ EndTask(w) /\ worker[w].pc # "idle"
          /\ worker[w].job = x => worker[w].pc \in Starting
      BY <2>20, <2>t DEF Crash, Starting, Running, WorkerState
    <3> QED
      BY <3>1, <2>e, <2>i DEF StatusFollows
  <2>21. CASE UNCHANGED vars
    BY <2>21, <2>i, <2>g, LeftAlone DEF vars
  <2>22. QED
    BY <2>1, <2>2, <2>3, <2>4, <2>5, <2>6, <2>7, <2>8, <2>9, <2>10, <2>11, <2>12, <2>13,
       <2>14, <2>15, <2>16, <2>17, <2>18, <2>19, <2>20, <2>21, <2>g
       DEF Next, StartRequest, RequestStep, WorkerStep, ReadRetry, ReadRebuild, ReadCancel,
           ReadRelease, ReadDelete
<1>3. QED
  BY <1>1, <1>2, TypeCorrect, RunsCorrect, PTL DEF Spec

\* A failed job that no outdated request and no crash has touched can be resumed at the one
\* step that failed: the steps before it are done and those after it untouched.
THEOREM ResumableCorrect == Spec => []FailedIsResumable
<1>1. ResumeInv => FailedIsResumable
  <2> SUFFICES ASSUME ResumeInv, NEW j \in Jobs, Settled(j), status[j] = "failed"
               PROVE  \E k \in Steps : /\ step[j][k] = "failed"
                                       /\ \A i \in Steps : i < k => step[j][i] = "succeeded"
                                       /\ \A i \in Steps : i > k => step[j][i] = "pending"
    BY DEF FailedIsResumable
  <2>1. Ordered(j) /\ AfterFailure(j)
    BY DEF ResumeInv, Settled
  <2>2. PICK k \in Steps : step[j][k] = "failed"
    BY <2>1 DEF AfterFailure, HasFailed
  <2>3. \A i \in Steps : i < k => step[j][i] = "succeeded"
    BY <2>1, <2>2 DEF Ordered
  <2>4. \A i \in Steps : i > k => step[j][i] = "pending"
    BY <2>1, <2>2 DEF Ordered, Steps
  <2> QED
    BY <2>2, <2>3, <2>4
<1>2. QED
  BY <1>1, ResumeCorrect, PTL

\* A job that waits to be run with the flag set has all its steps before it.
THEOREM AfreshCorrect == Spec => []AfreshInv
<1>1. Init => AfreshInv
  BY DEF Init, AfreshInv, ResetsAll, Afresh, RequestIdle
<1>2. TypeOK /\ Busy /\ Phases /\ CreateInv /\ StatusInv /\ ResumeInv /\ AfreshInv /\ [Next]_vars
          => AfreshInv'
  <2> SUFFICES ASSUME TypeOK, Busy, Phases, CreateInv, StatusInv, ResumeInv, AfreshInv, [Next]_vars
               PROVE  AfreshInv'
    OBVIOUS
  <2>t. /\ worker \in [Workers -> WorkerState]
        /\ request \in [Requests -> RequestState]
        /\ status \in [Jobs -> JobStatus]
        /\ step \in [Jobs -> [Steps -> StepStatus]]
        /\ force \in [Jobs -> BOOLEAN]
        /\ \A w \in Workers : worker[w].pc # "idle" <=> worker[w].job \in Jobs
        /\ \A r \in Requests : request[r].pc # "idle" <=> request[r].job \in Jobs
    BY Types DEF TypeOK, Busy
  <2> USE DEF dbVars, historyVars
  <2>k. ASSUME \A r \in Requests : request'[r] # request[r] => request'[r].pc # "checked"
        PROVE  ResetsAll'
    BY <2>k DEF AfreshInv, ResetsAll
  <2>g. ASSUME NEW r \in Requests, NEW pc, GoTo(r, pc), pc # "checked" PROVE ResetsAll'
    BY <2>g, <2>k, <2>t, RequestMoves
  <2>e. ASSUME NEW r \in Requests, EndRequest(r) PROVE ResetsAll'
    BY <2>e, <2>k, <2>t, RequestEnds
  <2>s. ASSUME NEW x \in Jobs \ (stale \cup reflagged \cup crashed), step'[x] = step[x],
               force'[x] => force[x],
               status'[x] \in {"absent", "pending"} => status[x] \in {"absent", "pending"}
        PROVE  Afresh(x)'
    BY <2>s, SameRows DEF AfreshInv, Afresh
  <2>u. ASSUME UNCHANGED <<status, step, force>>, stale \subseteq stale',
               reflagged \subseteq reflagged', crashed \subseteq crashed', ResetsAll'
        PROVE  AfreshInv'
    BY <2>u, <2>s DEF AfreshInv
  <2>1. ASSUME NEW r \in Requests, NEW j \in Jobs, CheckCreate(r, j) PROVE AfreshInv'
    <3>1. /\ \A s \in Requests \ {r} : request'[s] = request[s]
          /\ request'[r].op = "create" /\ request'[r].seen = "absent"
      BY <2>1, <2>t DEF CheckCreate, RequestIdle
    <3>2. ResetsAll'
      BY <3>1 DEF AfreshInv, ResetsAll
    <3> QED
      BY <2>1, <3>2, <2>u DEF CheckCreate
  <2>2. ASSUME NEW r \in Requests, NEW j \in Jobs, NEW op, ReadJob(r, j, op) PROVE AfreshInv'
    <3>1. /\ \A s \in Requests \ {r} : request'[s] = request[s]
          /\ request'[r].pc = "read"
      BY <2>2, <2>t DEF ReadJob, RequestIdle
    <3> QED
      BY <2>2, <3>1, <2>k, <2>u DEF ReadJob
  <2>3. ASSUME NEW r \in Requests, CommitCreate(r) PROVE AfreshInv'
    <3>1. request[r].job \in Jobs /\ status[request[r].job] = "absent"
      BY <2>3, <2>t DEF CommitCreate, CreateInv, CreateLocks
    <3>2. ResetsAll'
      BY <2>3, <2>g DEF CommitCreate
    <3>3. \A x \in Jobs : status'[x] = "pending" => status[x] \in {"absent", "pending"}
      BY <2>3, <3>1, <2>t DEF CommitCreate
    <3>4. \A x \in Jobs : status'[x] = "absent" => status[x] = "absent"
      BY <2>3, <3>1, <2>t DEF CommitCreate
    <3> QED
      BY <2>3, <3>2, <3>3, <3>4, <2>s DEF CommitCreate, AfreshInv
  <2>4. ASSUME NEW r \in Requests, CheckRequeue(r) PROVE AfreshInv'
    <3>1. CASE EndRequest(r)
      BY <2>4, <3>1, <2>e, <2>u DEF CheckRequeue
    <3>2. CASE ~EndRequest(r)
      <4>1. PICK k \in 1..(NSteps + 1) : ResetFrom(r, k) /\ PassChecks(r, k)
        BY <2>4, <3>2 DEF CheckRequeue
      <4>2. /\ \A s \in Requests \ {r} : request'[s] = request[s]
            /\ request'[r].from = k
            /\ request'[r].op = request[r].op /\ request'[r].seen = request[r].seen
        BY <4>1, <2>t DEF PassChecks, RequestState
      <4>3. request[r].op = "rebuild" \/ request[r].seen = "cancelled" => k = 1
        BY <4>1 DEF ResetFrom
      <4>4. ResetsAll'
        BY <4>2, <4>3 DEF AfreshInv, ResetsAll
      <4> QED
        BY <2>4, <4>4, <2>u DEF CheckRequeue
    <3> QED
      BY <3>1, <3>2
  <2>5. ASSUME NEW r \in Requests, CommitRequeue(r) PROVE AfreshInv'
    <3>1. request[r].job \in Jobs
      BY <2>5, <2>t DEF CommitRequeue
    <3>2. ResetsAll'
      BY <2>5, <2>g, <2>e DEF CommitRequeue
    <3>3. ASSUME NEW x \in Jobs \ (stale' \cup reflagged' \cup crashed') PROVE Afresh(x)'
      <4>1. x \notin stale \cup reflagged \cup crashed
        BY <2>5, <3>3 DEF CommitRequeue
      <4>2. CASE x # request[r].job \/ ~Exists(request[r].job)
        <5>1. step'[x] = step[x] /\ force'[x] = force[x] /\ status'[x] = status[x]
          BY <2>5, <2>t, <3>1, <4>2 DEF CommitRequeue
        <5> QED
          BY <4>1, <5>1, <2>s
      <4>3. CASE x = request[r].job /\ Exists(x)
        <5>1. /\ ~Overtaken(r, x) /\ ~PutsFlagBack(r, x)
              /\ force'[x] = (request[r].force \/ request[r].op = "rebuild")
              /\ \A k \in Steps : step'[x][k] = IF k < request[r].from THEN step[x][k] ELSE "pending"
          BY <2>5, <2>t, <3>1, <3>3, <4>3 DEF CommitRequeue
        <5>2. request[r].op \in {"retry", "rebuild"} /\ request[r].seen \in Accepted
          BY <2>5 DEF CommitRequeue, Requeues, Phases
        <5>3. CASE request[r].from = 1
          <6>1. \A k \in Steps : step'[x][k] = "pending"
            BY <5>1, <5>3 DEF Steps
          <6> QED
            BY <6>1 DEF Afresh, Undone
        <5>4. CASE request[r].from # 1 /\ request[r].op = "retry" /\ request[r].seen = "pending"
          <6>1. status[x] = "pending" /\ Undone(x) \subseteq Undone(x)'
            BY <5>1, <5>4 DEF Overtaken, Undone
          <6>2. Undone(x)' \subseteq Steps
            BY DEF Undone, Steps
          <6>3. force[x] => Undone(x) = Steps
            BY <4>1, <6>1 DEF AfreshInv, Afresh
          <6>4. force'[x] => force[x]
            BY <5>1, <5>4 DEF PutsFlagBack
          <6>5. force'[x] => Steps \subseteq Undone(x)'
            BY <6>1, <6>3, <6>4
          <6>6. force'[x] => Undone(x)' = Steps
            BY <6>2, <6>5
          <6> QED
            BY <6>6 DEF Afresh
        <5>5. CASE request[r].from # 1 /\ request[r].op = "retry" /\ request[r].seen = "failed"
          <6>1. status[x] = "failed" /\ ~InFlight(x)
            BY <5>1, <5>5 DEF Overtaken
          <6>2. ~force[x]
            BY <4>1, <6>1 DEF ResumeInv, AfterFailure
          <6>3. ~force'[x]
            BY <5>1, <5>5, <6>2 DEF PutsFlagBack
          <6> QED
            BY <6>3 DEF Afresh
        <5> QED
          BY <2>5, <5>2, <5>3, <5>4, <5>5 DEF Accepted, AfreshInv, ResetsAll, CommitRequeue
      <4> QED
        BY <4>2, <4>3
    <3> QED
      BY <3>2, <3>3 DEF AfreshInv
  <2>6. ASSUME NEW r \in Requests, CommitCancel(r) PROVE AfreshInv'
    <3>1. \A x \in Jobs : status'[x] \in {status[x], "cancelled"}
      BY <2>6, <2>t DEF CommitCancel
    <3>2. ResetsAll'
      BY <2>6, <2>e DEF CommitCancel
    <3> QED
      BY <2>6, <3>1, <3>2, <2>s DEF CommitCancel, AfreshInv
  <2>7. ASSUME NEW r \in Requests, CommitDelete(r) PROVE AfreshInv'
    <3>1. request[r].job \in Jobs
      BY <2>7, <2>t DEF CommitDelete
    <3>2. ResetsAll'
      BY <2>7, <2>e DEF CommitDelete
    <3>d. status'[request[r].job] = "deleted"
      BY <2>7, <2>t, <3>1 DEF CommitDelete
    <3>3. ASSUME NEW x \in Jobs, status'[x] = "deleted" PROVE Afresh(x)'
      BY <3>3 DEF Afresh
    <3>4. \A x \in Jobs \ {request[r].job} :
              step'[x] = step[x] /\ force'[x] = force[x] /\ status'[x] = status[x]
      BY <2>7, <2>t, <3>1 DEF CommitDelete
    <3>5. UNCHANGED <<reflagged, crashed>> /\ stale \subseteq stale'
      BY <2>7 DEF CommitDelete
    <3>6. ASSUME NEW x \in Jobs \ (stale' \cup reflagged' \cup crashed') PROVE Afresh(x)'
      <4>1. CASE x = request[r].job
        BY <3>d, <3>3, <4>1
      <4>2. CASE x # request[r].job
        BY <3>4, <3>5, <3>6, <4>2, <2>s
      <4> QED
        BY <4>1, <4>2
    <3> QED
      BY <3>2, <3>6 DEF AfreshInv
  <2>8. ASSUME NEW r \in Requests, Publish(r) PROVE AfreshInv'
    BY <2>8, <2>e, <2>u DEF Publish
  \* A worker: no request moves.
  <2>w. ASSUME UNCHANGED request PROVE ResetsAll'
    BY <2>w, <2>k
  <2>9. ASSUME NEW w \in Workers, NEW j \in Jobs, TakeMessage(w, j) PROVE AfreshInv'
    BY <2>9, <2>w, <2>u DEF TakeMessage
  <2>10. ASSUME NEW w \in Workers, LoadJob(w) PROVE AfreshInv'
    BY <2>10, <2>w, <2>u DEF LoadJob
  <2>11. ASSUME NEW w \in Workers, CheckHost(w) PROVE AfreshInv'
    BY <2>11, <2>w, <2>u DEF CheckHost
  \* A worker that marks the job it runs: the job is or comes in progress, or has ended.
  <2>m. ASSUME NEW w \in Workers, worker[w].job \in Jobs, UNCHANGED <<request, force, stale, reflagged, crashed>>,
               \A x \in Jobs \ {worker[w].job} : status'[x] = status[x] /\ step'[x] = step[x],
               worker[w].job \notin stale => status'[worker[w].job] \notin {"absent", "pending"}
        PROVE  AfreshInv'
    <3>1. ASSUME NEW x \in Jobs \ (stale' \cup reflagged' \cup crashed') PROVE Afresh(x)'
      <4>1. CASE x = worker[w].job
        BY <2>m, <3>1, <4>1 DEF Afresh
      <4>2. CASE x # worker[w].job
        BY <2>m, <3>1, <4>2, <2>s
      <4> QED
        BY <4>1, <4>2
    <3> QED
      BY <2>m, <2>w, <3>1 DEF AfreshInv
  <2>p. \A w \in Workers : worker[w].pc \in Running =>
            /\ worker[w].job \in Jobs
            /\ worker[w].job \notin stale => status[worker[w].job] \in InProgress
    BY <2>t DEF StatusInv, StatusFollows, Running
  <2>12. ASSUME NEW w \in Workers, MarkRunning(w) PROVE AfreshInv'
    <3>1. CASE UNCHANGED status
      BY <2>12, <3>1, <2>w, <2>u DEF MarkRunning
    <3>2. CASE status' = [status EXCEPT ![worker[w].job] = "running"]
      <4>1. worker[w].job \in Jobs
        BY <2>12, <2>t DEF MarkRunning
      <4>2. /\ status'[worker[w].job] = "running"
            /\ \A x \in Jobs \ {worker[w].job} : status'[x] = status[x]
        BY <3>2, <4>1, <2>t
      <4> QED
        BY <2>12, <4>1, <4>2, <2>m DEF MarkRunning
    <3> QED
      BY <2>12, <3>1, <3>2 DEF MarkRunning
  <2>13. ASSUME NEW w \in Workers, BeginStep(w) PROVE AfreshInv'
    <3>1. /\ worker[w].pc = "stepping"
          /\ UNCHANGED <<request, force, stale, reflagged, crashed>>
      BY <2>13 DEF BeginStep
    <3>2. CASE UNCHANGED <<status, step>>
      BY <3>1, <3>2, <2>w, <2>u
    <3>3. CASE ~UNCHANGED <<status, step>>
      <4>1. PICK k \in Steps :
                /\ status' = [status EXCEPT ![worker[w].job] = StatusDuring(k, @)]
                /\ step' = [step EXCEPT ![worker[w].job][k] = "running"]
        BY <2>13, <3>3 DEF BeginStep
      <4>2. /\ worker[w].job \in Jobs
            /\ worker[w].job \notin stale => status[worker[w].job] \in InProgress
        BY <3>1, <2>p DEF Running
      <4>3. \A x \in Jobs \ {worker[w].job} : status'[x] = status[x] /\ step'[x] = step[x]
        BY <4>1, <4>2, <2>t
      <4>4. worker[w].job \notin stale => status'[worker[w].job] \notin {"absent", "pending"}
        BY <4>1, <4>2, <2>t DEF StatusDuring, InProgress
      <4> QED
        BY <3>1, <4>2, <4>3, <4>4, <2>m
    <3> QED
      BY <3>2, <3>3
  <2>14. ASSUME NEW w \in Workers, InsertInstance(w) PROVE AfreshInv'
    BY <2>14, <2>w, <2>u DEF InsertInstance
  <2>15. ASSUME NEW w \in Workers, LinkInstance(w) PROVE AfreshInv'
    BY <2>15, <2>w, <2>u DEF LinkInstance
  <2>q. ASSUME NEW w \in Workers, worker[w].pc \in Running, NEW k \in Steps, NEW mark,
               step' = [step EXCEPT ![worker[w].job][k] = mark],
               UNCHANGED <<status, request, force, stale, reflagged, crashed>>
        PROVE  AfreshInv'
    <3>1. /\ worker[w].job \in Jobs
          /\ worker[w].job \notin stale => status[worker[w].job] \in InProgress
      BY <2>q, <2>p
    <3>2. \A x \in Jobs \ {worker[w].job} : status'[x] = status[x] /\ step'[x] = step[x]
      BY <2>q, <3>1, <2>t
    <3> QED
      BY <2>q, <3>1, <3>2, <2>m DEF InProgress
  <2>16. ASSUME NEW w \in Workers, PassStep(w) PROVE AfreshInv'
    <3>1. /\ worker[w].pc = "executing"
          /\ UNCHANGED <<status, request, force, stale, reflagged, crashed>>
      BY <2>16 DEF PassStep
    <3>2. UNCHANGED step \/ \E k \in Steps : step' = [step EXCEPT ![worker[w].job][k] = "succeeded"]
      BY <2>16 DEF PassStep
    <3> QED
      BY <3>1, <3>2, <2>q, <2>w, <2>u DEF Running
  <2>17. ASSUME NEW w \in Workers, FailStep(w) PROVE AfreshInv'
    <3>1. /\ worker[w].pc \in {"executing", "linking"}
          /\ UNCHANGED <<status, request, force, stale, reflagged, crashed>>
      BY <2>17 DEF FailStep
    <3>2. UNCHANGED step \/ \E k \in Steps : step' = [step EXCEPT ![worker[w].job][k] = "failed"]
      BY <2>17 DEF FailStep
    <3> QED
      BY <3>1, <3>2, <2>q, <2>w, <2>u DEF Running
  <2>18. ASSUME NEW w \in Workers, RecordResult(w) PROVE AfreshInv'
    <3>1. \A x \in Jobs : status'[x] \in {status[x], "failed", "succeeded"}
      BY <2>18, <2>t DEF RecordResult
    <3>2. UNCHANGED <<request, step, force, stale, reflagged, crashed>>
      BY <2>18 DEF RecordResult
    <3> QED
      BY <3>1, <3>2, <2>w, <2>s DEF AfreshInv
  <2>19. ASSUME NEW w \in Workers, ClearFlag(w) PROVE AfreshInv'
    <3>1. \A x \in Jobs : force'[x] => force[x]
      BY <2>19, <2>t DEF ClearFlag
    <3>2. UNCHANGED <<request, step, status, stale, reflagged, crashed>>
      BY <2>19 DEF ClearFlag
    <3> QED
      BY <3>1, <3>2, <2>w, <2>s DEF AfreshInv
  <2>20. ASSUME NEW w \in Workers, Crash(w) PROVE AfreshInv'
    BY <2>20, <2>w, <2>u DEF Crash
  <2>21. CASE UNCHANGED vars
    BY <2>21, <2>w, <2>u DEF vars
  <2>22. QED
    BY <2>1, <2>2, <2>3, <2>4, <2>5, <2>6, <2>7, <2>8, <2>9, <2>10, <2>11, <2>12, <2>13,
       <2>14, <2>15, <2>16, <2>17, <2>18, <2>19, <2>20, <2>21
       DEF Next, StartRequest, RequestStep, WorkerStep, ReadRetry, ReadRebuild, ReadCancel,
           ReadRelease, ReadDelete
<1>3. QED
  BY <1>1, <1>2, TypeCorrect, CreateCorrect, RunsCorrect, ResumeCorrect, PTL DEF Spec

\* When the run of a job that no outdated request and no crash has touched has failed, the
\* flag that makes a run wipe the instance directory is gone; and a run that sets out with
\* it does every step, unless a retry put it back after it had been cleared.
THEOREM LeftoverCorrect == Spec => []NoLeftoverRebuild
<1>1. TypeOK /\ Busy /\ StatusInv /\ ResumeInv /\ AfreshInv => NoLeftoverRebuild
  <2> SUFFICES ASSUME TypeOK, Busy, StatusInv, ResumeInv, AfreshInv PROVE NoLeftoverRebuild
    OBVIOUS
  <2>1. ASSUME NEW j \in Jobs, Settled(j), status[j] = "failed" PROVE ~force[j]
    BY <2>1 DEF ResumeInv, AfterFailure, Settled
  <2>2. ASSUME NEW w \in Workers, worker[w].pc \in {"loaded", "checked"}, worker[w].force,
               worker[w].job \notin stale \cup reflagged \cup crashed
        PROVE  worker[w].todo = Steps
    <3>1. worker[w].job \in Jobs
      BY <2>2, BusyJobs
    <3>2. force[worker[w].job] /\ worker[w].todo = Undone(worker[w].job)
      BY <2>2, <3>1 DEF ResumeInv, OnTrack
    <3>3. status[worker[w].job] = "pending"
      BY <2>2, <3>1 DEF StatusInv, StatusFollows, Starting
    <3> QED
      BY <2>2, <3>1, <3>2, <3>3 DEF AfreshInv, Afresh
  <2> QED
    BY <2>1, <2>2 DEF NoLeftoverRebuild
<1>2. QED
  BY <1>1, TypeCorrect, RunsCorrect, ResumeCorrect, AfreshCorrect, PTL
================================================================================
