--------------------------------- MODULE Replica --------------------------------
(***************************************************************************)
(* The deployment of a MySQL replica (deploy_executors/mysql_replica.py and *)
(* the replica half of deploy_services.py): what one job knows of its       *)
(* master, how the steps come to know it, keep it, repair it and lose it    *)
(* again, over failures, retries and cancellations.                         *)
(*                                                                          *)
(* How requests, messages and workers meet over a job's status is the       *)
(* subject of DeployJob; here a request is one step, taken while no worker  *)
(* runs the job.                                                            *)
(***************************************************************************)
EXTENDS Naturals, Sequences, SequencesExt

CONSTANTS
    MaxRuns,     \* bound: times that a worker takes up the job
    None

VARIABLES
    status,      \* of the job
    steps,       \* its steps in order, with their statuses
    form,        \* what its user_params hold
    params,      \* what its resolved_params hold
    master,      \* the master: its server_id, and what the ledger has of it
    target,      \* the server_id that my.cnf on the target holds
    registered,  \* the server_id of the row it has in the ledger
    instance,    \* job.instance is set
    runs,        \* times a worker has taken it up
    late         \* history: the configure step counted as done although the
                 \* parameters did not have what it finds out

vars == <<status, steps, form, params, master, target, registered, instance, runs, late>>

--------------------------------------------------------------------------------
\* The platform's own number for the target's address and port, or another.
ServerIds == {"derived", "other"}

\* Steps that run a playbook and touch nothing else are left out.  The list of
\* a job from before replicas had their own is that of a single instance.
ReplicaSteps == <<"configure", "repl_bootstrap", "repl_semi_sync", "repl_setup", "repl_verify",
                  "register_cmdb">>
SingleSteps == <<"configure", "post_config", "register_cmdb">>
Codes == ToSet(ReplicaSteps) \cup ToSet(SingleSteps)
StepStatus == {"pending", "running", "succeeded", "failed"}

Pending(codes) == [n \in DOMAIN codes |-> [code |-> codes[n], status |-> "pending"]]
OldFailedAt(k) ==
    [n \in DOMAIN SingleSteps |->
        [code |-> SingleSteps[n],
         status |-> IF n < k THEN "succeeded" ELSE IF n = k THEN "failed" ELSE "pending"]]
Indexes(code) == {n \in DOMAIN steps : steps[n].code = code}
Done(code) == \E n \in Indexes(code) : steps[n].status = "succeeded"
Current == {n \in DOMAIN steps : steps[n].status = "running"}
Running(code) == \E n \in Indexes(code) : n \in Current

\* accounts: those for the dump and for replication; seen: the master's
\* server_id, found out by the configure step; install: where the master is
\* installed, by what it was found out
Forms == [sid : ServerIds \cup {None}, semi : BOOLEAN, host : BOOLEAN]
Installs == SUBSET {"sql", "process"}
Params == [accounts : BOOLEAN, root : BOOLEAN, sid : ServerIds, seen : ServerIds \cup {None},
           install : Installs, host : BOOLEAN]
Masters == [sid : ServerIds, root : BOOLEAN, node : BOOLEAN]

\* resolve_deploy_params: a server_id that the form gives, or the platform's.
Resolved(f) ==
    [accounts |-> FALSE, root |-> FALSE, sid |-> IF f.sid = None THEN "derived" ELSE f.sid,
     seen |-> None, install |-> {}, host |-> f.host]

\* resolve_mysql_replica_deploy_params adds the accounts of the master.
ReplicaResolved(f) == [Resolved(f) EXCEPT !.accounts = TRUE, !.root = TRUE]

NoJob ==
    /\ status = "none"
    /\ steps = <<>>
    /\ form = [sid |-> None, semi |-> FALSE, host |-> FALSE]
    /\ params = Resolved(form)

Init ==
    /\ NoJob
    /\ master \in Masters
    /\ target = None
    /\ registered = None
    /\ instance = FALSE
    /\ runs = 0
    /\ late = FALSE

--------------------------------------------------------------------------------
(* Requests and the master *)

\* A job is created with all that the form chose of the master, which must have
\* a root account on record.
Create ==
    /\ status = "none"
    /\ master.root
    /\ form' \in {f \in Forms : f.host = master.node}
    /\ params' = ReplicaResolved(form')
    /\ steps' = Pending(ReplicaSteps)
    /\ status' = "pending"
    /\ UNCHANGED <<master, target, registered, instance, runs, late>>

\* Or it is there from before, not begun or failed at its step n.  Its parameters
\* are taken to be today's and its steps to have done what steps of their codes
\* do, except that nobody asked the master.
Inherit ==
    /\ status = "none"
    /\ form' \in Forms
    /\ params' = ReplicaResolved(form')
    /\ \E n \in 0..3 :
        /\ steps' = OldFailedAt(n)
        /\ status' = IF n = 0 THEN "pending" ELSE "failed"
        /\ late' = (n > 1)
        /\ target' \in {t \in {None, params'.sid} : (n = 0 => t = None) /\ (n > 1 => t # None)}
        /\ registered' \in {r \in {None, params'.sid} : n < 3 => r = None}
    /\ UNCHANGED <<master, instance, runs>>

\* Only a job that waits can be cancelled, and only a failed one without an
\* instance released; both end as cancelled.
Cancel ==
    /\ \/ status = "pending"
       \/ status = "failed" /\ ~instance
    /\ status' = "cancelled"
    /\ UNCHANGED <<steps, form, params, master, target, registered, instance, runs, late>>

ResetFrom(n) ==
    [m \in DOMAIN steps |-> IF m >= n THEN [steps[m] EXCEPT !.status = "pending"] ELSE steps[m]]

Failed == {n \in DOMAIN steps : steps[n].status = "failed"}

\* A failed job goes on where it failed, with the parameters it has.
Resume ==
    /\ status = "failed"
    /\ \E n \in Failed :
        /\ \A m \in Failed : n <= m
        /\ steps' = ResetFrom(n)
    /\ status' = "pending"
    /\ UNCHANGED <<form, params, master, target, registered, instance, runs, late>>

\* A cancelled job starts over, and one whose failed step is no longer in its
\* list; one that waits already is handed out again, its steps as they are.  All
\* have their parameters resolved as those of any deployment are.
StartsOver == status = "cancelled" \/ (status = "failed" /\ Failed = {})

Refresh ==
    /\ status = "pending" \/ StartsOver
    /\ steps' = IF StartsOver THEN ResetFrom(1) ELSE steps
    /\ params' = Resolved(form)
    /\ late' = (status = "pending" /\ (late \/ Done("configure")))
    /\ status' = "pending"
    /\ UNCHANGED <<form, master, target, registered, instance, runs>>

\* The ledger of the master is edited.
EditMaster ==
    /\ \E r, n \in BOOLEAN : master' = [master EXCEPT !.root = r, !.node = n]
    /\ UNCHANGED <<status, steps, form, params, target, registered, instance, runs, late>>

--------------------------------------------------------------------------------
(* A worker runs the job *)

StatusOf(code) ==
    IF Indexes(code) = {} THEN "pending" ELSE steps[CHOOSE n \in Indexes(code) : TRUE].status

AppendedBug ==
    SelectSeq(steps, LAMBDA s : s.code # "post_config")
    \o SelectSeq(Pending(ReplicaSteps), LAMBDA s : Indexes(s.code) = {})

\* ensure_mysql_replica_job_steps: the steps of today, each with the status
\* that the job has for it.
Converted ==
    IF [n \in DOMAIN steps |-> steps[n].code] = ReplicaSteps THEN steps
    ELSE [n \in DOMAIN ReplicaSteps |->
            [code |-> ReplicaSteps[n], status |-> StatusOf(ReplicaSteps[n])]]

\* A message may find the job failed again.  The list is converted before the
\* host is looked at, which another job may have taken: the worker then stops.
Start ==
    /\ status \in {"pending", "failed"}
    /\ runs < MaxRuns
    /\ runs' = runs + 1
    /\ status' \in {"running", status}
    /\ steps' = Converted
    /\ UNCHANGED <<form, params, master, target, registered, instance, late>>

BeginStep ==
    /\ status = "running"
    /\ Current = {}
    /\ \E n \in DOMAIN steps :
        /\ steps[n].status # "succeeded"
        /\ \A m \in 1..(n - 1) : steps[m].status = "succeeded"
        /\ steps' = [steps EXCEPT ![n].status = "running"]
    /\ UNCHANGED <<status, form, params, master, target, registered, instance, runs, late>>

Finish ==
    /\ status = "running"
    /\ \A n \in DOMAIN steps : steps[n].status = "succeeded"
    /\ status' = "succeeded"
    /\ UNCHANGED <<steps, form, params, master, target, registered, instance, runs, late>>

End(code, outcome) ==
    steps' = [n \in DOMAIN steps |->
                IF n \in Indexes(code) THEN [steps[n] EXCEPT !.status = outcome] ELSE steps[n]]
Succeeds(code) == End(code, "succeeded") /\ status' = "running"
Fails(code) == End(code, "failed") /\ status' = "failed"

NeedAccounts == {"configure", "repl_bootstrap", "repl_setup"}

\* A playbook that leaves sid on the target fails over an account that it needs
\* and is not given, and may fail in any case, with its work done or not.
Playbook(code, sid) ==
    \/ (code \in NeedAccounts => params'.accounts) /\ target' = sid /\ Succeeds(code)
    \/ target' \in {target, sid} /\ Fails(code)

\* A number that is the master's gives way to the platform's own.
Repaired(p) == IF p.sid = p.seen THEN [p EXCEPT !.sid = "derived"] ELSE p

ConfigureUnprobedBug ==
    /\ Running("configure")
    /\ UNCHANGED params
    /\ Playbook("configure", params.sid)
    /\ UNCHANGED <<form, master, registered, instance, runs, late>>

\* The master is asked first, by a playbook of its own, which refuses a planned
\* number that is the master's; what else it says is kept.
Configure ==
    /\ Running("configure")
    /\ \/ /\ params.accounts /\ params.sid # master.sid
          /\ params' = Repaired([params EXCEPT !.seen = master.sid])
          /\ Playbook("configure", params'.sid)
       \/ UNCHANGED <<params, target>> /\ Fails("configure")
    /\ UNCHANGED <<form, master, registered, instance, runs, late>>

Bootstrap ==
    /\ Running("repl_bootstrap")
    /\ UNCHANGED params
    /\ Playbook("repl_bootstrap", target)
    /\ UNCHANGED <<form, master, registered, instance, runs, late>>

\* ensure_mysql_replica_root_credentials takes the password from the ledger if
\* the job has none.
RootAtHand == params.root \/ master.root
WithRoot(p) == [p EXCEPT !.root = TRUE]

\* The dump account asks the master itself; the process list of its host, if
\* one is known, is read as well.
BySql(p) == IF p.accounts THEN {"sql"} ELSE {}
ByProcess(p) == IF p.host THEN {"process"} ELSE {}

\* ensure_mysql_replica_master_install: what was found out before is kept.
WithInstall(p) ==
    IF p.install # {} THEN {p}
    ELSE {[p EXCEPT !.install = found] : found \in (SUBSET (BySql(p) \cup ByProcess(p))) \ {{}}}

\* A master that has no host on record when it is needed cannot be configured.
SemiSync ==
    LET p == [WithRoot(params) EXCEPT !.host = @ \/ master.node] IN
    /\ Running("repl_semi_sync")
    /\ \/ ~form.semi /\ UNCHANGED <<params, target>> /\ Succeeds("repl_semi_sync")
       \/ /\ form.semi /\ RootAtHand
          /\ \E q \in WithInstall(p) :
               /\ params' = q
               /\ q.host
               /\ Playbook("repl_semi_sync", target)
       \/ /\ form.semi
          /\ params' \in {params} \cup (IF RootAtHand THEN {WithRoot(params)} \cup WithInstall(p)
                                        ELSE {})
          /\ UNCHANGED target
          /\ Fails("repl_semi_sync")
    /\ UNCHANGED <<form, master, registered, instance, runs, late>>

\* The playbook writes the planned number to my.cnf if another is there, and
\* refuses the master's as far as it is known.
Setup ==
    LET p == Repaired(WithRoot(params)) IN
    /\ Running("repl_setup")
    /\ \/ /\ RootAtHand /\ p.sid # p.seen
          /\ params' = p
          /\ Playbook("repl_setup", p.sid)
       \/ /\ params' \in {params} \cup (IF RootAtHand THEN {WithRoot(params)} ELSE {})
          /\ UNCHANGED target
          /\ Fails("repl_setup")
    /\ UNCHANGED <<form, master, registered, instance, runs, late>>

Verify ==
    LET p == Repaired(params) IN
    /\ Running("repl_verify")
    /\ \/ p.sid # p.seen /\ params' = p /\ Playbook("repl_verify", p.sid)
       \/ UNCHANGED <<params, target>> /\ Fails("repl_verify")
    /\ UNCHANGED <<form, master, registered, instance, runs, late>>

\* The instance, its node, its accounts and job.instance are saved one after
\* the other; a job whose row is there without its knowing can never register.
\* One worker alone never finds the instance set: two of one job might.
Register ==
    /\ Running("register_cmdb")
    /\ \/ instance /\ UNCHANGED <<registered, instance>> /\ Succeeds("register_cmdb")
       \/ /\ ~instance /\ registered = None
          /\ registered' = params.sid
          /\ \/ instance' = TRUE /\ Succeeds("register_cmdb")
             \/ UNCHANGED instance /\ Fails("register_cmdb")
       \/ ~instance /\ UNCHANGED <<registered, instance>> /\ Fails("register_cmdb")
    /\ UNCHANGED <<form, params, master, target, runs, late>>

Next ==
    \/ Create \/ Inherit \/ Cancel \/ Resume \/ Refresh \/ EditMaster
    \/ Start \/ BeginStep \/ Finish
    \/ Configure \/ Bootstrap \/ SemiSync \/ Setup \/ Verify \/ Register

Spec == Init /\ [][Next]_vars

--------------------------------------------------------------------------------
(* Properties *)

TypeOK ==
    /\ status \in {"none", "pending", "running", "failed", "cancelled", "succeeded"}
    /\ \A n \in DOMAIN steps : steps[n].code \in Codes /\ steps[n].status \in StepStatus
    /\ form \in Forms /\ params \in Params /\ master \in Masters
    /\ {target, registered} \subseteq ServerIds \cup {None}
    /\ instance \in BOOLEAN /\ late \in BOOLEAN
    /\ runs \in 0..MaxRuns

\* Once replication is set up, master and replica have different numbers, and
\* the ledger has the one that the replica runs with, whatever the form asked
\* for and however often the job was resumed; except if the configure step of
\* this job was skipped as done when the parameters did not have what it finds
\* out: resolved anew behind it, or done by an old job that did not ask.
OwnServerId ==
    ~late =>
        /\ Done("repl_setup") => target # master.sid
        /\ Done("repl_verify") /\ registered # None => registered = target

\* A row appears in the ledger only when every other step of the job is done,
\* those included that an old job, taken up in the middle, did not have.
RegisteredLast ==
    [][status # "none" /\ registered' # registered =>
         \A code \in ToSet(ReplicaSteps) \ {"register_cmdb"} : Done(code)]_vars

\* A playbook that logs in to the master has the accounts for it, in a retried
\* job too: a cancelled one is said to run again in full (deploy_services.py,
\* retry_deploy_job).
RetryHasAccounts ==
    \A code \in NeedAccounts : Running(code) => params.accounts
================================================================================
