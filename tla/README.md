# dbatoolbox: TLA+ models, checks and proofs

dbatoolbox is a Django application for database administrators. It keeps an asset ledger of
hosts and database instances, deploys MySQL and Oracle instances with Ansible, runs scripts
and distributes files to hosts, probes the instances and offers a web terminal. Requests are
served by Django, long work is done by Celery workers that take messages from Redis, and both
sides share nothing but rows of a MySQL database. This directory models the parts where those
processes can get in each other's way, or where many sources feed one result, checks the models
with TLC and proves the central properties with TLAPS.

## 1. Inventory

| Part | State | Operations | Talks to | What is hard | What makes it correct |
|---|---|---|---|---|---|
| Deployment jobs (`apps/dbmgr/deploy_services.py`, `deploy_tasks.py`, `deploy_executors/base.py`) | `DbDeployJob` (status, params, instance), `DbDeployJobStep` | create, retry, force rebuild, cancel, release endpoint, delete; the executor's step loop | Celery queue, Ansible, the ledger | check-then-act on statuses across requests and workers, duplicate messages, crashes, resuming | one active job per host, one claimant per endpoint, one run per job, ledger written only on proof, resumable failures, no data wiped by accident |
| Replica deployment (`deploy_services.py` from 628 on, `deploy_executors/mysql_replica.py`) | `params`/`resolved_params` with the master's context | create, extra steps, discovery of the master's runtime, register | master instance rows, Ansible | parameters rebuilt by a retry, steps added to existing jobs | a replica never shares its master's `server_id`; what was discovered is kept |
| Deployment parameters (`profile_loader.py`, `deploy_constants.py`, `deploy_os_compat.py`) | profile cache | deep merge, endpoint, `server_id`, paths, my.cnf sections, OS rules | profiles on disk | precedence of merges, numeric ranges | merge laws, `server_id` in 1..2^32-1, supported OS |
| Parameter templates (`deploy_param_template_services.py`) | template and item rows | create, update, delete | deployment parameters | two savers, each clearing the other's default | one default per major version |
| Instance ledger (`apps/dbmgr/services.py`) | instances, clusters, deploy hosts, accounts | CRUD | deployment, probe | clear-then-set without a transaction | one primary node, one default account, cluster links agree |
| Probe (`probe_services.py`) and dashboard (`services.py`) | `probe_status` columns | probe one, probe all, count | ledger, TCP, SSH | overlapping rounds, edits and deletions during a round, forms that write old results back | the dashboard comes to tell the truth, a round's summary is what it shows |
| Batch scripts and file distribution (`apps/common/tasks.py`, `services.py`) | task and host rows | create, delete, run | Ansible, scp | hosts missing from a result, deletion while running, duplicate messages | counts agree with rows, no host stays running in a finished task |
| Hosts (`apps/common/services.py`, `templates/common/host_list.html`) | a host, its addresses and its accounts | create, update (the list is synchronised row by row), delete | everyone who connects to a host | two pages open on one host, a save cut short | one administrator, a business address first |
| Scripts, dictionaries, hardware, domains, machines (`apps/common/services.py`) | rows, category tree | CRUD of one row each | batch tasks | tree edits | not modelled |
| Web terminal (`apps/common/consumers.py`) | SSH client, channel, reader thread | connect, receive, disconnect | event loop, thread pool, SSH | thread against coroutine, closing while connecting, a pool used up | every connection opened is closed, threads come back |
| Ansible bridge, inventory, callback plugin | none | run a playbook, parse its output | external processes | timeouts, malformed output | a step passes only on success |
| Views, routing, settings, templates, playbooks, profiles | none | dispatch; run on the target | | | not modelled |

Facts about the platform the models rest on, all from the source: `ATOMIC_REQUESTS` is not
set (`dbatoolbox/settings/base.py`), so a save outside `transaction.atomic` commits by itself;
Celery's late acknowledgement is not enabled, so a message is gone once a worker has received it;
`save(update_fields=...)` on a row that no longer exists raises `DatabaseError`; the database is
MySQL with row locks, which a `SELECT ... FOR UPDATE` or an `UPDATE` holds until its transaction
ends. The last two are properties of Django and MySQL, outside `src/`. So is the Redis transport's
visibility timeout: a message a worker has prefetched but not begun within an hour is handed out
again. `RemoteTask` models that; `DeployJob` has duplicate messages only where a retry makes
them, which is the limit of its statements about messages.

## 2. What is modelled

| Module | Subject | Extends or instantiates |
|---|---|---|
| `DeployJob` | requests, messages and workers over the status of deployment jobs | `DeployPromise`, which it implements |
| `DeployPromise` | what the ledger promises its readers | |
| `Replica` | what one replica job knows of its master, step by step | |
| `DeployParams` | one deployment's parameters, from the form to my.cnf | |
| `ParamTemplate` | saves, deletions and loads of parameter templates | |
| `Members` | the deploy hosts and accounts below an instance | |
| `Ledger` | instances, clusters and the links between them | |
| `Probe` | rounds of the probe, the forms beside them, the dashboard | |
| `Terminal` | web terminals and the thread pool they share | |
| `Hosts` | a host with its addresses or its accounts | |
| `RemoteTask` | batch scripts and file distributions | |
| `MCDeployJob`, `MCRemoteTask` | symmetry for TLC | the module of that name |
| `MCLedger` | the ledger, and a replica's way into it, in one run | `Ledger`, `Members`, `Replica` |
| `MCConnections` | what the program keeps connected, in one run | `Terminal`, `Probe` |
| `MCCatalog` | what users describe, in one run | `ParamTemplate`, `Hosts`, `DeployParams` |
| `DeployJob_proofs`, `RemoteTask_proofs`, `Replica_proofs`, `Members_proofs`, `ParamTemplate_proofs` | theorems about one module | the module of that name, TLAPS |
| `MCLedger_proofs`, `MCConnections_proofs`, `MCCatalog_proofs` | theorems about the modules a composition brings together | the composition; `Members_proofs`, `Replica_proofs` and `ParamTemplate_proofs` for their parts of it |

The modules of `MCLedger`, `MCConnections` and `MCCatalog` share no rows (an instance's existence
excepted, which `Members` and `Ledger` each model for themselves), so a behaviour of these runs is
about one of them, chosen at the start by `area`: their states are added, not multiplied.
`Replica` and `DeployJob` divide the deployment: `DeployJob` has the interleaving of processes and
any step list, `Replica` has one worker at a time, requests as single steps, and what the steps do.

### DeployJob.tla

One module for the three sources that share the job rows, since their interleaving is the
subject. Rows of `DbDeployJob` and `DbDeployJobStep` are `status` and `step`; `instance` is
`job.instance_id # None`, `cmdb` the jobs that inserted a `DatabaseInstance` row, `force` the
flag `meta.force_rebuild`. `queue` counts a job's messages, `hostLock` is the row lock of
`select_for_update`. `worker` and `request` hold the local variables of a running function that
matter later: the status a request has read (`seen`), the first step it resets (`from`), the
steps a worker will run (`todo`), the copies of the flag and the instance it loaded.

| Code | Actions | What one action is |
|---|---|---|
| `create_deploy_job` | `CheckCreate`, `CommitCreate`, `Publish` | from the row lock to the checks; the commit; `delay()` |
| `retry_deploy_job`, `force_rebuild_deploy_job` | `ReadRetry`/`ReadRebuild`, `CheckRequeue`, `CommitRequeue`, `Publish` | the read outside the transaction; resets and checks in it; the commit; `delay()` |
| `cancel_deploy_job`, `release_deploy_job_endpoint` | `ReadCancel`/`ReadRelease`, `CommitCancel` | the read with its guard; the save |
| `delete_deploy_job` | `ReadDelete`, `CommitDelete` | the same for `job.delete()` |
| `run_db_deploy_job` | `TakeMessage` | receipt of the message and the status guard |
| `BaseDeployExecutor.run` | `LoadJob`, `BeginStep`, `PassStep`, `FailStep` | the second read; the status and step saves before a step; the saves after it |
| `mark_job_running` | `CheckHost`, `MarkRunning` | the check that may raise; the save |
| `register_instance_from_job` | `InsertInstance`, `LinkInstance` | the first and the last of its separate commits |
| `mark_job_finished` | `RecordResult`, `ClearFlag` | its two saves |
| (death of a worker process) | `Crash` | the worker forgets everything, the database nothing |

What is left out, and why it does not matter to the properties: the wording of errors, times,
output; `resolved_params` but for the endpoint and the flag (an endpoint is fixed by `params`,
which nothing edits); the job types that cannot be rebuilt and, for Oracle, have no endpoint
check at creation (their executor is the same base class). `BeginStep` joins the status save
and the step save; nothing between them is read by another process in a way the properties tell
apart. The refusals of a request before it changes or locks anything are not steps.

In every module the operators named `...Bug` are not part of the model. Each is the body of an
action or check as a plausible mistake would leave it; with it in place TLC finds the property it
is paired with (PROJECT.json, `mutants`) violated.

**Outdated reads.** The code reads a status, decides, and writes later, mostly without a lock.
The history variable `stale` collects the jobs for which such a write came too late: the status
had changed since it was read or a worker was already on the job (`Overtaken`), a message for it
was still due (`MessageDue`), or another request on the same host had passed its checks
before this one committed (`Outdated`, `CheckedOnHost`). The exclusion properties hold of all
other jobs. That is a strong statement, since a single request acting at its leisure never
makes a job stale: it says that the guards are right and complete for every order of
operations, crashes and failures, and that what is left is exactly the missing row lock. The
two safety properties of most weight, `KeepsPromise` and `InProgressHasWorker`, do not need the
proviso. `OneJobPerHost` (below) shows what happens without it.

One write out of date is kept apart, in `reflagged`. `_enqueue_job_as_pending` saves `params` and
`resolved_params` whole, so a retry that read a failed job before its worker's `ClearFlag` puts the
flag back after it (`PutsFlagBack`). The status it read is the status it overwrites, hence the job
is not stale, and `FailedIsResumable` holds of it; but its run wipes. `NoLeftoverRebuild` excepts
these jobs by name where it speaks of runs that set out, and `ResumeWipesNothing` is the run that
shows them.

### DeployPromise.tla

The abstract specification: what whoever reads the ledger may rely on. A row in the ledger
appears only after all earlier steps of its job succeeded, each after the one before it; an
endpoint has one row; a job is reported successful only when it is linked to its row.
`DeployJob` implements it with `proven <- passed`, `rows <- cmdb`, `linked <- {j : instance[j]}`
and `told <- {j : status[j] = "succeeded"}`: in spite of duplicate messages, overlapping runs,
deleted rows and crashes. A report may be withdrawn: a late `cancel` may overwrite `succeeded`.

### Properties

| Property | Says | Source |
|---|---|---|
| `TypeOK` | types | |
| `HostExclusive` | two jobs never occupy one host, by status or by a worker at work | `deploy_constants.py:314` |
| `EndpointExclusive` | an endpoint has one claimant among active jobs, failed jobs and ledger rows | `deploy_constants.py:261` |
| `OneRunPerJob` | no job is executed by two workers | `deploy_tasks.py:14` |
| `InProgressHasWorker` | a job in progress is being executed, or its worker died | `deploy_services.py:810-823` |
| `FailedIsResumable` | a failed job has done the steps before the failed one and none after | `deploy_services.py:402` |
| `NoLeftoverRebuild` | a failed job has lost its wipe flag, and a run that sets out with the flag has every step to do, unless a retry put the flag back | `deploy_services.py:347`, `:375` |
| `KeepsPromise` | refinement of DeployPromise | `base.py:25-60`, `deploy_services.py:560` |
| `ExecutionEnds` | no job stays in progress for ever | `base.py:34-60` |
| `QueuedJobStarts` | a pending job with a message starts, or is cancelled or deleted, unless another job of its host is active: that is the only reason to be turned away | `deploy_services.py:811` |

### RemoteTask.tla

Batch scripts and file distributions have the same tables, the same first saves and the same
`except` branch; one module has both kinds of task (`Scripts`, `Files`), which differ only in
what happens between marking the hosts and recording them. `task` and `host` are the two status
columns, `counts` the counters of the task row, `creation` how far a create request has come,
`queue` the messages, `worker` a worker's local variables: `hosts` (`host_objs`), `todo` (the
hosts its loop has still to record), `doomed` (those that will fail in any case), `ok` and `bad`.

| Code | Actions |
|---|---|
| `create_batch_task`, `create_file_dist_task` | `CreateTask`, `AddHost` for each host, `Publish`: each a commit of its own; `AbortCreate` if an insert fails |
| `delete_batch_task`, `delete_file_dist_task` | `DeleteTask`, at any time |
| the first saves of both tasks | `TakeMessage`, `StartRun`, `MarkHosts` |
| the playbook and its three kinds of result | `RunPlaybook` |
| fetching the source, connection data | `FetchSource` |
| the loop over the hosts | `RecordHost`; `TimeOut` is the exception of `subprocess.run` |
| the final `task.save()` | `Finish` |
| the `except` branch, and the branch without any address | `FailTask`, `FailHosts` |
| Redis and the operating system | `Redeliver`, `Crash` |

| Property | Says | Source |
|---|---|---|
| `RunCoversTargets` | a run works on all hosts chosen for its task | `common/services.py:491` |
| `CountsAgree` | the counters of a completed task are the numbers of its host rows | `common/tasks.py:230` |
| `NoHostLeftRunning` | a failed task, and a completed distribution, leaves no host running | `common/tasks.py:271` |
| `DeleteIsFinal` | no message, save or redelivery brings back a task that was deleted while nobody ran it | `common/tasks.py:129` |
| `TaskEnds` | no task stays running for ever, unless its worker died | `common/tasks.py:268` |

The provisos are the limits of the code, and each is an action of the model. A task that two
workers run at one time (`overlapped`; nothing in the code prevents it) may count wrongly and
leave hosts behind. A worker's last save is an insert if the row is gone, so a task deleted while
it runs comes back, without hosts. A host that a playbook's result does not mention keeps
`running` in a completed batch task: that is why `NoHostLeftRunning` says `t \in Files` there, and
why `CountsAgree` counts only rows with a result. A dead worker's task is never taken up again.

Left out: the output and times of a host, the contents of scripts, `total_count` (fixed at
creation), deletion of hosts and scripts in use (`PROTECT` refuses it). A request that breaks off
leaves a pending task, some of its hosts and no message; nothing finds it later. A database that fails in
the middle of a run is left out too: the saves fail only where the row is gone.

### Replica.tla

One replica job. `form` is what its `user_params` choose (a `server_id`, semi-synchronous
replication, whether the master's host is known), `params` what its `resolved_params` hold: the
accounts for the dump and for replication (`accounts`), the root password, the planned `server_id`
(`sid`), the master's number as the configure step saw it (`seen`), by what the master's installation
was found out (`install`). `master` is the master and what the ledger has of it, `target` the
`server_id` in my.cnf on the target, `registered` the one in the job's ledger row.

| Code | Actions |
|---|---|
| `create_mysql_replica_deploy_job` (`deploy_services.py:1719`) | `Create`, with today's steps |
| a job from before replicas had steps of their own | `Inherit`: it has not begun, or has failed at any step of the old list |
| `cancel`, `release`, `retry_deploy_job` (381-510), `_refresh_job_resolved_params` (318) | `Cancel`, `Resume`, `Refresh` |
| the ledger's forms, for the master's root account and node | `EditMaster` |
| `MysqlReplicaExecutor` (`mysql_replica.py:25`), `ensure_mysql_replica_job_steps` (777) | `Start`, which converts the list of steps, with the statuses it has, and may then be turned away by the host check |
| `BaseDeployExecutor.run` | `BeginStep`, `Finish` |
| the probe of the master, `merge_master_runtime_into_job` (683) and the configure playbook | `Configure` |
| the other steps, with `ensure_mysql_replica_root_credentials`, `ensure_mysql_replica_master_install`, `repair_mysql_replica_slave_server_id` | `Bootstrap`, `SemiSync`, `Setup`, `Verify` |
| `register_replica_instance_from_job` (713) | `Register` |

Left out: steps that only run a playbook, the contents of the playbooks but for the accounts they
need, the number they refuse and the number they leave in my.cnf (external, from
`deploy/playbooks/mysql/replica/site.yml`). The master's own `server_id` does not change. Of an
inherited job the parameters are taken to be today's: what they were then, the repository does not
say. Conversion drops a step that today's list does not have, also one that had failed; a job that is
then turned away is failed without a failed step, and a retry resets and resolves it anew
(`StartsOver`).

| Property | Says | Source |
|---|---|---|
| `OwnServerId` | a replica that replicates has another number than its master, and the ledger has the number it runs with; unless its configure step counted as done although the parameters did not have what that step finds out (`late`: they were resolved anew behind it, or an old job had done it without asking) | `deploy_services.py:641`, `:683` |
| `RegisteredLast` | the ledger row comes after every other step, also for a job that is converted in the middle of its life | `deploy_services.py:777` |

### DeployParams.tla

The parameters of one MySQL deployment. A value stands for who gave it (profile, template item,
user, platform, master). `Resolve` is `resolve_deploy_params` with `_deep_merge` (`Override`), the
template (`WithTemplate`), `finalize_mysql_deploy_params` (`Finalized`) and
`build_mysql_cnf_sections` (`Built`: the fixed lines, then each item of the template that is neither
there nor reserved). `ConfigKeyOf` is the table of names that reach the configuration: it knows
`max_connections` and `binlog_format` by their underscores only, whereas my.cnf takes both spellings
for one name. The two loops over the template's items are recursive functions: `Merged(c)[n]`
and `Written(c)[n]` are what the loop has made after `n` items. What an item says is the constant
`ItemValue`: any value but none, for the code passes over an item without a value. `Probe` is
`merge_master_runtime_into_job`, which may come several times, once for every run of the configure
step. Of the configuration there is one key of each kind that the code treats in a way of its own:
an ordinary one, one that the binlog needs, one that only the master sets, the two switches and
`server_id`; of template items one for each of these and one that nothing but the template knows, in
both spellings.

| Property | Says | Source |
|---|---|---|
| `MyCnfWellFormed` | each parameter once, reserved names never from a template, GTID implies binlog implies the job's own `server_id`, before and after every answer of the master | `deploy_constants.py:395-607` |
| `Precedence` | the value in my.cnf is the one the reference order gives: the master's last answer, a blank one included, over the form, over an item of the template with underscores, over the profile; an item only the template knows is kept, in its first spelling | `profile_loader.py:22`, `deploy_param_template_services.py:112`, `deploy_constants.py:477` |

### ParamTemplate.tla

`template` are the committed rows, `save` the transactions under way, `load` a deployment that
loads a template. Django's MySQL backend sets the isolation to READ COMMITTED: a query
sees what is committed, an `UPDATE` examines one row after the other and waits only for a row that
meets its condition and is locked.

| Code (`deploy_param_template_services.py`) | Actions |
|---|---|
| `create_mysql_param_template`, `update_mysql_param_template` | `Create`, `Update` (validation), `ClearDefault` for each row, `WriteTemplate`, `Commit` or `Rollback` |
| `delete_mysql_param_template` | `Delete` |
| `apply_mysql_param_template_to_merged`, `load_enabled_mysql_param_template`, `load_enabled_mysql_param_template_by_title` | `BeginLoad`, `LoadByCode`, `CountByTitle`/`FirstByTitle`, `Apply`, `Deployed` |

| Property | Says | Source |
|---|---|---|
| `OneDefaultTemplate` | one default for each major version, unless two saves of a default overlapped | `:342` |
| `AppliedFits` | a deployment gets all the items of an enabled template of its own major version, unless that very template changed between its queries | `:73-146` |

The proviso `rival` is the limit of the code: two saves that each clear the other's default before
either commits leave two defaults, for the transactions lock only rows that exist and match.

### Members.tla and Ledger.tla

`Members` has the two tables below an instance, one in each behaviour (`kind`): deploy hosts with
`is_primary`, accounts with `is_default`. No request here opens a transaction, so every statement
is an action: the check, the insert or save, the `UPDATE` that clears the others (`ClearOthers`),
the search for a default and its save (`SeekDefault`, `SeekFirst`, `Promote`). A save of a row
deleted meanwhile inserts it again, except where `update_fields` is given. Registration by a
deployment (`RegisterInstance`, `InsertRegistered`) inserts rows without clearing any;
`DeleteInstance` takes them all; `Abandon` ends a request between two statements.

`Ledger` has instances and clusters: each form checks (`Check...`) and later writes (`Write...`),
with the foreign keys and cascades of the database at the moment of the write; `LinkPrimary`,
`UnlinkPrimary` and `DropCluster` are the further statements of a request.

| Property | Says | Source |
|---|---|---|
| `SinglePrimary` | two primary nodes exist only until the request that made the second has cleared the other | `services.py:465` |
| `OneDefault` | two accounts of an instance are default only while a request is about to clear the other, and none of several only while one is about to pick a default, whatever overlaps; the six causes below excepted | `services.py:471`, `:698`, `:761` |
| `EngineAgrees` | a cluster, its members and its primary are of one engine, whatever happened between a check and its write, unless the engine of the cluster itself was edited | `services.py:80`, `:152` |
| `MembershipFits` | an instance names a cluster exactly if its topology takes part in one, but for the two ways round the check (`adopted`, `orphaned`) | `services.py:80`, `:168`, `:209` |

The history variables name what the code does not guard against. `disturbed` takes in an instance
only by the statement that did it, and a request that sets the flag and clears the others, or a
registration of one default, takes it out again. The six causes are: an update that switches a
default off, moves it away or brings an instance its only account (`Unset`); a clear whose own
account has lost the flag meanwhile (`Bereaved`: two requests that each clear the other's); a pick
that is gone or not needed any more (`Mispicked`); a delete of an account that became the default or
moved since it was read (`Misread`); a registration refused a row, overtaken by others or copying a
master that has not one default (`Overtaken`, `OneAmong`); a death between first and last write
(`Halfway`). For nodes the last two are the only ones. An update of a password or of another
account, and requests that merely overlap, do not count. `edited`: no form refuses to change a
cluster's engine. `adopted`: a cluster takes whatever instance is chosen as its primary. `orphaned`:
`SET_NULL` on members that joined after the deletion had found none.

### Probe.tla

`BeginRound`, `Contact`, `SaveResult` and `EndRound` are `probe_all_instances`: the list is loaded
once, then target by target contacted and saved. Beat starts a round every minute
(`settings/base.py:170-175`), so rounds overlap. `LoadForm`, `SaveForm`, `Delete`,
`CreateInstance`, `CreateNode` are the users: a form saves the whole row, with the probe's column
as loaded; a row deleted under a round makes `save(update_fields=...)` raise and ends it. An address
is free text (`StoreAddress`): a host name with an empty label or one of more than 63 characters makes
`socket.create_connection` raise `UnicodeError`, which `_tcp_reachable` (`probe_services.py:27-34`)
does not catch, nor anything above it. `malformed` are the rows with such an address; a `Contact` of
one ends the round, this one and every later one.
`Overall`, `EngineSummary`, `CountedOf` are the dashboard's counts (`services.py:833-968`).

| Property | Says | Source |
|---|---|---|
| `SummaryAgrees` | what an undisturbed round counts is what the dashboard counts, engine by engine | `probe_services.py:206-241`, `services.py:900` |
| `DashboardSettles` (`ResultsSettle` in the run) | once users stop, every row before the first malformed address comes to show a result, and maintenance exactly where there is maintenance, for good; without malformed addresses that is every row | `probe_services.py:166`, `:27` |

### Terminal.tla

`handler` is how far a consumer has come, `ssh` and `chan` its connection and channel, `thread`
what runs for it in the event loop's pool, `queue` the work waiting for a thread. `connect()` is
`Reject` or `Accept`, then `StartThread`, `LoginSucceeds` or `LoginFails`, `Announce`; the reader
is `StartThread`, `EndReader`; `Leave`, `Cancel` and `Disconnect` are the browser, the server that
runs out of patience, and `disconnect()`. Bytes to and from the shell are left out.

| Property | Says | Source |
|---|---|---|
| `NoOrphanConnection` | a session that is over has no open connection, but for a shell that was refused after the login (`shellless`) | `consumers.py:72-91`, `:192` |
| `ThreadsComeBack` | whoever waits for a thread gets one or gives up | `consumers.py:67`, `:122` |

A consumer cancelled while it connects never comes to `disconnect()`: its connection stays open,
which is why the property speaks of sessions that are over.

### Hosts.tla

One host and one of its two tables (`table`), through the page that edits them: `Load` (the page
gets host and rows), `Create` or `Check` and `SaveHost`, `ReadExisting`, `SyncEntry` for each row
sent, `DeleteOthers`; `Delete`; `Abandon` where a process ends. The lists a page can send are those
of `host_list.html:344-384`: rows loaded, in their order, and rows added.

| Property | Says | Source |
|---|---|---|
| `HostFits` | the checks of a list survive the row by row writing of it: one administrator, and a business address first, unless a listed row had been deleted | `common/services.py:740-792`, `:1300` |

## 3. Runs

The runs of `DeployJob` use `MCDeployJob`. Two jobs, two requests and two workers are the least
with which every pair of operations on one job, and on two jobs of one host, can overlap; three
steps are a precheck, a verify and a registration (the properties treat the steps before
registration alike). `MaxRequests` bounds the requests of a behaviour, `MaxQueue` the messages of
a job.

| Run | Instance | Result |
|---|---|---|
| `deploy_host` | two jobs of one host, two ports, 3 requests, 2 workers that may die | 1,090,585 states, holds |
| `deploy_recovery` | the same with one endpoint | 702,879 states, holds |
| `deploy_liveness` | two ports, 3 requests, 1 worker, no crashes, `FairSpec` | 128,979 states, holds |
| `deploy_doc_host` | `OneJobPerHost` | violated |
| `deploy_doc_cancel` | `RetryAfterCancelKeepsData` | violated |
| `deploy_doc_resume` | `ResumeWipesNothing`, one job, one worker | violated |
| `deploy_doc_ledger` | `FailedLeavesNoInstance` | violated |
| `replica_doc` | `RetryHasAccounts` | violated |
| `remote_task` | a script or a distribution, 2 hosts, 2 workers that may die, 2 messages | 340,227 states, holds |
| `ledger` | 2 instances, 2 clusters, 2 engines, 3 rows, 2 requests; one replica job, new or inherited, a worker takes it up at most 4 times | 1,746,970 states, holds |
| `connections` | 2 instances, one of them with a deploy host, whose address may be mistyped, 2 rounds, 2 edits; 2 terminals, 1 thread; `MCFairSpec` | 714,492 states, holds |
| `catalog` | 2 pages and 3 rows of one host; 2 templates, 3 saves, 2 at a time, 2 major versions; 2 items and 2 answers of the master | 1,673,122 states, holds |

Three requests reach create, then two re-enqueues, a cancel or a delete that overlap; that is
enough for every fault operator and for the violations, but for `deploy_doc_cancel`, which takes
four (create, rebuild, cancel, retry). `deploy_liveness` has one worker: that a run ends depends on
its own worker only, and that no status is left behind by runs which overlap is
`InProgressHasWorker`, in the safety runs. Its third request makes a second job of the host active
beside a queued one (a retry that checked before a create committed), so that the host check fails
and turns a job away; with two requests it never would. Requests and workers are interchangeable,
so the safety runs use symmetry; the liveness runs do not. Deadlock is not checked because the
system rests when users send nothing and the queue is empty.

`remote_task` has one task in each behaviour (`MaxTasks = 1`), of either kind: tasks share no
rows, and the workers they share are idle or on one of them, so a second task adds only
interleavings. Two hosts let a loop fail between the first and the last; two messages and two
workers let runs follow or overlap each other. `MaxQueue` bounds redeliveries waiting at a time,
not their number.

`ledger`: four runs of the replica's job reach a failure in any step, a resume, a refresh and a full
rerun. A row can move only between two instances; the third row is the one that is inserted,
or left as the default, when two are flagged. Two engines and two clusters let an instance change
cluster and a cluster change engine; a third request adds nothing that two that overlap do not.
`connections`: `MaxEdits` lets a form be loaded before and saved after a deletion or another edit;
one thread for two terminals makes one wait for the other, and a login queue behind a reader.
`Mistyped` is which rows may get a malformed address: the deploy host, which lies between the two
instances, so that there are rows before it and behind it, and it stops counting when its instance
is maintained or no longer a cluster.
`catalog`: `MaxList` rows in a form and `MaxId` ids let a list update one row, add one and drop
one beside another page; three saves of two templates are an old default, and two that overlap;
two items are the two spellings of one name, or two names.

**Fairness.** Weak fairness of each worker's and each request's own next step: an operating system
schedules the processes and each of their steps ends (playbooks run under a timeout,
`deploy_ansible.py`). Nothing obliges a user to send a request. `ExecutionEnds` is stated for
workers that do not die, because the code has no recovery of a dead worker's job (a hazard in
PROJECT.json). `QueuedJobStarts` starts from a message in the queue, for one lost between commit and
`delay()` is never sent again, and it excepts a job of whose host another job is active: that job's
message is consumed by the worker that turns it away, and it stays pending until somebody retries
it. In `RemoteTask` only workers are fair; `TaskEnds` allows for their death. In `Probe` rounds are
fair, because beat fires every minute for ever and each contact has a timeout; users are not, and
`MaxEdits` is what "once users stop" stands for. In `Terminal` the event loop and the pool go on, a
login ends within its timeout (`consumers.py:94-120`), and users leave in the end; a shell may run
for ever, and nobody cancels a consumer unless the server chooses to.

### Disagreements the runs show

1. **Two active jobs on a host** (`deploy_doc_host`).
   `docs/db-deploy-mysql-endpoint-release.md:22` allows one. Only create takes the Host row
   lock; a retry or rebuild checks without it, so two of them, or one and a create, may commit
   together. `mark_job_running` then rejects both, each because of the other, and both stay
   pending without a message.
2. **A cancelled rebuild is remembered** (`deploy_doc_cancel`).
   `docs/db-deploy-mysql-install-decision-guide.md:88` says that rerunning a cancelled job does
   not clean the instance directory. Cancelling a force rebuild does not clear its flag.
3. **A failed job with a ledger row** (`deploy_doc_ledger`). `docs/db-deploy-design.md:59` says
   a failed job has not written the ledger. Registration is several commits; the row it inserts
   first then blocks the job's own endpoint.
4. **A cancelled replica job cannot run again** (`replica_doc`). The docstring of
   `retry_deploy_job` (`deploy_services.py:384`) has a cancelled job rerun in full, and
   `docs/db-deploy-mysql-replica-guide.md:276` has the master's accounts in the parameters of
   every replica job. `_refresh_job_resolved_params` rebuilds the parameters as those of a single
   instance: without the accounts and without what earlier runs found out of the master. (Its endpoint
   is in `job.params["context"]` and comes back with it.) The rerun fails in configure, which has no
   account to ask the master with, or already in precheck if the form wants semi-synchronous
   replication on 5.7.
5. **A resumed job that wipes** (`deploy_doc_resume`). The docstring at `deploy_services.py:347` has
   the flag cleared at the end of a job so that continuing it cleans nothing, and
   `docs/db-deploy-mysql-install-decision-guide.md:86` says that it does not.
   `mark_job_finished` saves `failed` first and clears the flag afterwards; a retry that reads between
   the two saves the flag back (`deploy_services.py:375-378`). If the step that failed is precheck or
   prepare, the resumed run cleans the instance directory.

Two smaller ones are part of what the properties say and have no run of their own. A job of whose host
another job became active after the request is turned away by `mark_job_running`, before anything is
saved, and loses its message (`docs/db-deploy-design.md:41` leads from the message to the executor):
the exception in `QueuedJobStarts`. A template item spelled `max-connections` is not in
`PARAM_NAME_TO_CONFIG_KEY`, nor does the second look-up find it; the profile's value is written as a
fixed line and the item is skipped behind it, although `docs/db-deploy-design.md:536` puts the template
over the profile: `Precedence` says so of the items with underscores only.

## 4. Proofs

`DeployJob_proofs.tla` proves, for any sets of jobs, hosts, workers and requests, any number of
steps from three on, with and without crashes, and from `DeployAssumption` alone:

- `TypeCorrect`: `TypeOK`, together with `Busy` (a process that is not idle has a job).
- `InProgressCorrect`: `InProgressHasWorker` is inductive together with `TypeCorrect`.
- `CreateCorrect`: `CreateLocks` and `AbsentUntouched`. A create between check and commit holds
  its host's row lock, and its job exists for nobody else. Needed because a create does not
  count as overtaken by anybody: the lock is what protects it.
- `RunsCorrect`, hence `OneRunCorrect`: of a job that is not stale at most one of a message, a
  request about to send one and a worker exists, and the status fits the worker's phase
  (`StatusFollows`). `OneRunPerJob` alone is not inductive: two messages in the queue, or a
  message and a running worker, would lead out of it.
- `AloneCorrect`, hence `HostCorrect` and `EndpointCorrect`: the exclusion itself
  (`ActiveAlone`, `ClaimAlone`) and what a request that has passed its checks knows until it
  commits (`CheckedAlone`, `CheckedClaim`). A retry that resumes made no endpoint check; that it
  needs none, because a failed job never let go of its endpoint, is the reason for the
  `seen \notin {"pending", "failed"}` in `CheckedClaim`. Lemma `Quiet` says that every other
  action makes no job active or a claimant; `CommitsSeen` that a commit outdates all the
  checks it could falsify.
- `ResumeCorrect`, hence `ResumableCorrect` (`FailedIsResumable`), from `ResumeInv`: the steps of a
  job that nobody wrote to on an outdated read, and whose worker did not die, are done in order; a
  run knows exactly which are left and whether it wipes (`OnTrack`), which takes `RunsCorrect`, for
  with two runs neither would; and a failed job has a failed step, and its flag only while the run
  that is about to clear it lives (`AfterFailure`).
- `AfreshCorrect`, and with `ResumeCorrect` `LeftoverCorrect` (`NoLeftoverRebuild`): a job that waits
  with the flag set has everything still to do (`Afresh`), because a rebuild, and the retry of a
  cancelled job, reset all its steps (`ResetsAll`). The jobs in `reflagged` are the only others.
- `EvidenceCorrect`: a step marked succeeded, skipped or done by a run is in `passed`; needed,
  and inductive, also for jobs whose rows were reset, deleted or written by two runs.
- `PromiseKept`: `DeployJob` implements `DeployPromise`, from `EvidenceCorrect`; each action
  maps to one abstract action or to a stutter.

`RemoteTask_proofs.tla` proves every safety property of `RemoteTask` for any tasks, hosts and
workers, from `RemoteAssumption` (the hosts are finitely many, each task has at least one):

- `TypeCorrect`, with `Busy`.
- `DeleteCorrect`: `DeleteIsFinal`, from `GoneInv`. A task that is gone has no run, and none can
  begin; that a task nobody created has no message is needed for a creation not to revive it.
- `WholeCorrect`, hence `CoverCorrect` (`RunCoversTargets`): until the last host row is inserted
  there is no message and no run, and afterwards workers neither insert nor remove rows.
- `StatusCorrect`: of a task never run twice at a time there is one worker, and the task's status
  is that of the worker's phase.
- `CountCorrect`, hence `CountersCorrect` (`CountsAgree`). `CountsAgree` speaks of completed tasks
  only; `CountInv` says that a worker's counters are the cardinalities at every moment of its
  loop, that what it has still to do is still running, and that it begins with all hosts running,
  which is where `WholeInv` is needed.
- `SettleCorrect`: `NoHostLeftRunning`, from `SettleInv`: what still runs is what a distribution
  has still to do.

`Replica_proofs.tla` proves `TypeOK`, `OwnServerId` and `RegisteredLast` for any number of runs
(`MaxRuns \in Nat`).
`Shape`: the list of steps is today's, done up to a point and waiting after it, or the old list, no
step of which runs. A step that waits is pending, or it is the last one and failed: an old job that
failed in registration has new steps before the failed one after its conversion. `Known`: as long as
the job has its accounts, it has seen the master's number once configure is done, and from setup on
its target holds a number that is not the master's. `Lost`: once the parameters were resolved anew the
accounts are gone for good (`WorkAccounts`: no step brings them back), so that configure can never
again succeed; that is why `OwnServerId` survives a refresh and excepts only a configure step that
counts as done already (`late`).

`MCLedger_proofs.tla` proves of `Ledger` the properties `TypeOK`, `EngineAgrees` and
`MembershipFits` for any number of instances, clusters, engines and requests, assuming that None is
none of them and that instances and clusters have different keys (`Apart`), and that there is an
engine. `EngineAgrees` alone says nothing of forms that have checked and not yet written. `TieInv`
does: there is one engine for each instance and one for each unedited cluster, over all time, with
which every row and every form in progress agrees. These engines are no variables; the invariant
asserts that they exist, and a step that hands out a new key extends them. `IssuedInv` (only keys
handed out are pointed at) makes that extension free. `LedgerRows`, `LedgerPrimary`, `LedgerDefault`,
`LedgerServerId` and `LedgerRowLast` carry the theorems about `Members` and `Replica` over to the
composition the run checks (`Composed`).

`Members_proofs.tla` proves, for any instances, rows and requests:

- `MemberTypes`: `TypeOK`, from `TypeInv`. No row outlives its instance (`RowsLive`), and a request
  has the row and the instance that its next statement needs (`Ready`).
- `PrimarySingle` (`SinglePrimary`): an instance has one primary, or a request waits at
  `ClearOthers` for it. What makes that inductive is that no row outlives its instance, and that a
  registration has one row to insert, for a new instance.
- `DefaultAccount` (`OneDefault`), from `AccountsInv`. Each instance outside `disturbed` is `Good`: it
  has at most one default or a request that is about to clear the others, and at least one, or no
  account, or a request that is due to see to it (`Due`: one that seeks, that looks for the first one
  left, that promotes, or a registration with its default still to insert). No request needs to be
  alone for that. `StaysGood` says what a step of one request has to leave alone for an instance to
  stay in order; each statement either does, or makes it good (`OneIsGood`, `NoRowIsGood`), or is one
  of the six causes. So the proof shows that there are no other causes, for any number of accounts and
  of requests at a time. That ids not yet given are unknown (`Fresh`) and that no row outlives its
  instance (`RowsLive`) is needed for inserts and for instances that are created again.

`ParamTemplate_proofs.tla` proves `OneDefaultTemplate` and `AppliedFits` for any numbers of
templates, saves and major versions (None is no template row). For a major version without rivals
one save at a time makes a default (`Alone`), and each default that there is, other than its own
row, it has cleared or has yet to look at (`Covers`); a row behind its scan cannot become a default
except by a rival. `LoadInv` is the same for a load: what it found is there until somebody overtakes
it. `TemplateInv` adds the bounds (`Bounded`: ids and versions given so far), from which the
module's `TypeOK` follows.

`MCConnections_proofs.tla` proves, of the composition and from no assumption, that is for any
instances, rounds, edits, sessions and any pool:

- `ConnectionTypes`: types of both parts.
- `DashboardAgrees` (`SummaryAgrees`). A round counts along the targets, the dashboard counts rows,
  engine by engine and status by status. `Counted` is the invariant between them: as long as no
  form and no other round came in between, the round's counter of a status is the cardinality of
  the targets it has behind it and that show this status now. `CountedByEngine` turns the
  cardinality over all targets into the dashboard's sum over the four engines.
- `NoOrphan` (`NoOrphanConnection`): nothing is connected before the login is over (`BeforeLogin`),
  and a consumer that got its connection knows the channel, so that `disconnect()` closes both
  (`AfterLogin`).

`MCCatalog_proofs.tla` proves, from `CatalogAssumption`, for any number of pages, ids, rows in a
list, templates and saves, and for a template of any number of items with any values:

- `CatalogTypes`: types of the three parts.
- `HostKept` (`HostFits`), from `HostInv`. The form is checked as a list and written row by row,
  so the invariant is about half-written lists. `Halfway`: the rows kept so far and the rows still
  to be written make up the checked list. Of accounts, one administrator among the two; of
  addresses, the first kept row is a business address, and every listed id still to come is behind
  the ids kept. The latter is what the pages guarantee by listing rows in the order of their ids
  with new ones behind (`Ordered`), and it is why a listed row that had been deleted is the
  exception: it is inserted anew, with a higher id than rows behind it in the list.
- `SectionWellFormed` (`MyCnfWellFormed`) and `SourcesPrecede` (`Precedence`), from `ParamInv`: the
  section in force is the one built from the configuration in force, which is `Sound` (switches are
  set, GTID implies binlog, and a `server_id` is there exactly with binlog), has the
  `max_connections` and `binlog_format` of the reference order (`MaxGiven`, `FormatGiven`) until the
  master's last answer prevails, and a number that is not the master's.
  What is left is about the two loops. `MergedSteps` and `WrittenSteps` give their recursion
  equations, from `Iterated`: a function may be built one argument at a time. Along them,
  `MergeCombines` shows that of the two keys the table knows each has the value of the item with
  underscores, if there is one (`Taken`), and `Completed` that after `n` items the section has the
  fixed lines and, of each key not among them nor reserved, the first item's line, each key once
  (`Section`).

The library's induction theorems take an operator, which the provers here cannot instantiate.
`Induction` avoids that by speaking of a set of numbers; it follows from `FirstId`, which says
that a set of numbers has a least element, and that from the well-foundedness of `<` in the
library. Each use defines the set of those `n` for which the statement holds.

Only model-checked: the liveness properties `ExecutionEnds`, `QueuedJobStarts`, `TaskEnds`,
`ResultsSettle` and `ThreadsComeBack`, since fairness and ENABLED are out of TLAPS's reach. Every
invariant of every run that passes is proved.

## 5. Not modelled

- **A redelivered message of a deployment** (`deploy_tasks.py:14`). `RemoteTask` has Redis's
  visibility timeout, `DeployJob` has not; a redelivery there would be one more reason for a job to be
  stale.
- **A message that is never sent** (`deploy_services.py:284`). `QueuedJobStarts` starts from a
  message; nothing in the code re-sends one, so there is no property to state.
- **`server_id` among hosts** (`deploy_constants.py:359`). `Replica` and `DeployParams` keep a
  replica's number apart from its master's; that two deployments on different hosts take one number
  would need addresses with equal hashes.
- **The category tree** (`common/services.py:328`): nothing in the code forbids a cycle, so
  there is no rule to check.
- **Single-row CRUD**: hardware, domains, virtual machines, containers, scripts, dictionaries.
- **Ansible's bridge, inventory and interpreter probing, the choice of a package for an operating
  system, playbooks and profiles**: text and external processes. The models see what a step's
  outcome may be, and of the replica's playbook what it needs, refuses and leaves behind.
- **Views, routing, settings, pages**: read for which operations exist, which lists a page can
  send, and for the facts about the platform in section 1.
- **The Oracle executor**: the same base class as `DeployJob`'s, without the endpoint check at
  creation.
