# AutoFlow in TLA+

AutoFlow takes a requirement and a git repository, lets a chain of agents
(product, planner, reader, architect, coder, reviewer, acceptance) work on it in
an isolated worktree, and puts the result before a human. This directory holds
TLA+ models of the parts of it in which order, failure and concurrency decide
about correctness, the TLC configurations that check them on small instances,
and proofs that hold for every instance.

Paths such as `app/storage.py` are relative to the root of the repository;
`PROJECT.json` names, for every definition that models code, the lines it
stands for.

## The system

| Component | State it keeps | Operations | Hard behaviour |
|---|---|---|---|
| Durable job queue (`app/storage.py`) | tables `tasks`, `jobs` | `create_task`, `enqueue_job`, `recover_expired_jobs`, `lease_job`, `renew_job`, `complete_job`, `fail_job`, `cancel_job`, `cleanup_expired_data` | leases that expire under a live worker, retries with backoff, two rows per task that must agree |
| Server worker (`app/worker.py`, `app/main.py`) | worker threads, one lease renewer per run, a random owner name per process | `start`, `_run_loop`, `_execute_job`, `_renew_loop` | death of a thread, of a renewer or of the process between any two transactions |
| Task control (`app/workflow.py`, `app/api.py`) | none of its own | `start`, `cancel`, `approve` | each makes several transactions and interleaves with the worker and with itself |
| Workflow engine (`app/workflow.py`) | table `artifacts`, task status, locals of the run | `_run` and its stages, `_align_product_requirement`, `_acceptance_loop`, `_run_validation_cycle` | a run is cut off and resumed from artifacts; nested bounded loops |
| Repository (`app/repository.py`) | worktree, the user's repository | `create_worktree`, `copy_local_changes_to`, `write_changes`, `diff`, `apply_patch`, `commit` | git effects are not in the database transaction; the user works in the same repository |
| Runner gateway (`app/gateway.py`, `app/protocol.py`) | one session per connection, tables `runners`, `runner_messages` | `_register`, `_reconnect`, `_handle`, `_dispatch_control_messages` | duplicates, reconnects, a lease that ran out while the runner was away |
| Runner and transport (`app/runner.py`, `app/runner_transport.py`) | outbox and sequence numbers in a JSON file, queue of tasks, caches of tasks and artifacts in memory | connect, flush, acknowledge, mark, run a task; the storage calls of a run over WebSocket or HTTP | messages lost with the connection, replay after a restart, caches that a restart empties |
| Runner endpoints and tokens (`app/api.py`, `app/auth.py`) | table `runner_tokens` | register, lease, update, artifacts, events; issue a token | an answer that is lost after the server acted; a token replaced under a runner at work |
| Permission requests (`app/api.py`, `app/gateway.py`) | table `permission_requests` | request, decide, deliver the decision | decision, progress, lease and disconnection race |
| E-mail login (`app/email_auth.py`, `app/auth.py`) | login challenges, sessions | request a code, verify it, log out | check and insert in separate transactions, mail that cannot be sent |
| Publishing (`app/git_platform.py`, `app/api.py`) | artifacts `commit`, `merge_request`, the platform's branches | commit, push, create or reuse a merge request | overlapping requests; a push or a merge request without its record |
| Maintenance (`app/maintenance.py`) | retention limits | remove worktrees and old rows, back up | directories removed under a task that starts again |
| Task page (`app/static/app.js`, `app/api.py`) | selected task, detail, one event stream | select, refresh, act, stream | answers and stream messages of another selection; events that commit out of order |
| Alerts, desktop client, agents, sandbox, updater, projects and roles, configuration | nothing that others wait for | HTTP calls, command lines, single rows | none that a model of states would show |

Interactions: the API calls task control, which writes the rows that the
workers poll; a worker runs the engine in its own thread; the engine writes the
task row and the artifacts, the repository module the files; a runner is a
worker on another machine that talks to the gateway over a WebSocket and is
given its jobs through the same `lease_job`.

What makes each part correct:

* queue and workers: a job has one owner at a time, a finished job is not
  touched by a late worker, a queued task has a job and a running one a lease, no
  task is executed twice at the same time, retries are bounded, every task comes to rest;
* engine: what is delivered, applied or committed is what was reviewed and
  accepted; what is reported about the user's repository is true; a retry
  repeats no effect and skips no step; every run ends;
* runner protocol: every report takes effect once, across reconnects and
  restarts; no message of the server is skipped; a task that was given to a
  runner comes back, and what the user decided is not undone by a late report;
* a run on a runner: whoever is asked to approve sees all it produced, in its
  order, and a retry finds the worktree of the run before it;
* permissions: a task that waits can be decided, the decision arrives, and a
  denial ends the task;
* delivery: the result is committed once and only if accepted, a merge request
  shows it, and maintenance takes no worktree from a run;
* login: the newest code works, once and until it expires; the cooldown is kept;
* task page: what is shown is what is selected, and at the end it is complete.

## Modules

| Module | What it is |
|---|---|
| `JobQueue` | queue, server workers, renewers, task control, row clean-up |
| `JobQueue_proofs` | the theorems about `JobQueue`, and that it implements `LeaseService` |
| `MCJobQueue` | symmetry sets for TLC |
| `Workflow` | one task's runs from `_run` to `approve`, with worktree, artifacts and the user's repository |
| `Workflow_proofs` | the theorems about `Workflow` |
| `MCWorkflow` | the combinations of task options for TLC |
| `RunnerProtocol` | gateway sessions, the runner's outbox, receive loop and main thread, over connections that break |
| `RunnerProtocol_proofs` | the theorems about `RunnerProtocol` |
| `MCRunnerProtocol` | the instance for TLC |
| `LeaseService` | what the queue promises its users: the abstract specification that `JobQueue` implements |
| `RemoteRun`, `RemoteRun_proofs`, `MCRemoteRun` | the storage calls of a run on a runner, over both transports, and what the server shows of it |
| `Permissions`, `Permissions_proofs`, `MCPermissions` | permission requests between runner, gateway and owners |
| `Delivery`, `Delivery_proofs`, `MCDelivery` | approval, publishing and maintenance of a delivered task |
| `EmailLogin`, `EmailLogin_proofs`, `MCEmailLogin` | codes by e-mail, and sessions |
| `TaskView`, `TaskView_proofs`, `MCTaskView` | the task page of the web client, its requests and its stream |

In `JobQueue`, `Workflow` and `RunnerProtocol` a definition with an underscore in
its name (`Retries_OnceTooOften`, `MayApply_Unaccepted`, ...) is a deliberately
wrong variant of the definition before the underscore; in the other modules a
comment "A mutant of ..." marks it. Nothing uses it; putting it in the place of the
right one must make TLC report the property that `PROJECT.json` lists with it.
That is how the project keeps its properties from being vacuous.

### JobQueue

One action is one database transaction. `Storage` takes a lock and commits at
the end of every public method, so a method is atomic and the gap between two
methods is where others run. The handlers are therefore split:

| Code | Actions |
|---|---|
| `WorkflowEngine.start` | `StartRead` (read and check), `StartUpdate` (`update_task`), `StartEnqueue` (`enqueue_job`) |
| `WorkflowEngine.cancel` | `CancelRead`, `CancelJob`, `CancelUpdate`, `CancelFlag` |
| `WorkflowEngine.approve("complete")` | `ApproveRead`, `ApproveUpdate` |
| `_run_loop` | `Lease` (with the recovery that `lease_job` makes first), `LeaseNothing` |
| `_run_guarded` | `RunBegin`, `CheckCancelled` and `Enter` once per stage, `Finish`, `Announce`, or `RunCancelled`, `RunFailed`, `AnnounceFails` |
| `_execute_job` | `Observe` (the `get_task` after the run), then one of `SettleFailed`, `SettleCancelled`, `SettleDelivered`, `SettleUnexpected` |
| `_renew_loop` | `Renew` |
| `DurableTaskWorker.start` | `Boot` |
| `cleanup_expired_data` | `CleanupJob` |

What breaks is explicit: `Crash` (the process), `ThreadDies` (an exception out
of `_run_loop`, which has no handler), `RenewerDies`, `RequestDies`,
`AnnounceFails`. `Faults` says which of them may happen in a run and
`MaxFaults` how many.

Time is relative: a row counts the ticks its lease still runs and the ticks it
still waits; `Tick` lowers them. With `Punctual = TRUE` renewals and request
handlers take less than a tick; with `FALSE` they may be arbitrarily late, so a
lease can expire under a worker that is alive. `older` keeps `created_at` as the
order between the rows.

`disputed` is a history variable: the tasks for which the code's own protection
was passed by. A task enters it when a worker leases it between the admission of a
start (`StartRead`) and that start's `enqueue_job`, when a renewer of it dies, and
when a renewal that is due misses a tick. It is the exception of the properties
about who runs a task, and says exactly when they stop to hold.

The workflow is reduced to what the queue sees: a number of stages
(`Stages`), each of which checks for cancellation and writes `RUNNING`.

### Workflow

One action is one durable effect: an artifact, a git command or a task row.
`pc` is the point the run has reached; `Crash` can come at any point, loses the
locals (`loc`) and keeps the rest. The queue around it is reduced to its
effect: a run that is over is settled (`Settle`: a failed task stays failed or is
queued again), a run that was cut off is `lost` until its lease expires
(`Requeue`).

Data is abstracted to what a later step reads: `art` is the set of artifact
kinds that are stored, `loc.snap` the set that `_run` read at its beginning and
tests from then on; `spec` says whether the last specification was ready,
whether the last assessment approved, and whether the two belong to the same
round; `verdict` is what the acceptance gate made of the last review; `fresh` is
the set of artifacts and passed commands about the code as it now is, and every
write of code empties it; `tree` and `source` are the worktree and the user's
repository with the commits they stand on, and `source.code` says which code was
patched into the latter: none, that of the worktree (`"tree"`), or one that the
worktree held before its code was written again (`"older"`); `told` is what the last
manifest claims. What agents answer, whether a command passes and whether a patch
applies are nondeterministic choices.

### RunnerProtocol

Both sides number their messages and store them, so a message is its number:
`reports[n]` is the n-th report of the runner, `log[n]` the n-th message of the
server, and what travels are the numbers.

| Code | State and actions |
|---|---|
| `ProtocolState` (`pending`, `last_server_seq`, `registered`) | `pending`, `last`, `registered`; survive `RunnerCrash` |
| `_connection_loop`, `_receive_loop` | `Connect`, `Disconnect`, `ReceiveAck`, `ReceiveOpened`, `Flush`, `ReceiveAssign`, `ReceiveCancel`, `Mark`, `Heartbeat` |
| `_run_websocket`, `RemoteStorage` | `TakeTask`, `NextTask`, `CacheTask`, `RunProgress`, `RunEnds`, `TaskFinished` |
| `RunnerGatewaySession.run` | `OpenRegister`, or `OpenReconnect` and `AckReconnect`; then `Handle` or `HandleCut`, and the three `Dispatch...` actions in turn, `SessionEnds` |
| `runner_messages` | `received`, `log` |
| rows `tasks`, `jobs` | `status`, `cancelReq`, `job`, also written by `Start`, `Cancel`, `Approve` |

The two threads of the runner interleave: `ready` is set, the outbox flushed and
the message marked in three steps, and the main thread may send between any two.
A session is a coroutine, and all sessions share one event loop, so what it does
between two waits is one step. The server records a report in one transaction and
acts upon it in others; no other coroutine sees the gap, but the server can stop in it, or the handler
raise. `HandleCut` is that: the report is recorded, the effects stop anywhere
(`HalfStatus`, `HalfJob`), the session is over, and the repetition will count as a
duplicate; `torn` collects these reports. The handlers of the user are one step here; their
transactions are apart in `JobQueue`. When a connection breaks, the server
may notice it later, so that the old session goes on beside the new one
(`strayed` records that it sent something). A lease is fresh or `expired`; `late`
records that one ran out under a connected runner that still had the task.

### LeaseService

`LeaseService` has one variable, the phase, holder and number of grants of each
piece of work, and no clock, thread, retry or crash. `JobQueue` instantiates it
with a mapping of its `jobs` rows (`LeaseOf`): `pending` is waiting, `leased` held,
the three final states done, `attempts` the grants. Recovery of expired leases,
the lease that follows it in the same transaction, retries and restarts all map to `Hand`,
`Offer` and `Finish`; everything a thread does between its transactions stutters.
Owners are the thread names of all incarnations of the process, so that the
specification forbids a restarted process from mistaking an old lease for its own.

### RemoteRun

On a runner the engine writes through `RemoteStorage`, which has two transports.
With a message sender, every call is a report in the outbox and reads come from
caches in memory; without one, every call is an HTTP request. An artifact above
12 MiB is uploaded by HTTP in either case. The module is the sequence of storage
calls of `_run` (`BeginRun`, `ListArtifacts`, `RecordBranch`, `RecordWorktree`,
`Work`, `Deliver`, `Announce`, `ReportFailure`, `Explain`), each over both transports.

A request has an outcome: refused by the token check, lost before the server
acted, lost after it, or answered. Reports are handled in the order of the
connection, acted upon (`Handle`) or recorded and cut short (`HandleCut`); a break
loses what is under way, and the next connection flushes what was not acknowledged.
That a report is acted upon once is taken from `RunnerProtocol`. `disturbed` records
that a report or an upload passed one that waited, or that a report was cut short;
`torn`, that the record of the worktree was lost. `made` is what the run added, `shown` what it had added when it
reported the delivery; the properties compare the server's tables with them.

### Permissions

One gateway session is a coroutine that dispatches, receives and handles in
turn; the handlers of the owners run in threads and write the request, the task
and the job in separate transactions (`Resolve`, `WriteStatus`, `WriteJob`). The session
records a message first and acts on it later (`HandleFirst`, `HandleSecond`), which
is where `RestartServer` tears it. The runner's side is external, since the runner
of this repository does not send a `PermissionRequest` yet.

### Delivery

Approvals and publications are request threads that read the artifacts, then
commit, push, open a merge request and record, with the server stopping anywhere
(`Crash`). The cleaner lists stale worktrees, removes them and deletes rows in
three steps. The task may be started again at any time. Commits, the platform's
branch and its merge requests are counted rather than described.

### EmailLogin

`request_email_code` is six steps: the limit per client, the cooldown, the user,
the challenge, the mail, and the deletion of the challenge if the mail fails.
`verify_email_code` is the conditional update of the challenge, the look-up or
registration of the user and the session. A code is the request that made it.
`history` keeps the order in which challenges were made, since their rows go.

### TaskView

A call of the page is a record that is read by the server in two queries and
answered later, in any order; the user may click at any time. What goes on behind an
answer is a call of its own: the list that a refresh asks for next (`AnswerList`),
the selection behind an action (`AnswerPost`, `AnswerStart`). `late` records that an
answer came before that of an older call, or opened a stream for a task no longer
selected or beside the page's stream. Of the streams, `streams` holds the open ones, of which the page names at most one. Ids of events are drawn before their transactions commit, so that up to
`Processes - 1` lower ids may become visible after a higher one.

## Runs

| Run | Instance | What it shows |
|---|---|---|
| `queue_races` | 1 task, 2 workers, 2 overlapping requests, lease of 2 ticks, late renewals, one thread, renewer or event fault | `TypeOK`, `LeaseHeldByItsWorker`, `QueuedHasJob`, `SingleExecution`, `RunningHasLease`, `FinishedJobStaysFinished` |
| `queue_recovery` | 1 task, 2 workers, 1 request at a time, one crash, dead thread, dead renewer, dead handler or lost event; fairness | `AttemptsPerFault`, `TasksSettle` |
| `queue_shared` | 2 tasks, 1 worker, one crash; fairness | `TasksSettle`: sharing a worker starves no task; `ImplementsLeaseService` |
| `workflow_crash` | every relevant combination of options, 2 runs, 1 crash, 2 rounds of specification, 1 correction, 1 fix, the user's branch moves once; fairness | `TypeOK`, `DeliveredIsJudged`, `SyncReportIsTrue`, `OnlyAcceptedIsSynced`, `CommittedIsJudged`, `RunEnds` |
| `runner_link` | 1 task, 2 connections, 1 restart of the runner, reports that are recorded and cut short | `TypeOK`, `NothingLost`, `AtMostOnce`, `ReplayIsComplete` |
| `runner_stable` | 1 task, 2 attempts, 1 connection, 1 cancellation, 1 expired lease, 1 busy heartbeat; fairness | `ApprovedIsFinal`, `TasksComeBack` |
| `remote` | both transports, 2 attempts, 2 faults among lost requests, breaks, reports cut short, restarts and expired leases, 1 new token | `TypeOK`, `DeliveredIsShown`, `RetryFindsWorktree` |
| `permissions` | 2 requests, 2 owners, 2 leases, 1 report of progress, 1 break or restart; fairness | `TypeOK`, `WaitingCanBeDecided`, `DenialEndsTask`, `DecisionArrives` |
| `delivery` | 2 approvals, 2 publications to 2 branches, clean-up with both retentions, restarts of the task and the server | `TypeOK`, `CommittedOnce`, `OnlyAcceptedIsCommitted`, `MergeRequestShowsResult`, `RunKeepsItsWorktree` |
| `login` | 1 address, 3 requests, 2 clients that verify, 1 guess, mail that fails | `TypeOK`, `AcceptedCodeIsLive`, `CooldownBetweenAnswers`, `RedeemsNewestOnce` |
| `task_view` | 2 tasks, 2 processes that write events, 2 actions of the user at any time, 1 lost answer or broken stream | `ShownIsCurrent`, `EndedViewIsComplete` |
| `runner_orphan` | violation of `NoOrphan` | after a reconnect the main thread reports the end of the task between `ready.set()` and the flush of older reports; the server applies `TaskProgress` after `TaskCompleted`, and the task stays `RUNNING` with a completed job and blocks the runner |

### Conditions

Some properties carry a condition because the code keeps the promise only
under it, and the condition is part of what the run shows:

* `SingleExecution`, `RunningHasLease`: until the task is `disputed`. The check of
  the status and the `enqueue_job` of a start are separate transactions, so that a
  worker can lease the job in between and the start then makes it pending under the
  worker; and a lease whose renewer died or is late runs out under a live worker.
* `OnlyAcceptedIsSynced`: the comparison with the base only in the run that made
  the worktree; a retry skips the comparison of HEAD.
* `SyncReportIsTrue`: after a run was cut off between the patch and its record, the
  manifest may deny a synchronisation that happened. And a run that resumes behind the
  record repeats the "applied" of the run before it, also if it wrote the code again
  since; then the user's repository holds the older code, and what the property
  promises is that it held the code of this worktree when that was recorded.
* `NothingLost`: but for a report that was recorded and not acted upon to the end
  (`torn`).
* `ReplayIsComplete`: a runner that is cut off before `RegisterAck` registers
  again and is not sent what it missed; an old session that sends beside its
  successor uses up numbers that are then skipped.
* `ApprovedIsFinal`, `TasksComeBack`: on a connection that holds, as in
  `runner_stable`; over a break, a report that is sent again can undo an approval. And
  not after a lease ran out under a connected runner. The task is assigned a second
  time, reports of the first run settle the second lease, and the `TaskAccepted` of
  the second overwrites the outcome, even an approval.
* `DeliveredIsShown`: not when a report passed those that waited (the gap of
  `runner_orphan`, or the upload of a large artifact), nor when the server stopped
  between a report and its effects (`disturbed`).
* `RetryFindsWorktree`: not when the record of the worktree was lost (`torn`): the
  runner restarted, which empties `artifact_cache`, or a request failed between
  `create_worktree` and the artifact.
* `WaitingCanBeDecided`: not when the server stopped between recording the message
  and storing the request; the repetition counts as a duplicate.
* `DenialEndsTask`: not when the lease ran out meanwhile, the server stopped inside
  the handler, or an earlier approval had still to write `RUNNING`.
* `CooldownBetweenAnswers`: for requests that do not overlap.
* `RunKeepsItsWorktree`: not when the run began between the cleaner's list and its removals.
* `ShownIsCurrent`, `EndedViewIsComplete`: while no answer came late (`late`). The
  user may click as fast as he likes; what the client has nothing against is an
  answer that overtakes that of a later call, or that opens a stream for a task no
  longer selected. It then shows the task selected before, and a stream stays open
  that the page does not name.

### Observations

Behaviour met while modelling that differs from what the documentation says or
a reader would expect, and has no run of its own. Where it is the reason for one
of the conditions above, leaving that condition out makes TLC print the trace;
the others were found by reading the code against the model, and no property
states them.

* `README.md:370` bounds the attempts of a task; a lease lost to a crash costs an
  attempt, but neither recovery nor `lease_job` compares the count with the limit
  (`AttemptsPerFault` states what holds instead).
* `README.md:182`: a crash between `update_task` and `enqueue_job` leaves a queued
  task without a job, which no worker leases and `start` refuses (`Stranded`). Recovery
  keeps `available_at`, so a lost lease is retried without the backoff described there.
* Recovery writes `QUEUED` whatever the task row says, and the handler of a failed run
  `FAILED`: a task that was delivered, or approved, while its job was still leased is
  taken back after a crash, or when the event that announces the delivery cannot be
  written.
* `README.md:7`: a run fails between specification and assessment; the next one
  pairs the new specification with the old assessment.
* `README.md:11`: the copy of the local changes is refused after the worktree was
  recorded; the retry resumes behind it and codes without them.
* `README.md:184`: a crash between `apply_patch` and the artifact `source_sync`; the
  next manifest denies the synchronisation. A crash behind that artifact; the next
  run codes again, and its manifest claims the synchronisation of code that is not in
  the user's repository (`SyncSkipped`). A worktree directory without its
  artifact, after a crash or a restart of the runner, blocks every later run
  ("Worktree destination already exists"). The cleaner's `rmtree` leaves git's
  registration behind.
* `README.md:76`: a denied task is leased again after its lease was recovered. An
  approval after the lease lapsed leaves the task `RUNNING` with a pending job. The
  decision may reach the runner before its handler has written `RUNNING`.
* `README.md:147`: a report that the gateway recorded and did not act upon,
  since it stopped or the handler raised, is acknowledged as a duplicate when it is
  repeated, and is lost with its effects (`HandleCut`).
* A session of the gateway that outlives its connection uses up numbers of messages,
  and a runner that is cut off before `RegisterAck` registers again; the replay then
  skips messages.
* Over HTTP the runner neither renews nor completes its job, so that an expired
  lease runs a delivered task again (the test `tests/test_runner.py:102` looks before the
  expiry); the mode is not reachable from the runner's command line.
* Two overlapping starts both pass the check of the status, and the second queues a
  task that is queued or running; a worker that leased it in between then runs beside
  the one that leases it next. Two overlapping requests for a code by e-mail both pass
  the cooldown. The cleaner removes the worktree of a task that was started after
  its list was read. `approve` reads the acceptance agent's verdict and
  not the gate's, and may commit what was delivered as not accepted. A cancellation
  that reaches the runner before it begins the task is dropped. After a fix for a
  failing test the build is not repeated. With two faults, a cancel that raced with a
  lease followed by a crash leaves a task `RUNNING` whose job is cancelled.
  `update_task(branch=...)` on a runner makes no report. `fail_job` returns `False` also
  when the worker lost the job, and the worker then raises the alert for a pending one.

### Bounds

Two workers and two requests are the smallest numbers for which a stale worker
meets a new owner and two handlers overlap; a third adds no new pair. One task
suffices for the races since all actions but the choice of the oldest row
concern a single task; `queue_shared` has two for that choice. `MaxAttempts = 2`
is the smallest limit with a retry and an exhausted job. `LeaseTicks = 2` with
late renewals lets a lease expire at every point and tells a renewal that is late
from a lease that ran out; `LeaseTicks = 3` is the smallest for which the renewal interval (a third of the lease) is a whole tick
before the expiry. `MaxStarts = 2` gives a restart, and `AttemptCap` only keeps
the instances finite; it lies above every count that the checked properties
compare with. In `Workflow`, two runs show a run and its resumption, two
specifications and two acceptance rounds a correction, one fix a repeated
command, two commits a moved HEAD. In `RunnerProtocol`, two connections are the
smallest number with a replay and with overlapping sessions, and one restart
loses everything the runner keeps in memory; one expired lease gives a second
assignment of the task; every report may be cut short on either. Breaks and expiries are in separate runs because
together they exceed what TLC covers in minutes; larger combinations
(a cancellation or a heartbeat with two connections) were checked for the same
invariants and hold.

In `RemoteRun`, two faults are the smallest number with a break in the run and
another in its retry; two rows let one pass another. In `Permissions`, two owners
overlap, and a second request meets the decision about the first; `MaxLeases`
ends the sequence of expired leases so that liveness can be asked for. In
`Delivery`, two of each request overlap, and two ticks pass both retentions
between the artifacts of a run. In `EmailLogin`, the third request is the one that
meets an older request whose mail fails after a newer one was answered. In
`TaskView`, two streams are one more than the page names, and two processes give one
event that commits after a later id.

### Fairness

`JobQueue`: weak fairness of every admitted handler, worker thread, renewer and
of the restart: they are threads that the operating system schedules, and the
service is deployed with automatic restart (`compose.yaml`). Time has
strong fairness, since with `Punctual` a tick is disabled while a handler runs
and requests may come forever. There is no fairness for users, faults or
clean-up. Nothing is assumed of how a run ends: it may fail each time.

`Workflow`: weak fairness of the steps of a run, of an approval in progress and
of the recovery of a lost lease. Agents and commands have timeouts
(`app/agents.py`, `app/sandbox.py`), so a step ends with an answer or an
exception.

`RunnerProtocol`: weak fairness of the two threads of the runner, of every
session, of the end of a backoff and of a lease that runs out when nobody renews
it; none for the user, breaks, restarts or a lease that runs out early.

`Permissions`: weak fairness of the gateway session (with the reconnection of the
runner, which `_connection_loop` repeats for ever), of the runner that reads its
mail and of every owner's handler once it began; none for owners, breaks or
restarts. The remaining modules state safety only and have no fairness.

`TasksSettle` excludes two situations from which the code has no way out of its
own: a start that was cut off between its transactions (`Stranded`) and the death of every worker thread (`NoWorker`).

## Proofs

The theorems hold for every value of the constants: any number of tasks, threads,
connections, requests and users, any limit and timeout, and any number of the
faults a module knows. What they take for granted is named.

| Module | Theorem | Statement |
|---|---|---|
| `JobQueue_proofs` | `TypeCorrect` | `Spec => []TypeOK` |
| | `LeasesAreHeld` | `Spec => []LeaseHeldByItsWorker` |
| | `FinishedJobsRest` | `Spec => FinishedJobStaysFinished` |
| | `QueuedTasksHaveJobs` | `Spec => []QueuedHasJob`, if handlers finish |
| | `QueueImplementsLeaseService` | `Spec => ImplementsLeaseService` |
| | `LeasesAreWithinBudget` | `Spec => []AttemptsPerFault`, if `InTime` |
| | `TasksRunAlone`, `RunningTasksAreLeased` | `Spec => []SingleExecution`, `Spec => []RunningHasLease`, if `LeaseTicks > 1` |
| `Workflow_proofs` | `WorkflowTypes`, `DeliveriesAreJudged`, `ReportsAreTrue` | `Spec =>` always `TypeOK`, `DeliveredIsJudged`, `SyncReportIsTrue` |
| | `OnlyAcceptedReachesSource`, `CommitsAreJudged` | `Spec => OnlyAcceptedIsSynced`, `Spec => CommittedIsJudged` |
| `RunnerProtocol_proofs` | `ProtocolTypes`, `ReportsAreNotLost`, `ReportsActOnce`, `ReplayLeavesNoGap` | `Spec =>` always `TypeOK`, `NothingLost`, `AtMostOnce`, `ReplayIsComplete` |
| `Permissions_proofs` | `PermissionTypes`, `WaitingTasksCanBeDecided`, `DenialsEndTasks` | `Spec =>` always `TypeOK`, `WaitingCanBeDecided`, `DenialEndsTask` |
| `Delivery_proofs` | `DeliveryTypes`, `ResultIsCommittedOnce`, `CommitsAreAccepted`, `MergeRequestsShowResults`, `RunsKeepWorktrees` | `Spec =>` always `TypeOK`, `CommittedOnce`, `OnlyAcceptedIsCommitted`, `MergeRequestShowsResult`, `RunKeepsItsWorktree` |
| `EmailLogin_proofs` | `LoginTypes`, `AcceptedCodesAreLive`, `AnswersAreCooldownApart` | `Spec =>` always `TypeOK`, `AcceptedCodeIsLive`, `CooldownBetweenAnswers` |
| | `CodesAreRedeemedOnce` | `Spec => RedeemsNewestOnce` |
| `RemoteRun_proofs` | `RemoteTypes`, `DeliveryIsShown`, `WorktreeIsFound` | `Spec =>` always `TypeOK`, `DeliveredIsShown`, `RetryFindsWorktree` |
| `TaskView_proofs` | `PageShowsCurrent`, `EndedPageIsWhole` | `Spec =>` always `ShownIsCurrent`, `EndedViewIsComplete` |

### Assumptions

The modules assume of their constants what `app/config.py` demands: limits and
timeouts are naturals, the queue's are positive (`ConstantsAssumption`); the bounds of
the models are naturals. `DeliveryConstants` adds that worktrees are kept no longer
than artifacts, as in the default settings (30 and 90 days). `PowerAssumption` says that powers of two are positive naturals,
since exponentiation has no theory in the provers. Four theorems have a hypothesis of
their own, each a condition on constants that a run satisfies:

* `HandlersFinish` (`QueuedTasksHaveJobs`): neither the process nor a handler is cut
  off. Without it the statement is false: a start can be cut off between
  `update_task` and `enqueue_job`.
* `LeaseTicks > 1` (`TasksRunAlone`, `RunningTasksAreLeased`): the lease is longer than
  the interval between two renewals. `app/worker.py` renews at a third of
  `AUTOFLOW_JOB_LEASE_SECONDS`, but at least after a second; a lease of one second
  would expire under a live worker. Nothing is assumed of the speed of renewers and
  handlers, of how requests overlap or of what breaks: `disputed` says for each
  task from when on one of these has reached it.
* `InTime` (`LeasesAreWithinBudget`): the same, and renewals and handlers take less
  than a tick. These are the constants of `queue_recovery`; with late renewals, each
  lease that runs out under a live worker costs an attempt that no fault pays for.

### The inductive invariants

None of the properties is inductive as it stands. What each needs:

* `LeaseInv` (`JobQueue_proofs`). That a row has an owner exactly while it is leased
  and that an owner of this process is at work on it needs `LocalsOK` (a busy
  thread's `cur` is a task) and `OwnersOK` (no owner carries an incarnation later
  than `epoch`, so that a lease of an earlier process is not mistaken for one of this
  process). With it `FinishedJobsRest` is an argument per action: the owner clauses of
  `renew_job`, `complete_job` and `fail_job` fail on a finished row, which has no owner.
* `QueuedInv` adds `SettledAhead`: when a thread that is past its first write
  owns the job of a queued task, a start is about to enqueue it again.
* The refinement needs `LeaseInv` only: each write of a row is, through `LeaseOf`,
  a step of `LeaseService` or a stutter, and a lease goes to a thread that
  owns nothing because an owner is at work and a thread that leases is not.
* `BudgetInv` adds `RenewedInTime` (the next renewal comes before the lease it
  prolongs runs out), so that only a lease whose renewer is gone expires, and `Budget`:
  a job that can be leased again has an attempt left or a fault that paid for it.
* `AloneInv` says of every task that is not disputed (`Alone`): who runs it owns its
  job and renews it in time, so nobody can lease it; a run that has written its last
  status leaves it not running; a job that can be leased, and a start that is about
  to reset the job, belong to a task that nobody runs. Each clause needs the others:
  the start admitted on a failed task must not meet a thread that still runs it.
* `WorkflowInv` follows a run: `EvidenceGrows` says at each point which artifacts were
  made from the code as it is, `VerdictIsKnown` that the run remembers the gate's
  verdict and the manifest repeats it, `SnapshotHolds`, `ClaimsAreTrue` and
  `PatchIsRecorded` that what a run has read and claims of the
  synchronisation, and of the code that was patched, is still so after retries,
  crashes and new code.
* `ProtocolInv` of the runner protocol has a conjunct per part. For the reports it is
  `Ledger` and `Log`: a report leaves the outbox only by an acknowledgement,
  acknowledged is only what was recorded, and what was recorded was acted upon
  unless it is `torn`. For the replay it is `Replay`: marked,
  being handled and on the wire make up the server's whole log, in order; `Opening`
  counts registrations, so that one registration is enough to exclude a second log.
* `PermissionInv` follows the one thread of activity a task has: its job is pending,
  or being assigned, or the runner works and what it says is in flight, or its
  request is open or being decided. `OneAtATime` says that no two of these overlap
  while no lease was lost, no handler cut short and no result sent before its
  handler was done, and that a denial carried out has ended task and job.
* `DeliveryInv`: the result is in the worktree or on the branch and never in both,
  the artifact of the worktree is never younger than the verdict, and what a
  handler read before it waited for the lock still holds when it acts.
* `LoginInv`: the row that is not consumed is the newest of its address, a row is
  the work of one handler, and what a handler learnt from the cooldown stays true
  because the requests it follows make no more rows.
* `RemoteInv`: what the server has and what the outbox holds make up what the run
  made. `OutboxOK` orders the outbox and puts what is on the wire into it. `InStep`,
  as long as nothing was `disturbed`, says that the wire carries the outbox in order
  and without a gap (`WireInOrder`), that the tables hold a beginning of the rows the
  run made and the outbox the rest, each row once (`RowsInOrder`), that a delivery
  lies in the outbox behind exactly the rows it speaks of (`ViewsInOrder`), and that
  an artifact is only reported when the task is not, or will no longer be, a delivered
  one (`ArtifactsReopen`); without the last a retry could add to what the user is
  looking at. `WorktreeKnown` extends `RetryFindsWorktree` from the point where the
  engine looks to all others.
* `ViewInv`: as long as no answer was late, the page's calls are a queue.
  `CallsInOrder` says that a call for a task other than the selected one is followed
  by a selection; `OneStream`, that only the selected task has a stream;
  `PageIsCurrent`, that the page shows the selected task or waits for an answer that
  sets it again. `CallsAreWhole` is the part about the end of a run: a call that has
  read `ended` has read all events of the run, unless a start or a selection behind
  it will replace what it brings, and `PageIsWhole` follows.

Each of them was checked by TLC on the instance of the module's run before it was
proved.

### Only model-checked

* Everything with fairness (`TasksSettle`, `RunEnds`, `TasksComeBack`,
  `DecisionArrives`): liveness and `ENABLED` are beyond this prover.
* `ApprovedIsFinal`, for the one connection of `runner_stable`.
* `NoOrphan`, which the code violates: TLC shows the trace in `runner_orphan`.

## Not modelled

Project membership and roles, which are conditions on single rows; hashing,
cookies and encrypted credentials; the choice of context files and path checks in
the repository module; prompts and answers of the agents; the container command
line of the sandbox; the alert thread and its bounded queue, which feeds nothing
back; the desktop client, whose commands are serialised by one mutex; backup,
update, metrics, configuration and the rest of the web client. A transaction is
taken as atomic, as it is with SQLite under the storage lock; on PostgreSQL
several server processes interleave statements of `lease_job`.

## Plan

`LeaseTx`: the statements of `lease_job` under PostgreSQL isolation, and whether they
refine the atomic `Lease` of `JobQueue`.
