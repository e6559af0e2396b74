------------------------------ MODULE JobQueue ------------------------------
(***************************************************************************)
(* The durable task queue of AutoFlow: the tasks and jobs tables           *)
(* (app/storage.py), the handlers that start, cancel and approve a task    *)
(* (app/workflow.py, called by app/api.py), the worker threads that lease  *)
(* and execute jobs with their lease renewers (app/worker.py), and the     *)
(* maintenance job that deletes finished rows.                             *)
(*                                                                         *)
(* One action is one database transaction, so a handler that makes         *)
(* several is several actions and anything may happen in between.          *)
(* Time is relative: a job counts down the ticks its lease still runs and  *)
(* the ticks it still waits, so no clock grows without bound.              *)
(***************************************************************************)
EXTENDS Integers

CONSTANTS
    Tasks,        \* the tasks, all assigned to the "server" target
    Workers,      \* the worker threads of the server process
    Requests,     \* the API handler threads: how many requests overlap
    LeaseTicks,   \* AUTOFLOW_JOB_LEASE_SECONDS, in ticks
    MaxAttempts,  \* AUTOFLOW_JOB_MAX_ATTEMPTS
    RetryBase,    \* AUTOFLOW_JOB_RETRY_BASE_SECONDS, in ticks
    Stages,       \* how many times one run of the workflow calls _enter
    MaxStarts,    \* bound: calls of start that are admitted
    AttemptCap,   \* bound: a job is not leased more often than this
    MaxFaults,    \* bound: faults that happen
    Faults,       \* the kinds of fault that may happen, see FaultKinds
    Punctual      \* TRUE: renewals and request handlers take less than a tick

FaultKinds == {"crash", "thread", "renewer", "request", "event"}

ASSUME ConstantsAssumption ==
    /\ LeaseTicks \in Nat \ {0}
    /\ MaxAttempts \in Nat \ {0}
    /\ RetryBase \in Nat \ {0}
    /\ Stages \in Nat \ {0}
    /\ MaxStarts \in Nat
    /\ AttemptCap \in Nat /\ AttemptCap > MaxAttempts
    /\ MaxFaults \in Nat
    /\ Faults \subseteq FaultKinds
    /\ Punctual \in BOOLEAN

\* Stated only because exponentiation has no theory in the provers.
ASSUME PowerAssumption == \A n \in 0..MaxAttempts : 2 ^ n \in Nat \ {0}

VARIABLES
    status,     \* tasks.status
    cancelReq,  \* tasks.cancel_requested
    job,        \* the row of each task in the table jobs
    older,      \* created_at: the tasks whose job row is older than this one's
    pc,         \* where each worker thread is
    cur,        \* the task it leased last
    stage,      \* the stages its run has entered
    seen,       \* the task status it read after the run
    renewIn,    \* ticks until its lease renewer fires, or NotRenewing
    epoch,      \* the incarnation of the server process
    req,        \* the request each API thread is handling
    starts,     \* how many starts were admitted so far
    faults,     \* how many faults happened so far
    alerted,    \* the tasks for which "task.retry_exhausted" was raised
    disputed    \* history: the tasks whose lease is no lock any more, see Disputes

tables  == <<status, cancelReq, job, older>>
workers == <<pc, cur, stage, seen, renewIn, epoch>>
vars    == <<tables, workers, req, starts, faults, alerted, disputed>>

-----------------------------------------------------------------------------
(* The rows and the program counters.                                      *)

TaskStatus == {"draft", "queued", "running", "waiting_approval",
               "completed", "failed", "cancelled"}

NoTask == "no task"

\* worker_id carries a fresh uuid per process, so no two incarnations of the
\* server share an owner name.
Owner(w)  == <<epoch, w>>
OwnerId   == Nat \X Workers
NoOwner   == <<>>

JobStatus == {"none", "pending", "leased", "completed", "failed", "cancelled"}
Finished  == {"completed", "failed", "cancelled"}

Job == [status : JobStatus, attempts : Nat, owner : OwnerId \cup {NoOwner},
        lease : 0..LeaseTicks, wait : Nat]

NoJob == [status |-> "none", attempts |-> 0, owner |-> NoOwner,
          lease |-> 0, wait |-> 0]

Released_KeepsOwner(j, s) == [j EXCEPT !.status = s, !.lease = 0]

\* What a transaction that gives up the lease writes.
Released(j, s) == [status |-> s, attempts |-> j.attempts, owner |-> NoOwner,
                   lease |-> 0, wait |-> j.wait]

Idle == [at |-> "idle", task |-> NoTask]

ReqAt == {"start_update", "start_enqueue", "cancel_job", "cancel_update",
          "cancel_flag", "approve_update"}
Req   == [at : ReqAt, task : Tasks] \cup {Idle}

\* A worker that holds a job is at one of these points of _execute_job.
Executing == {"run", "check", "enter", "finish", "announce", "cancel"}
Busy      == Executing \cup {"returned", "settle"}
WorkerAt  == Busy \cup {"idle", "dead", "down"}

NotRenewing   == -1
RenewInterval == IF LeaseTicks \div 3 > 1 THEN LeaseTicks \div 3 ELSE 1

Init ==
    /\ status = [t \in Tasks |-> "draft"]
    /\ cancelReq = [t \in Tasks |-> FALSE]
    /\ job = [t \in Tasks |-> NoJob]
    /\ older = [t \in Tasks |-> {}]
    /\ pc = [w \in Workers |-> "idle"]
    /\ cur = [w \in Workers |-> NoTask]
    /\ stage = [w \in Workers |-> 0]
    /\ seen = [w \in Workers |-> "draft"]
    /\ renewIn = [w \in Workers |-> NotRenewing]
    /\ epoch = 0
    /\ req = [r \in Requests |-> Idle]
    /\ starts = 0
    /\ faults = 0
    /\ alerted = {}
    /\ disputed = {}

Fault(kind) ==
    /\ kind \in Faults
    /\ faults < MaxFaults
    /\ faults' = faults + 1

-----------------------------------------------------------------------------
(* WorkflowEngine.start: get_task, then update_task, then enqueue_job.     *)

GoesTo(r, at, t) == req' = [req EXCEPT ![r] = [at |-> at, task |-> t]]
Answered(r)      == req' = [req EXCEPT ![r] = Idle]
At(r, at)        == req[r].at = at

CanStart(s) == s \in {"draft", "failed"}

\* A start was admitted and has yet to reset the job.
Starting(t) ==
    \E r \in Requests : req[r].at \in {"start_update", "start_enqueue"} /\ req[r].task = t

\* A task is disputed once a worker leased it behind the back of a start that was
\* about to reset its job, or a renewer of it died or was late by a tick.
Disputes(S) == disputed' = disputed \cup S

StartRead(r, t) ==
    /\ req[r] = Idle
    /\ starts < MaxStarts
    /\ CanStart(status[t])
    /\ GoesTo(r, "start_update", t)
    /\ starts' = starts + 1
    /\ UNCHANGED <<tables, workers, faults, alerted, disputed>>

StartUpdate(r) ==
    /\ At(r, "start_update")
    /\ status' = [status EXCEPT ![req[r].task] = "queued"]
    /\ cancelReq' = [cancelReq EXCEPT ![req[r].task] = FALSE]
    /\ GoesTo(r, "start_enqueue", req[r].task)
    /\ UNCHANGED <<job, older, workers, starts, faults, alerted, disputed>>

\* The upsert of enqueue_job: a row that exists keeps its created_at.
Enqueued == Released(NoJob, "pending")

HasRow(t) == job[t].status # "none"

StartEnqueue(r) ==
    LET t == req[r].task IN
    /\ At(r, "start_enqueue")
    /\ job' = [job EXCEPT ![t] = Enqueued]
    /\ older' = IF HasRow(t) THEN older
                ELSE [older EXCEPT ![t] = {u \in Tasks : HasRow(u)}]
    /\ Answered(r)
    /\ UNCHANGED <<status, cancelReq, workers, starts, faults, alerted, disputed>>

-----------------------------------------------------------------------------
(* WorkflowEngine.cancel: what it read decides which writes follow.        *)

CancelRead(r, t) ==
    /\ req[r] = Idle
    /\ status[t] \notin {"completed", "cancelled"}
    /\ GoesTo(r, IF status[t] = "queued" THEN "cancel_job" ELSE "cancel_flag", t)
    /\ UNCHANGED <<tables, workers, starts, faults, alerted, disputed>>

CancelJob(r) ==
    LET t == req[r].task IN
    /\ At(r, "cancel_job")
    /\ job' = IF job[t].status = "pending"
              THEN [job EXCEPT ![t] = Released(job[t], "cancelled")]
              ELSE job
    /\ GoesTo(r, "cancel_update", t)
    /\ UNCHANGED <<status, cancelReq, older, workers, starts, faults, alerted, disputed>>

CancelUpdate(r) ==
    /\ At(r, "cancel_update")
    /\ status' = [status EXCEPT ![req[r].task] = "cancelled"]
    /\ cancelReq' = [cancelReq EXCEPT ![req[r].task] = TRUE]
    /\ Answered(r)
    /\ UNCHANGED <<job, older, workers, starts, faults, alerted, disputed>>

CancelFlag(r) ==
    /\ At(r, "cancel_flag")
    /\ cancelReq' = [cancelReq EXCEPT ![req[r].task] = TRUE]
    /\ Answered(r)
    /\ UNCHANGED <<status, job, older, workers, starts, faults, alerted, disputed>>

-----------------------------------------------------------------------------
(* WorkflowEngine.approve.                                                 *)

ApproveRead(r, t) ==
    /\ req[r] = Idle
    /\ status[t] = "waiting_approval"
    /\ GoesTo(r, "approve_update", t)
    /\ UNCHANGED <<tables, workers, starts, faults, alerted, disputed>>

ApproveUpdate(r) ==
    /\ At(r, "approve_update")
    /\ status' = [status EXCEPT ![req[r].task] = "completed"]
    /\ Answered(r)
    /\ UNCHANGED <<cancelReq, job, older, workers, starts, faults, alerted, disputed>>

\* The client is gone, the database refuses the next statement, the thread is
\* killed: the handler stops between two of its transactions.
RequestDies(r) ==
    /\ req[r] # Idle
    /\ Fault("request")
    /\ Answered(r)
    /\ UNCHANGED <<tables, workers, starts, alerted, disputed>>

-----------------------------------------------------------------------------
(* Storage.recover_expired_jobs and Storage.lease_job.                     *)

Expired_AnyLease(j) == j.status = "leased"

Expired(j) == j.status = "leased" /\ j.lease = 0

RecoveredJobs_None == job

RecoveredJobs ==
    [t \in Tasks |-> IF Expired(job[t]) THEN Released(job[t], "pending")
                     ELSE job[t]]

RecoveredStatus_Kept == status

RecoveredStatus ==
    [t \in Tasks |-> IF Expired(job[t]) THEN "queued" ELSE status[t]]

Available(jobs) == {t \in Tasks : jobs[t].status = "pending" /\ jobs[t].wait = 0}

IsOldest_OfAllRows(t, S) == t \in S /\ older[t] = {}

\* ORDER BY created_at LIMIT 1
IsOldest(t, S) == t \in S /\ older[t] \cap S = {}

LeasedTo(j, w) == [status |-> "leased", attempts |-> j.attempts + 1,
                   owner |-> Owner(w), lease |-> LeaseTicks, wait |-> j.wait]

\* lease_job finds a job: recover the expired leases, take the oldest job that
\* is available, start the renewer.
Lease(w, t) ==
    /\ pc[w] = "idle"
    /\ IsOldest(t, Available(RecoveredJobs))
    /\ job[t].attempts < AttemptCap
    /\ job' = [RecoveredJobs EXCEPT ![t] = LeasedTo(RecoveredJobs[t], w)]
    /\ status' = RecoveredStatus
    /\ pc' = [pc EXCEPT ![w] = "run"]
    /\ cur' = [cur EXCEPT ![w] = t]
    /\ renewIn' = [renewIn EXCEPT ![w] = RenewInterval]
    /\ Disputes(IF Starting(t) THEN {t} ELSE {})
    /\ UNCHANGED <<cancelReq, older, stage, seen, epoch, req, starts, faults, alerted>>

\* lease_job finds none, but what it recovered is committed all the same.
LeaseNothing(w) ==
    /\ pc[w] = "idle"
    /\ Available(RecoveredJobs) = {}
    /\ job' = RecoveredJobs
    /\ status' = RecoveredStatus
    /\ UNCHANGED <<cancelReq, older, workers, req, starts, faults, alerted, disputed>>

-----------------------------------------------------------------------------
(* WorkflowEngine._run_guarded, cut down to what it does to the task row.  *)

Writes(w, s) == status' = [status EXCEPT ![cur[w]] = s]
Reaches(w, at) == pc' = [pc EXCEPT ![w] = at]

RunBegin(w) ==
    /\ pc[w] = "run"
    /\ Writes(w, "running")
    /\ Reaches(w, "check")
    /\ UNCHANGED <<cancelReq, job, older, cur, stage, seen, renewIn, epoch,
                   req, starts, faults, alerted, disputed>>

CheckCancelled(w) ==
    /\ pc[w] = "check"
    /\ Reaches(w, IF cancelReq[cur[w]] THEN "cancel" ELSE "enter")
    /\ UNCHANGED <<tables, cur, stage, seen, renewIn, epoch,
                   req, starts, faults, alerted, disputed>>

\* The rest of _enter, after the check.
Enter(w) ==
    /\ pc[w] = "enter"
    /\ Writes(w, "running")
    /\ stage' = [stage EXCEPT ![w] = @ + 1]
    /\ Reaches(w, IF stage[w] + 1 < Stages THEN "check" ELSE "finish")
    /\ UNCHANGED <<cancelReq, job, older, cur, seen, renewIn, epoch,
                   req, starts, faults, alerted, disputed>>

Finish(w) ==
    /\ pc[w] = "finish"
    /\ Writes(w, "waiting_approval")
    /\ Reaches(w, "announce")
    /\ UNCHANGED <<cancelReq, job, older, cur, stage, seen, renewIn, epoch,
                   req, starts, faults, alerted, disputed>>

\* add_event follows the delivery; if it raises, the run counts as failed.
Announce(w) ==
    /\ pc[w] = "announce"
    /\ Reaches(w, "returned")
    /\ UNCHANGED <<tables, cur, stage, seen, renewIn, epoch,
                   req, starts, faults, alerted, disputed>>

AnnounceFails(w) ==
    /\ pc[w] = "announce"
    /\ Fault("event")
    /\ Writes(w, "failed")
    /\ Reaches(w, "returned")
    /\ UNCHANGED <<cancelReq, job, older, cur, stage, seen, renewIn, epoch,
                   req, starts, alerted, disputed>>

RunCancelled(w) ==
    /\ pc[w] = "cancel"
    /\ Writes(w, "cancelled")
    /\ Reaches(w, "returned")
    /\ UNCHANGED <<cancelReq, job, older, cur, stage, seen, renewIn, epoch,
                   req, starts, faults, alerted, disputed>>

\* Any exception of a stage: an agent, git, the sandbox, a validation.
RunFailed(w) ==
    /\ pc[w] \in {"run", "check", "enter", "finish"}
    /\ Writes(w, "failed")
    /\ Reaches(w, "returned")
    /\ UNCHANGED <<cancelReq, job, older, cur, stage, seen, renewIn, epoch,
                   req, starts, faults, alerted, disputed>>

-----------------------------------------------------------------------------
(* DurableTaskWorker._execute_job after the run: get_task, then fail_job   *)
(* or complete_job, whichever the status it read calls for.                *)

Observe(w) ==
    /\ pc[w] = "returned"
    /\ seen' = [seen EXCEPT ![w] = status[cur[w]]]
    /\ Reaches(w, "settle")
    /\ UNCHANGED <<tables, cur, stage, renewIn, epoch,
                   req, starts, faults, alerted, disputed>>

Owns(w, t) == job[t].owner = Owner(w)

Retries_OnceTooOften(j) == j.attempts <= MaxAttempts

Retries(j) == j.attempts < MaxAttempts

Backoff(j) == RetryBase * 2 ^ (IF j.attempts > 1 THEN j.attempts - 1 ELSE 0)

FailedJob(j) ==
    IF Retries(j) THEN [Released(j, "pending") EXCEPT !.wait = Backoff(j)]
    ELSE [Released(j, "failed") EXCEPT !.wait = 0]

FailJob_AnyOwner(w, t) ==
    /\ job' = [job EXCEPT ![t] = FailedJob(job[t])]
    /\ status' = IF Retries(job[t]) THEN [status EXCEPT ![t] = "queued"]
                 ELSE status

FailJob_AlwaysQueues(w, t) ==
    IF Owns(w, t)
    THEN /\ job' = [job EXCEPT ![t] = FailedJob(job[t])]
         /\ status' = [status EXCEPT ![t] = "queued"]
    ELSE UNCHANGED <<job, status>>

\* fail_job; its result, "the job will be retried", is Retries and Owns.
FailJob(w, t) ==
    IF Owns(w, t)
    THEN /\ job' = [job EXCEPT ![t] = FailedJob(job[t])]
         /\ status' = IF Retries(job[t]) THEN [status EXCEPT ![t] = "queued"]
                      ELSE status
    ELSE UNCHANGED <<job, status>>

CompleteJob(w, t, s) ==
    /\ job' = IF Owns(w, t) THEN [job EXCEPT ![t] = Released(job[t], s)] ELSE job
    /\ UNCHANGED status

\* The finally clause stops the renewer; the thread leaves _execute_job, its
\* locals are gone, and it goes back to lease_job.
Settled(w) ==
    /\ Reaches(w, "idle")
    /\ cur' = [cur EXCEPT ![w] = NoTask]
    /\ stage' = [stage EXCEPT ![w] = 0]
    /\ seen' = [seen EXCEPT ![w] = "draft"]
    /\ renewIn' = [renewIn EXCEPT ![w] = NotRenewing]
    /\ UNCHANGED <<cancelReq, older, epoch, req, starts, faults, disputed>>

SettleFailed(w) ==
    LET t == cur[w] IN
    /\ pc[w] = "settle"
    /\ seen[w] = "failed"
    /\ FailJob(w, t)
    /\ alerted' = IF Owns(w, t) /\ Retries(job[t]) THEN alerted
                  ELSE alerted \cup {t}
    /\ Settled(w)

SettleCancelled(w) ==
    /\ pc[w] = "settle"
    /\ seen[w] = "cancelled"
    /\ CompleteJob(w, cur[w], "cancelled")
    /\ Settled(w)
    /\ UNCHANGED alerted

SettleDelivered_TaskStatus(w) ==
    /\ pc[w] = "settle"
    /\ seen[w] \in {"waiting_approval", "completed"}
    /\ CompleteJob(w, cur[w], seen[w])
    /\ Settled(w)
    /\ UNCHANGED alerted

SettleDelivered(w) ==
    /\ pc[w] = "settle"
    /\ seen[w] \in {"waiting_approval", "completed"}
    /\ CompleteJob(w, cur[w], "completed")
    /\ Settled(w)
    /\ UNCHANGED alerted

\* "Workflow stopped in unexpected state": another writer of the task row was
\* faster than get_task.
SettleUnexpected(w) ==
    /\ pc[w] = "settle"
    /\ seen[w] \in {"draft", "queued", "running"}
    /\ FailJob(w, cur[w])
    /\ Settled(w)
    /\ UNCHANGED alerted

-----------------------------------------------------------------------------
(* _renew_loop.                                                            *)

RenewDue(w) == renewIn[w] = 0

Renew(w) ==
    LET t == cur[w] IN
    /\ RenewDue(w)
    /\ IF job[t].status = "leased" /\ Owns(w, t)
       THEN /\ job' = [job EXCEPT ![t].lease = LeaseTicks]
            /\ renewIn' = [renewIn EXCEPT ![w] = RenewInterval]
       ELSE /\ renewIn' = [renewIn EXCEPT ![w] = NotRenewing]
            /\ UNCHANGED job
    /\ UNCHANGED <<status, cancelReq, older, pc, cur, stage, seen, epoch,
                   req, starts, faults, alerted, disputed>>

-----------------------------------------------------------------------------
(* What breaks.                                                            *)

\* renew_job raises: the renewer thread ends, the worker goes on.
RenewerDies(w) ==
    /\ RenewDue(w)
    /\ Fault("renewer")
    /\ renewIn' = [renewIn EXCEPT ![w] = NotRenewing]
    /\ Disputes({cur[w]})
    /\ UNCHANGED <<tables, pc, cur, stage, seen, epoch, req, starts, alerted>>

\* A storage call raises out of _run_loop, which has no handler: the thread
\* ends, and with it its renewer.
ThreadDies(w) ==
    /\ pc[w] \in Busy \cup {"idle"}
    /\ Fault("thread")
    /\ Reaches(w, "dead")
    /\ renewIn' = [renewIn EXCEPT ![w] = NotRenewing]
    /\ UNCHANGED <<tables, cur, stage, seen, epoch, req, starts, alerted, disputed>>

Crash ==
    /\ \E w \in Workers : pc[w] # "down"
    /\ Fault("crash")
    /\ pc' = [w \in Workers |-> "down"]
    /\ cur' = [w \in Workers |-> NoTask]
    /\ stage' = [w \in Workers |-> 0]
    /\ seen' = [w \in Workers |-> "draft"]
    /\ renewIn' = [w \in Workers |-> NotRenewing]
    /\ epoch' = epoch + 1
    /\ req' = [r \in Requests |-> Idle]
    /\ UNCHANGED <<tables, starts, alerted, disputed>>

\* DurableTaskWorker.start in the new process.
Boot ==
    /\ \A w \in Workers : pc[w] = "down"
    /\ pc' = [w \in Workers |-> "idle"]
    /\ job' = RecoveredJobs
    /\ status' = RecoveredStatus
    /\ UNCHANGED <<cancelReq, older, cur, stage, seen, renewIn, epoch,
                   req, starts, faults, alerted, disputed>>

\* Storage.cleanup_expired_data: the row of a job that finished long ago.
CleanupJob(t) ==
    /\ job[t].status \in Finished
    /\ job' = [job EXCEPT ![t] = NoJob]
    /\ older' = [u \in Tasks |-> IF u = t THEN {} ELSE older[u] \ {t}]
    /\ UNCHANGED <<status, cancelReq, workers, req, starts, faults, alerted, disputed>>

CountDown(n) == IF n > 0 THEN n - 1 ELSE n

Ticked(j) == [status |-> j.status, attempts |-> j.attempts, owner |-> j.owner,
              lease |-> CountDown(j.lease), wait |-> CountDown(j.wait)]

Tick ==
    /\ Punctual => /\ \A w \in Workers : ~RenewDue(w)
                   /\ \A r \in Requests : req[r] = Idle
    /\ job' = [t \in Tasks |-> Ticked(job[t])]
    /\ renewIn' = [w \in Workers |-> CountDown(renewIn[w])]
    /\ Disputes({cur[w] : w \in {v \in Workers : RenewDue(v)}})
    /\ UNCHANGED <<status, cancelReq, older, pc, cur, stage, seen, epoch,
                   req, starts, faults, alerted>>

-----------------------------------------------------------------------------

RequestArrives(r) == \E t \in Tasks : \/ StartRead(r, t)
                                      \/ CancelRead(r, t)
                                      \/ ApproveRead(r, t)

RequestStep(r) == \/ StartUpdate(r)
                  \/ StartEnqueue(r)
                  \/ CancelJob(r)
                  \/ CancelUpdate(r)
                  \/ CancelFlag(r)
                  \/ ApproveUpdate(r)

RunStep(w) == \/ RunBegin(w)
              \/ CheckCancelled(w)
              \/ Enter(w)
              \/ Finish(w)
              \/ Announce(w)
              \/ AnnounceFails(w)
              \/ RunCancelled(w)
              \/ RunFailed(w)

SettleStep(w) == \/ Observe(w)
                 \/ SettleFailed(w)
                 \/ SettleCancelled(w)
                 \/ SettleDelivered(w)
                 \/ SettleUnexpected(w)

WorkerStep(w) == \/ \E t \in Tasks : Lease(w, t)
                 \/ LeaseNothing(w)
                 \/ RunStep(w)
                 \/ SettleStep(w)

Next == \/ \E r \in Requests : \/ RequestArrives(r)
                               \/ RequestStep(r)
                               \/ RequestDies(r)
        \/ \E w \in Workers : \/ WorkerStep(w)
                              \/ Renew(w)
                              \/ RenewerDies(w)
                              \/ ThreadDies(w)
        \/ \E t \in Tasks : CleanupJob(t)
        \/ Crash
        \/ Boot
        \/ Tick

Spec == Init /\ [][Next]_vars

\* A handler that was admitted and a thread that runs go on, the operating
\* system restarts the service, and time passes however many requests arrive
\* (strong fairness).  No fairness for the user.
Fairness == /\ \A r \in Requests : WF_vars(RequestStep(r))
            /\ \A w \in Workers : WF_vars(WorkerStep(w)) /\ WF_vars(Renew(w))
            /\ WF_vars(Boot)
            /\ SF_vars(Tick)

FairSpec == Spec /\ Fairness

-----------------------------------------------------------------------------
(* Properties.                                                             *)

\* Every variable holds a value of its table column, thread or counter.
TypeOK ==
    /\ status \in [Tasks -> TaskStatus]
    /\ cancelReq \in [Tasks -> BOOLEAN]
    /\ job \in [Tasks -> Job]
    /\ older \in [Tasks -> SUBSET Tasks]
    /\ pc \in [Workers -> WorkerAt]
    /\ cur \in [Workers -> Tasks \cup {NoTask}]
    /\ stage \in [Workers -> 0..Stages]
    /\ seen \in [Workers -> TaskStatus]
    /\ renewIn \in [Workers -> NotRenewing..RenewInterval]
    /\ epoch \in Nat
    /\ req \in [Requests -> Req]
    /\ starts \in 0..MaxStarts
    /\ faults \in 0..MaxFaults
    /\ alerted \subseteq Tasks
    /\ disputed \subseteq Tasks \cup {NoTask}

Leased(t) == job[t].status = "leased"

\* Every lease names its holder and every holder is at work on it: no row keeps
\* an owner it lost, and a lease of this process belongs to a thread that is
\* executing, settling or died with that very task, so no lease is leaked by a
\* worker that went on to another job (lease_job, fail_job, complete_job).
LeaseHeldByItsWorker ==
    \A t \in Tasks :
        /\ Leased(t) <=> job[t].owner # NoOwner
        /\ \A w \in Workers :
               Owns(w, t) => /\ cur[w] = t
                             /\ pc[w] \in Busy \cup {"dead"}

SameClaim(j, k) == /\ j.status = k.status
                   /\ j.attempts = k.attempts
                   /\ j.owner = k.owner

\* A worker that lost its lease cannot touch the row any more: once a job is
\* completed, failed or cancelled, only a new start or the retention job
\* changes it (the owner clauses of renew_job, complete_job and fail_job).
FinishedJobStaysFinished ==
    [][\A t \in Tasks :
           job[t].status \in Finished =>
               \/ job'[t] \in {Enqueued, NoJob}
               \/ SameClaim(job[t], job'[t])]_vars

\* A start is between its update of the task and its enqueue of the job.
Enqueuing(t) ==
    \E r \in Requests : At(r, "start_enqueue") /\ req[r].task = t

Cancelling(t) ==
    \E r \in Requests : At(r, "cancel_update") /\ req[r].task = t

\* A task that says it is queued really is: it has a job to lease, or one whose
\* lease can expire, or the handler that will write the next state is running.
\* Start, cancel, recovery, retry and the settling of a stale worker all touch
\* the two rows, most of them in separate transactions.
QueuedHasJob ==
    \A t \in Tasks :
        status[t] = "queued" =>
            \/ job[t].status \in {"pending", "leased"}
            \/ Enqueuing(t)
            \/ Cancelling(t)

\* No two threads run the workflow of one task at the same time, where they
\* would write the same worktree and the same source repository: however often
\* the task is started, retried, cancelled and recovered and whatever breaks,
\* until it is disputed.
SingleExecution ==
    \A v, w \in Workers :
        v # w /\ pc[v] \in Executing /\ pc[w] \in Executing =>
            cur[v] # cur[w] \/ cur[v] \in disputed

\* A task that says it runs has a lease, so a worker is at work on it or recovery
\* will queue it again: no run, settlement, cancellation, start, clean-up or
\* crash leaves a task running with a job that is done, gone or pending.
RunningHasLease ==
    \A t \in Tasks : status[t] = "running" => Leased(t) \/ t \in disputed

\* A lease is spent on a failed run or on a fault: a job is leased at most
\* MaxAttempts times per start, and once more for each thing that broke.
AttemptsPerFault == \A t \in Tasks : job[t].attempts <= MaxAttempts + faults

Phase(s) == CASE s = "pending" -> "waiting"
              [] s = "leased" -> "held"
              [] s \in Finished -> "done"
              [] OTHER -> "none"

LeaseOf(j) == [phase |-> Phase(j.status), holder |-> j.owner, grants |-> j.attempts]

Service == INSTANCE LeaseService
             WITH Owners <- OwnerId, Nobody <- NoOwner,
                  lease <- [t \in Tasks |-> LeaseOf(job[t])]

\* The tables, threads, renewers, retries, recoveries and crashes together are a
\* lease service: no two owners of a job, no owner of two, no lease uncounted,
\* and no finished job that comes back without a new start.
ImplementsLeaseService == Service!Spec

\* A task is in progress while its row says so or its job can still be leased.
InProgress(t) == \/ status[t] \in {"queued", "running"}
                 \/ job[t].status \in {"pending", "leased"}

\* A start was cut off between its two transactions, or every worker thread
\* died: nothing but a user or an operator can help.
Stranded(t) == /\ status[t] = "queued"
               /\ job[t].status \notin {"pending", "leased"}
               /\ ~Enqueuing(t) /\ ~Cancelling(t)
NoWorker    == \A w \in Workers : pc[w] = "dead"

\* Every task that is in progress comes to rest, task row and job row at the
\* same time: delivered, failed for good or cancelled, whatever run, thread or
\* process breaks on the way.
TasksSettle ==
    \A t \in Tasks : InProgress(t) ~> ~InProgress(t) \/ Stranded(t) \/ NoWorker

=============================================================================
