--------------------------- MODULE JobQueue_proofs ---------------------------
(***************************************************************************)
(* Proofs about JobQueue, for any number of tasks, workers and requests,   *)
(* any lease length and retry budget.  In three parts: the leases and the  *)
(* rows of the queue, for punctual threads or not; that JobQueue           *)
(* implements LeaseService; and what it owes to its clock.                 *)
(***************************************************************************)
EXTENDS JobQueue, TLAPS

-----------------------------------------------------------------------------
(* The inductive invariant.                                                *)

Holder(w) == pc[w] \in Busy \cup {"dead"}

\* What the locals of a worker thread are worth at each point of its loop.
LocalsOK ==
    \A w \in Workers :
        /\ pc[w] \in Busy => cur[w] \in Tasks
        /\ pc[w] \in {"idle", "down", "run"} => stage[w] = 0
        /\ pc[w] \in {"check", "enter"} => stage[w] < Stages

\* No row names an owner of a process that has not started yet.
OwnersOK ==
    \A t \in Tasks : job[t].owner # NoOwner => job[t].owner[1] <= epoch

LeaseInv == TypeOK /\ LocalsOK /\ OwnersOK /\ LeaseHeldByItsWorker

-----------------------------------------------------------------------------
(* Lemmas about the rows that the transactions write.                      *)

\* The name of an owner is never NULL and determines process and thread.
LEMMA OwnerNames ==
    ASSUME NEW w \in Workers, NEW e \in Nat
    PROVE  <<e, w>> \in OwnerId /\ <<e, w>> # NoOwner
BY DEF OwnerId, NoOwner

\* The renewer fires at least one tick apart.
LEMMA RenewIntervalType == RenewInterval \in Nat /\ NotRenewing \in -1..RenewInterval
BY ConstantsAssumption DEF RenewInterval, NotRenewing

\* Giving up a lease leaves a row without an owner (recover, cancel, complete).
LEMMA ReleasedRow ==
    ASSUME NEW j \in Job, NEW s \in JobStatus
    PROVE  /\ Released(j, s) \in Job
           /\ Released(j, s).status = s
           /\ Released(j, s).owner = NoOwner
BY ConstantsAssumption DEF Released, Job

\* The delay of fail_job is a number of ticks.
LEMMA BackoffType ==
    ASSUME NEW j \in Job, Retries(j)
    PROVE  Backoff(j) \in Nat
BY ConstantsAssumption, PowerAssumption DEF Backoff, Retries, Job

\* What fail_job writes: pending or failed, and no owner in either case.
LEMMA FailedRow ==
    ASSUME NEW j \in Job
    PROVE  /\ FailedJob(j) \in Job
           /\ FailedJob(j).owner = NoOwner
           /\ FailedJob(j).status = IF Retries(j) THEN "pending" ELSE "failed"
BY BackoffType, ReleasedRow DEF FailedJob, Job, JobStatus

\* What lease_job writes.
LEMMA LeasedRow ==
    ASSUME NEW j \in Job, NEW w \in Workers, epoch \in Nat
    PROVE  /\ LeasedTo(j, w) \in Job
           /\ LeasedTo(j, w).status = "leased"
           /\ LeasedTo(j, w).owner = <<epoch, w>>
BY ConstantsAssumption, OwnerNames DEF LeasedTo, Job, JobStatus, Owner

\* The row that does not exist, and the row a start writes.
LEMMA FreshRows ==
    /\ NoJob \in Job /\ NoJob.owner = NoOwner /\ NoJob.status = "none"
    /\ Enqueued \in Job /\ Enqueued.owner = NoOwner /\ Enqueued.status = "pending"
<1>1. NoJob \in Job /\ NoJob.owner = NoOwner /\ NoJob.status = "none"
    BY ConstantsAssumption DEF NoJob, Job, JobStatus
<1> QED BY <1>1, ReleasedRow DEF Enqueued, JobStatus

\* Time changes no row but its countdowns.
LEMMA TickedRow ==
    ASSUME NEW j \in Job
    PROVE  /\ Ticked(j) \in Job
           /\ Ticked(j).status = j.status
           /\ Ticked(j).owner = j.owner
BY ConstantsAssumption DEF Ticked, CountDown, Job

\* Recovery leaves a row alone or queues it without an owner.
LEMMA RecoveredRows ==
    ASSUME TypeOK
    PROVE  /\ RecoveredJobs \in [Tasks -> Job]
           /\ RecoveredStatus \in [Tasks -> TaskStatus]
           /\ \A t \in Tasks :
                 \/ RecoveredJobs[t] = job[t] /\ RecoveredStatus[t] = status[t]
                 \/ /\ RecoveredJobs[t].owner = NoOwner
                    /\ RecoveredJobs[t].status = "pending"
BY ReleasedRow DEF RecoveredJobs, RecoveredStatus, TypeOK, JobStatus, TaskStatus

\* A request that is being handled is about a task.
LEMMA RequestTask ==
    ASSUME TypeOK, NEW r \in Requests, NEW a \in ReqAt, At(r, a)
    PROVE  req[r].task \in Tasks
BY DEF TypeOK, Req, ReqAt, Idle, At

-----------------------------------------------------------------------------
(* Leases.                                                                 *)

\* A step that writes no new owner keeps the leases in order, provided that
\* every holder either stays with its task or has given up its lease.
LEMMA KeepsLeases ==
    ASSUME LeaseInv,
           \A t \in Tasks :
               /\ job'[t].status = "leased" <=> job'[t].owner # NoOwner
               /\ job'[t].owner \in {job[t].owner, NoOwner},
           epoch' = epoch,
           \A w \in Workers :
               Holder(w) => \/ Holder(w)' /\ cur'[w] = cur[w]
                            \/ job'[cur[w]].owner # <<epoch, w>>
    PROVE  LeaseHeldByItsWorker' /\ OwnersOK'
<1>1. OwnersOK'
    BY DEF LeaseInv, OwnersOK
<1>2. ASSUME NEW t \in Tasks, NEW w \in Workers, job'[t].owner = <<epoch, w>>
      PROVE  cur'[w] = t /\ Holder(w)'
  <2>1. NoOwner # <<epoch, w>>
    BY OwnerNames DEF LeaseInv, TypeOK
  <2>2. job[t].owner = <<epoch, w>>
    BY <1>2, <2>1
  <2>3. cur[w] = t /\ Holder(w)
    BY <2>2 DEF LeaseInv, LeaseHeldByItsWorker, Owns, Owner, Holder
  <2> QED BY <2>3, <1>2
<1> QED BY <1>1, <1>2 DEF LeaseHeldByItsWorker, Leased, Owns, Owner, Holder

\* In particular a step that leaves the rows and the holders alone.
LEMMA KeepsLeasesUnchanged ==
    ASSUME LeaseInv, job' = job, epoch' = epoch,
           \A w \in Workers : Holder(w) => Holder(w)' /\ cur'[w] = cur[w]
    PROVE  LeaseHeldByItsWorker' /\ OwnersOK'
BY KeepsLeases DEF LeaseInv, LeaseHeldByItsWorker, Leased

\* The tables are empty and no thread holds anything.
LEMMA InitLeaseInv == Init => LeaseInv
<1> SUFFICES ASSUME Init PROVE LeaseInv
    OBVIOUS
<1>1. TypeOK
    BY FreshRows, ConstantsAssumption, RenewIntervalType
    DEF Init, TypeOK, TaskStatus, WorkerAt, NotRenewing, Req
<1>2. LocalsOK /\ OwnersOK
    BY FreshRows DEF Init, LocalsOK, OwnersOK, Holder, Busy, Executing
<1>3. LeaseHeldByItsWorker
    BY FreshRows, OwnerNames DEF Init, LeaseHeldByItsWorker, Leased, Owns, Owner
<1> QED BY <1>1, <1>2, <1>3 DEF LeaseInv

\* The handlers of the API write no owner.
LEMMA RequestKeepsLeaseInv ==
    ASSUME LeaseInv, NEW r \in Requests,
           RequestArrives(r) \/ RequestStep(r) \/ RequestDies(r)
    PROVE  LeaseInv'
<1> USE DEF LeaseInv
<1>1. CASE RequestArrives(r)
  <2>1. TypeOK' /\ LocalsOK'
    BY <1>1, ConstantsAssumption
    DEF RequestArrives, StartRead, CancelRead, ApproveRead, GoesTo, tables,
        workers, TypeOK, Req, ReqAt, LocalsOK, Holder
  <2> QED BY <1>1, <2>1, KeepsLeasesUnchanged
          DEF RequestArrives, StartRead, CancelRead, ApproveRead, tables,
              workers, Holder
<1>2. CASE StartUpdate(r) \/ CancelUpdate(r) \/ CancelFlag(r) \/ ApproveUpdate(r)
  <2>0. req[r].task \in Tasks
    BY <1>2, RequestTask
    DEF StartUpdate, CancelUpdate, CancelFlag, ApproveUpdate, ReqAt
  <2>1a. TypeOK'
    <3>1. req' \in [Requests -> Req]
      BY <1>2, <2>0
      DEF StartUpdate, CancelUpdate, CancelFlag, ApproveUpdate, GoesTo,
          Answered, TypeOK, Req, ReqAt
    <3>2. status' \in [Tasks -> TaskStatus] /\ cancelReq' \in [Tasks -> BOOLEAN]
      BY <1>2, <2>0
      DEF StartUpdate, CancelUpdate, CancelFlag, ApproveUpdate, TypeOK, TaskStatus
    <3> QED BY <1>2, <3>1, <3>2
            DEF StartUpdate, CancelUpdate, CancelFlag, ApproveUpdate, workers, TypeOK
  <2>1. TypeOK' /\ LocalsOK'
    BY <1>2, <2>1a
    DEF StartUpdate, CancelUpdate, CancelFlag, ApproveUpdate, workers, LocalsOK, Holder
  <2> QED BY <1>2, <2>1, KeepsLeasesUnchanged
          DEF StartUpdate, CancelUpdate, CancelFlag, ApproveUpdate, workers, Holder
<1>3. CASE StartEnqueue(r)
  <2>0. job' \in [Tasks -> Job] /\ older' \in [Tasks -> SUBSET Tasks]
    BY <1>3, RequestTask, FreshRows DEF StartEnqueue, TypeOK, ReqAt
  <2>1. TypeOK' /\ LocalsOK'
    BY <1>3, <2>0
    DEF StartEnqueue, Answered, workers, TypeOK, Req, LocalsOK, Holder
  <2>2. \A t \in Tasks : job'[t] = job[t] \/ job'[t] = Enqueued
    BY <1>3, RequestTask DEF StartEnqueue, TypeOK, ReqAt
  <2> QED BY <1>3, <2>1, <2>2, FreshRows, KeepsLeases
          DEF StartEnqueue, workers, LeaseHeldByItsWorker, Leased, Holder
<1>4. CASE CancelJob(r)
  <2>1. TypeOK' /\ LocalsOK'
    BY <1>4, RequestTask, ReleasedRow
    DEF CancelJob, GoesTo, workers, TypeOK, Req, ReqAt, JobStatus, LocalsOK, Holder
  <2>2. \A t \in Tasks : job'[t] = job[t] \/ job'[t] = Released(job[t], "cancelled")
    BY <1>4, RequestTask DEF CancelJob, TypeOK, ReqAt
  <2>3. \A t \in Tasks : /\ job'[t].status = "leased" <=> job'[t].owner # NoOwner
                         /\ job'[t].owner \in {job[t].owner, NoOwner}
    <3>1. \A t \in Tasks : job[t].status = "leased" <=> job[t].owner # NoOwner
      BY DEF LeaseHeldByItsWorker, Leased
    <3>2. \A t \in Tasks : /\ Released(job[t], "cancelled").status = "cancelled"
                           /\ Released(job[t], "cancelled").owner = NoOwner
      BY DEF Released
    <3> QED BY <2>2, <3>1, <3>2
  <2>4. epoch' = epoch /\ \A w \in Workers : (Holder(w)' <=> Holder(w)) /\ cur'[w] = cur[w]
    BY <1>4 DEF CancelJob, workers, Holder
  <2> QED BY <2>1, <2>3, <2>4, KeepsLeases
<1>5. CASE RequestDies(r)
  <2>1. TypeOK' /\ LocalsOK'
    BY <1>5, ConstantsAssumption
    DEF RequestDies, Fault, Answered, tables, workers, TypeOK, Req, LocalsOK, Holder
  <2> QED BY <1>5, <2>1, KeepsLeasesUnchanged
          DEF RequestDies, tables, workers, Holder
<1> QED BY <1>1, <1>2, <1>3, <1>4, <1>5 DEF RequestStep

\* lease_job is the only transaction that writes an owner, and the thread it
\* names turns to that task in the same step.
LEMMA LeaseKeepsLeaseInv ==
    ASSUME LeaseInv, NEW w \in Workers, NEW t \in Tasks, Lease(w, t)
    PROVE  LeaseInv'
<1> USE DEF LeaseInv
<1>1. TypeOK'
    BY RecoveredRows, LeasedRow, ConstantsAssumption, RenewIntervalType
    DEF Lease, Disputes, TypeOK, WorkerAt, Busy, Executing, NotRenewing
<1>2. LocalsOK'
    BY ConstantsAssumption DEF Lease, TypeOK, LocalsOK, Holder, Busy, Executing
<1>3. \A u \in Tasks : u # t => job'[u] = RecoveredJobs[u]
    BY RecoveredRows DEF Lease
<1>4. job'[t].status = "leased" /\ job'[t].owner = <<epoch, w>>
    BY RecoveredRows, LeasedRow DEF Lease, TypeOK
<1>5. OwnersOK'
    BY <1>3, <1>4, RecoveredRows DEF Lease, TypeOK, OwnersOK
<1>6. ASSUME NEW u \in Tasks
      PROVE  job'[u].status = "leased" <=> job'[u].owner # NoOwner
  <2>1. CASE u = t
    BY <2>1, <1>4, OwnerNames DEF TypeOK
  <2>2. CASE u # t
    BY <2>2, <1>3, RecoveredRows DEF LeaseHeldByItsWorker, Leased
  <2> QED BY <2>1, <2>2
<1>7. ASSUME NEW u \in Tasks, NEW v \in Workers, job'[u].owner = <<epoch, v>>
      PROVE  cur'[v] = u /\ Holder(v)'
  <2>1. CASE u = t
    <3>1. v = w
        BY <2>1, <1>4, <1>7
    <3> QED BY <3>1, <2>1 DEF Lease, TypeOK, Holder, Busy, Executing
  <2>2. CASE u # t
    <3>1. job[u].owner = <<epoch, v>>
        BY <2>2, <1>3, <1>7, RecoveredRows, OwnerNames DEF TypeOK
    <3>2. cur[v] = u /\ Holder(v)
        BY <3>1 DEF LeaseHeldByItsWorker, Owns, Owner, Holder
    <3> QED BY <3>2 DEF Lease, TypeOK, Holder, Busy, Executing
  <2> QED BY <2>1, <2>2
<1>8. LeaseHeldByItsWorker'
    BY <1>6, <1>7 DEF LeaseHeldByItsWorker, Leased, Owns, Owner, Lease, Holder
<1> QED BY <1>1, <1>2, <1>5, <1>8

\* The run writes the task row only.
LEMMA RunKeepsLeaseInv ==
    ASSUME LeaseInv, NEW w \in Workers, RunStep(w)
    PROVE  LeaseInv'
<1> USE DEF LeaseInv
<1>1. Holder(w) /\ cur[w] \in Tasks
    BY DEF RunStep, RunBegin, CheckCancelled, Enter, Finish, Announce,
           AnnounceFails, RunCancelled, RunFailed, Holder, Busy, Executing, LocalsOK
<1>2. /\ UNCHANGED <<job, cur, epoch>>
      /\ pc'[w] \in Busy
      /\ \A v \in Workers : v # w => pc'[v] = pc[v]
    BY DEF RunStep, RunBegin, CheckCancelled, Enter, Finish, Announce,
           AnnounceFails, RunCancelled, RunFailed, Reaches, tables, TypeOK,
           Busy, Executing
<1>3. TypeOK' /\ LocalsOK'
  <2>1. CASE RunBegin(w)
    BY <2>1, <1>1, ConstantsAssumption
    DEF RunBegin, Reaches, Writes, TypeOK, TaskStatus, WorkerAt, LocalsOK,
        Holder, Busy, Executing
  <2>2. CASE CheckCancelled(w)
    BY <2>2, <1>1, ConstantsAssumption
    DEF CheckCancelled, Reaches, tables, TypeOK, TaskStatus, WorkerAt, LocalsOK,
        Holder, Busy, Executing
  <2>3. CASE Enter(w)
    BY <2>3, <1>1, ConstantsAssumption
    DEF Enter, Reaches, Writes, TypeOK, TaskStatus, WorkerAt, LocalsOK,
        Holder, Busy, Executing
  <2>4. CASE Finish(w) \/ RunCancelled(w) \/ RunFailed(w)
    BY <2>4, <1>1, ConstantsAssumption
    DEF Finish, RunCancelled, RunFailed, Reaches, Writes, TypeOK, TaskStatus,
        WorkerAt, LocalsOK, Holder, Busy, Executing
  <2>5. CASE Announce(w)
    BY <2>5, <1>1, ConstantsAssumption
    DEF Announce, Reaches, tables, TypeOK, WorkerAt, LocalsOK, Holder, Busy,
        Executing
  <2>6. CASE AnnounceFails(w)
    BY <2>6, <1>1, ConstantsAssumption
    DEF AnnounceFails, Fault, Reaches, Writes, TypeOK, TaskStatus, WorkerAt,
        LocalsOK, Holder, Busy, Executing
  <2> QED BY <2>1, <2>2, <2>3, <2>4, <2>5, <2>6 DEF RunStep
<1> QED BY <1>1, <1>2, <1>3, KeepsLeasesUnchanged DEF Holder

\* fail_job and complete_job take the lease away from the thread that settles,
\* and from no other.
LEMMA SettleKeepsLeaseInv ==
    ASSUME LeaseInv, NEW w \in Workers, SettleStep(w)
    PROVE  LeaseInv'
<1> USE DEF LeaseInv
<1>1. CASE Observe(w)
  <2>1. Holder(w) /\ cur[w] \in Tasks
    BY <1>1 DEF Observe, Holder, Busy, LocalsOK
  <2>2. TypeOK' /\ LocalsOK'
    BY <1>1, <2>1
    DEF Observe, Reaches, tables, TypeOK, WorkerAt, LocalsOK, Holder, Busy, Executing
  <2> QED BY <1>1, <2>1, <2>2, KeepsLeasesUnchanged
          DEF Observe, Reaches, tables, TypeOK, Holder, Busy, Executing
<1>2. CASE SettleFailed(w) \/ SettleCancelled(w) \/ SettleDelivered(w)
           \/ SettleUnexpected(w)
  <2>1. Holder(w) /\ cur[w] \in Tasks
    BY <1>2 DEF SettleFailed, SettleCancelled, SettleDelivered,
                SettleUnexpected, Holder, Busy, LocalsOK
  <2>2. \/ FailJob(w, cur[w])
        \/ CompleteJob(w, cur[w], "cancelled")
        \/ CompleteJob(w, cur[w], "completed")
    BY <1>2 DEF SettleFailed, SettleCancelled, SettleDelivered, SettleUnexpected
  <2>3. Settled(w) /\ alerted' \subseteq Tasks
    BY <1>2, <2>1 DEF SettleFailed, SettleCancelled, SettleDelivered,
                      SettleUnexpected, TypeOK
  <2>4. job' \in [Tasks -> Job] /\ status' \in [Tasks -> TaskStatus]
    BY <2>1, <2>2, FailedRow, ReleasedRow
    DEF FailJob, CompleteJob, TypeOK, TaskStatus, JobStatus
  <2>5. TypeOK'
    BY <2>1, <2>3, <2>4, ConstantsAssumption, RenewIntervalType
    DEF Settled, Reaches, TypeOK, WorkerAt, TaskStatus, NotRenewing
  <2>6. LocalsOK'
    BY <2>3 DEF Settled, Reaches, TypeOK, LocalsOK, Holder, Busy, Executing
  <2>7. ASSUME NEW t \in Tasks
        PROVE  /\ \/ job'[t] = job[t]
                  \/ job'[t].owner = NoOwner /\ job'[t].status # "leased"
               /\ t = cur[w] => job'[t].owner # <<epoch, w>>
    <3>1. NoOwner # <<epoch, w>>
      BY OwnerNames DEF TypeOK
    <3>2. CASE t # cur[w]
      BY <3>2, <2>1, <2>2 DEF FailJob, CompleteJob, TypeOK
    <3>3. CASE t = cur[w] /\ ~Owns(w, t)
      BY <3>3, <2>2 DEF FailJob, CompleteJob, Owns, Owner
    <3>4. CASE t = cur[w] /\ Owns(w, t)
      <4>1. job'[t] \in {FailedJob(job[t]), Released(job[t], "cancelled"),
                         Released(job[t], "completed")}
        BY <3>4, <2>2 DEF FailJob, CompleteJob, TypeOK
      <4>2. job[t] \in Job
        BY DEF TypeOK
      <4>3. FailedJob(job[t]).owner = NoOwner /\ FailedJob(job[t]).status # "leased"
        BY <4>2, FailedRow
      <4>4. \A s \in {"cancelled", "completed"} :
               Released(job[t], s).owner = NoOwner /\ Released(job[t], s).status = s
        BY <4>2, ReleasedRow DEF JobStatus
      <4> QED BY <4>1, <4>3, <4>4, <3>1
    <3> QED BY <3>2, <3>3, <3>4
  <2>8. ASSUME NEW v \in Workers, Holder(v)
        PROVE  \/ Holder(v)' /\ cur'[v] = cur[v]
               \/ job'[cur[v]].owner # <<epoch, v>>
    BY <2>1, <2>3, <2>7, <2>8 DEF Settled, Reaches, TypeOK, Holder
  <2>9. LeaseHeldByItsWorker' /\ OwnersOK'
    BY <2>3, <2>7, <2>8, KeepsLeases DEF Settled, LeaseHeldByItsWorker, Leased
  <2> QED BY <2>5, <2>6, <2>9
<1> QED BY <1>1, <1>2 DEF SettleStep

\* The renewer prolongs a lease, or ends.
LEMMA RenewKeepsLeaseInv ==
    ASSUME LeaseInv, NEW w \in Workers, Renew(w)
    PROVE  LeaseInv'
<1> USE DEF LeaseInv
<1>1. job' \in [Tasks -> Job]
  <2>1. ASSUME NEW t \in Tasks PROVE [job[t] EXCEPT !.lease = LeaseTicks] \in Job
    <3>1. LeaseTicks \in 0..LeaseTicks BY ConstantsAssumption
    <3>2. job[t] \in Job BY DEF TypeOK
    <3> QED BY <3>1, <3>2 DEF Job
  <2>2. job' = [job EXCEPT ![cur[w]] = [job[cur[w]] EXCEPT !.lease = LeaseTicks]] \/ job' = job
    BY DEF Renew
  <2> QED BY <2>1, <2>2 DEF TypeOK
<1>2. TypeOK' /\ LocalsOK'
    BY <1>1, RenewIntervalType DEF Renew, TypeOK, LocalsOK, Holder, NotRenewing
<1>3. \A t \in Tasks : /\ job'[t].status = job[t].status
                       /\ job'[t].owner = job[t].owner
    BY DEF Renew, TypeOK, Job
<1> QED BY <1>2, <1>3, KeepsLeases
        DEF Renew, LeaseHeldByItsWorker, Leased, Holder

\* A thread or a renewer that dies leaves the rows as they are.
LEMMA DeathKeepsLeaseInv ==
    ASSUME LeaseInv, NEW w \in Workers, RenewerDies(w) \/ ThreadDies(w)
    PROVE  LeaseInv'
<1> USE DEF LeaseInv
<1>1. TypeOK' /\ LocalsOK'
    BY ConstantsAssumption, RenewIntervalType
    DEF RenewerDies, ThreadDies, Fault, Disputes, Reaches, tables, TypeOK, WorkerAt,
        NotRenewing, LocalsOK, Holder, Busy, Executing
<1> QED BY <1>1, KeepsLeasesUnchanged
        DEF RenewerDies, ThreadDies, Reaches, tables, TypeOK, Holder, Busy, Executing

\* The next process has other owner names: nothing is held by its threads.
LEMMA CrashKeepsLeaseInv ==
    ASSUME LeaseInv, Crash
    PROVE  LeaseInv'
<1> USE DEF LeaseInv
<1>1. TypeOK'
    BY ConstantsAssumption, RenewIntervalType
    DEF Crash, Fault, tables, TypeOK, NotRenewing, WorkerAt, TaskStatus, Req
<1>2. LocalsOK' /\ OwnersOK'
    BY DEF Crash, tables, TypeOK, LocalsOK, Holder, OwnersOK, Job, OwnerId,
           Busy, Executing
<1>3. ASSUME NEW t \in Tasks, NEW w \in Workers, job[t].owner = <<epoch + 1, w>>
      PROVE  FALSE
  <2>1. job[t].owner # NoOwner /\ job[t].owner[1] = epoch + 1
    BY <1>3, OwnerNames DEF TypeOK
  <2> QED BY <2>1 DEF OwnersOK, TypeOK
<1>4. LeaseHeldByItsWorker'
    BY <1>3 DEF Crash, tables, LeaseHeldByItsWorker, Leased, Owns, Owner
<1> QED BY <1>1, <1>2, <1>4

\* Recovery, at boot or by an idle worker that finds nothing to lease.
LEMMA RecoveryKeepsLeaseInv ==
    ASSUME LeaseInv, Boot \/ \E w \in Workers : LeaseNothing(w)
    PROVE  LeaseInv'
<1> USE DEF LeaseInv
<1>1. TypeOK' /\ LocalsOK'
    BY RecoveredRows
    DEF Boot, LeaseNothing, workers, TypeOK, WorkerAt, LocalsOK, Holder, Busy, Executing
<1>2. \A w \in Workers : Holder(w) => Holder(w)' /\ cur'[w] = cur[w]
    BY DEF Boot, LeaseNothing, workers, Holder, Busy, Executing
<1> QED BY <1>1, <1>2, RecoveredRows, KeepsLeases
        DEF Boot, LeaseNothing, workers, LeaseHeldByItsWorker, Leased

\* The retention job deletes rows that nobody holds; time touches no owner.
LEMMA BackgroundKeepsLeaseInv ==
    ASSUME LeaseInv, Tick \/ \E t \in Tasks : CleanupJob(t)
    PROVE  LeaseInv'
<1> USE DEF LeaseInv
<1>1. CASE Tick
  <2>1. job' \in [Tasks -> Job]
    BY <1>1, TickedRow DEF Tick, TypeOK
  <2>2. renewIn' \in [Workers -> NotRenewing..RenewInterval]
    BY <1>1, RenewIntervalType DEF Tick, TypeOK, NotRenewing, CountDown
  <2>3. TypeOK' /\ LocalsOK'
    BY <1>1, <2>1, <2>2 DEF Tick, Disputes, TypeOK, LocalsOK, Holder
  <2>4. \A t \in Tasks : /\ job'[t].status = job[t].status
                         /\ job'[t].owner = job[t].owner
    BY <1>1, TickedRow DEF Tick, TypeOK
  <2> QED BY <1>1, <2>3, <2>4, KeepsLeases
          DEF Tick, LeaseHeldByItsWorker, Leased, Holder
<1>2. ASSUME NEW t \in Tasks, CleanupJob(t) PROVE LeaseInv'
  <2>1. TypeOK' /\ LocalsOK'
    BY <1>2, FreshRows DEF CleanupJob, workers, TypeOK, LocalsOK, Holder
  <2>2. \A u \in Tasks : job'[u] = job[u] \/ job'[u] = NoJob
    BY <1>2 DEF CleanupJob, TypeOK
  <2> QED BY <1>2, <2>1, <2>2, FreshRows, KeepsLeases
          DEF CleanupJob, workers, LeaseHeldByItsWorker, Leased, Holder
<1> QED BY <1>1, <1>2

\* Every step of the queue keeps the invariant.
LEMMA NextLeaseInv == LeaseInv /\ [Next]_vars => LeaseInv'
<1> SUFFICES ASSUME LeaseInv, [Next]_vars PROVE LeaseInv'
    OBVIOUS
<1>1. CASE UNCHANGED vars
    BY <1>1
    DEF LeaseInv, vars, tables, workers, TypeOK, LocalsOK, Holder, OwnersOK,
        LeaseHeldByItsWorker, Leased, Owns, Owner
<1>2. CASE Next
    BY <1>2, RequestKeepsLeaseInv, LeaseKeepsLeaseInv, RunKeepsLeaseInv,
       SettleKeepsLeaseInv, RenewKeepsLeaseInv, DeathKeepsLeaseInv,
       CrashKeepsLeaseInv, RecoveryKeepsLeaseInv, BackgroundKeepsLeaseInv
    DEF Next, WorkerStep
<1> QED BY <1>1, <1>2

\* The inductive invariant holds of every behaviour.
LEMMA SpecLeaseInv == Spec => []LeaseInv
BY InitLeaseInv, NextLeaseInv, PTL DEF Spec

\* The tables, the threads and the counters keep their types.
THEOREM TypeCorrect == Spec => []TypeOK
BY SpecLeaseInv, PTL DEF LeaseInv

\* No lease is leaked and none is held in anybody else's name.
THEOREM LeasesAreHeld == Spec => []LeaseHeldByItsWorker
BY SpecLeaseInv, PTL DEF LeaseInv

-----------------------------------------------------------------------------
(* Finished jobs.                                                          *)

\* What FinishedJobStaysFinished says of one step and one row.
RowRests(t) == \/ job'[t] \in {Enqueued, NoJob}
               \/ SameClaim(job[t], job'[t])

\* A finished row has no owner, so no settling thread and no renewer reaches
\* it, and recovery passes it over.
LEMMA FinishedRowRests ==
    ASSUME LeaseInv, Next, NEW t \in Tasks, job[t].status \in Finished
    PROVE  RowRests(t)
<1> USE DEF LeaseInv
<1>1. job[t] \in Job /\ job[t].status # "leased" /\ job[t].status # "pending"
    BY DEF TypeOK, Finished
<1>2. job[t].owner = NoOwner
    BY <1>1 DEF LeaseHeldByItsWorker, Leased
<1>3. RecoveredJobs[t] = job[t]
    BY <1>1 DEF RecoveredJobs, Expired
<1>4. \A w \in Workers : ~Owns(w, t)
    BY <1>2, OwnerNames DEF Owns, Owner, TypeOK
<1>5. ASSUME job'[t] = job[t] PROVE RowRests(t)
    BY <1>5 DEF RowRests, SameClaim
<1>6. ASSUME NEW r \in Requests, RequestArrives(r) \/ RequestStep(r) \/ RequestDies(r)
      PROVE  RowRests(t)
  <2>1. CASE StartEnqueue(r)
    BY <2>1, <1>5, RequestTask DEF StartEnqueue, TypeOK, ReqAt, RowRests
  <2>2. CASE CancelJob(r)
    BY <2>2, <1>1, <1>5 DEF CancelJob, TypeOK
  <2> QED BY <1>5, <1>6, <2>1, <2>2
          DEF RequestArrives, StartRead, CancelRead, ApproveRead, RequestStep,
              StartUpdate, CancelUpdate, CancelFlag, ApproveUpdate, RequestDies,
              tables
<1>7. ASSUME NEW w \in Workers, WorkerStep(w) PROVE RowRests(t)
  <2>1. ASSUME NEW u \in Tasks, Lease(w, u) PROVE RowRests(t)
    <3>1. u # t
      BY <2>1, <1>1, <1>3 DEF Lease, IsOldest, Available
    <3> QED BY <2>1, <3>1, <1>3, <1>5, RecoveredRows DEF Lease
  <2>2. CASE LeaseNothing(w)
    BY <2>2, <1>3, <1>5 DEF LeaseNothing
  <2>3. CASE RunStep(w) \/ Observe(w)
    BY <2>3, <1>5
    DEF RunStep, RunBegin, CheckCancelled, Enter, Finish, Announce,
        AnnounceFails, RunCancelled, RunFailed, Observe, tables
  <2>4. CASE SettleFailed(w) \/ SettleCancelled(w) \/ SettleDelivered(w)
             \/ SettleUnexpected(w)
    BY <2>4, <1>4, <1>5
    DEF SettleFailed, SettleCancelled, SettleDelivered, SettleUnexpected,
        FailJob, CompleteJob, TypeOK
  <2> QED BY <1>7, <2>1, <2>2, <2>3, <2>4 DEF WorkerStep, SettleStep
<1>8. ASSUME NEW w \in Workers, Renew(w) \/ RenewerDies(w) \/ ThreadDies(w)
      PROVE  RowRests(t)
    BY <1>8, <1>4, <1>5 DEF Renew, RenewerDies, ThreadDies, tables, TypeOK
<1>9. CASE Crash \/ Boot
    BY <1>9, <1>3, <1>5 DEF Crash, Boot, tables
<1>10. ASSUME NEW u \in Tasks, CleanupJob(u) PROVE RowRests(t)
    BY <1>10, <1>5 DEF CleanupJob, TypeOK, RowRests
<1>11. CASE Tick
    BY <1>11, <1>1 DEF Tick, Ticked, RowRests, SameClaim, Job
<1> QED BY <1>6, <1>7, <1>8, <1>9, <1>10, <1>11 DEF Next

\* A job that is completed, failed or cancelled is changed by a new start or
\* the retention job only, whatever a stale worker still tries.
THEOREM FinishedJobsRest == Spec => FinishedJobStaysFinished
<1>1. LeaseInv /\ [Next]_vars =>
          [\A t \in Tasks : job[t].status \in Finished =>
               \/ job'[t] \in {Enqueued, NoJob}
               \/ SameClaim(job[t], job'[t])]_vars
    BY FinishedRowRests DEF RowRests
<1> QED BY <1>1, SpecLeaseInv, PTL DEF Spec, FinishedJobStaysFinished

-----------------------------------------------------------------------------
(* Queued tasks.                                                           *)

\* QueuedHasJob for one task.
HasWork(t) == \/ job[t].status \in {"pending", "leased"}
              \/ Enqueuing(t)
              \/ Cancelling(t)

\* A thread that is past its first write finds its own task queued only when
\* a start has just said so: the thread may settle the job, because the start
\* is about to enqueue it again.
PastRun(w) == pc[w] \in Busy \ {"run"}

SettledAhead ==
    \A t \in Tasks, w \in Workers :
        Owns(w, t) /\ PastRun(w) /\ status[t] = "queued" => Enqueuing(t)

QueuedInv == LeaseInv /\ QueuedHasJob /\ SettledAhead

\* No handler is lost between two transactions.
HandlersFinish == Faults \cap {"crash", "request"} = {}

\* A step that queues nothing and takes no work away keeps every queued task at
\* work.
LEMMA KeepsQueued ==
    ASSUME QueuedInv, epoch' = epoch,
           \A t \in Tasks : status'[t] = "queued" => status[t] = "queued",
           \A t \in Tasks : status'[t] = "queued" => HasWork(t)',
           \A t \in Tasks : Enqueuing(t) /\ status'[t] = "queued" =>
                                Enqueuing(t)' \/ job'[t].owner = NoOwner,
           \A t \in Tasks : job'[t].owner \in {job[t].owner, NoOwner},
           \A t \in Tasks, w \in Workers :
               Owns(w, t) /\ PastRun(w)' /\ status'[t] = "queued" => PastRun(w)
    PROVE  QueuedHasJob' /\ SettledAhead'
<1>1. QueuedHasJob'
    BY DEF QueuedHasJob, HasWork
<1>2. ASSUME NEW t \in Tasks, NEW w \in Workers, job'[t].owner = <<epoch, w>>,
             PastRun(w)', status'[t] = "queued"
      PROVE  Enqueuing(t)'
  <2>1. NoOwner # <<epoch, w>>
    BY OwnerNames DEF QueuedInv, LeaseInv, TypeOK
  <2>2. Owns(w, t)
    BY <1>2, <2>1 DEF Owns, Owner
  <2>3. PastRun(w)
    BY <1>2, <2>2
  <2>4. Enqueuing(t)
    BY <1>2, <2>2, <2>3 DEF QueuedInv, SettledAhead
  <2> QED BY <1>2, <2>1, <2>4
<1> QED BY <1>1, <1>2 DEF SettledAhead, Owns, Owner

\* At the beginning nothing is queued.
LEMMA InitQueuedInv == Init => QueuedInv
BY InitLeaseInv DEF QueuedInv, Init, QueuedHasJob, SettledAhead

\* Each write of a handler is covered by the handler's next write, and its last
\* one by the row it leaves behind.
LEMMA RequestKeepsQueued ==
    ASSUME QueuedInv, HandlersFinish, NEW r \in Requests,
           RequestArrives(r) \/ RequestStep(r) \/ RequestDies(r)
    PROVE  QueuedHasJob' /\ SettledAhead'
<1> USE DEF QueuedInv, LeaseInv
<1>1. CASE RequestArrives(r)
  <2>1. \A q \in Requests : q # r => req'[q] = req[q]
    BY <1>1 DEF RequestArrives, StartRead, CancelRead, ApproveRead, GoesTo, TypeOK
  <2>2. req[r].at = "idle" /\ UNCHANGED <<status, job, pc, epoch>>
    BY <1>1 DEF RequestArrives, StartRead, CancelRead, ApproveRead, tables,
                workers, Idle
  <2>3. \A t \in Tasks : /\ Enqueuing(t) => Enqueuing(t)'
                         /\ Cancelling(t) => Cancelling(t)'
    BY <2>1, <2>2 DEF Enqueuing, Cancelling, At
  <2> QED BY <2>2, <2>3 DEF QueuedHasJob, SettledAhead, Owns, Owner, PastRun
<1>2. CASE StartUpdate(r)
  <2>0. PICK u \in Tasks : u = req[r].task
    BY <1>2, RequestTask DEF StartUpdate, ReqAt
  <2>1. /\ UNCHANGED <<job, pc, epoch>>
        /\ \A t \in Tasks : t # u => status'[t] = status[t]
        /\ \A q \in Requests : q # r => req'[q] = req[q]
    BY <1>2, <2>0 DEF StartUpdate, GoesTo, workers, TypeOK
  <2>2. Enqueuing(u)'
    BY <1>2, <2>0 DEF StartUpdate, GoesTo, TypeOK, Enqueuing, At
  <2>3. \A t \in Tasks : /\ Enqueuing(t) => Enqueuing(t)'
                         /\ Cancelling(t) => Cancelling(t)'
    BY <1>2, <2>1 DEF StartUpdate, Enqueuing, Cancelling, At
  <2>4. QueuedHasJob'
    BY <2>1, <2>2, <2>3 DEF QueuedHasJob
  <2>5. \A w \in Workers : PastRun(w)' <=> PastRun(w)
    BY <2>1 DEF PastRun
  <2>6. \A w \in Workers, t \in Tasks : Owns(w, t)' <=> Owns(w, t)
    BY <2>1 DEF Owns, Owner
  <2>7. SettledAhead'
    BY <2>1, <2>2, <2>3, <2>5, <2>6 DEF SettledAhead
  <2> QED BY <2>4, <2>7
<1>3. CASE StartEnqueue(r)
  <2>0. req[r].task \in Tasks
    BY <1>3, RequestTask DEF StartEnqueue, ReqAt
  <2>1. /\ UNCHANGED <<status, pc, epoch>>
        /\ \A t \in Tasks : t # req[r].task => job'[t] = job[t]
        /\ \A q \in Requests : q # r => req'[q] = req[q]
        /\ job'[req[r].task] = Enqueued
    BY <1>3, <2>0 DEF StartEnqueue, Answered, workers, TypeOK
  <2>2. \A t \in Tasks : /\ Enqueuing(t) => Enqueuing(t)' \/ t = req[r].task
                         /\ Cancelling(t) => Cancelling(t)'
    BY <1>3, <2>1 DEF StartEnqueue, Enqueuing, Cancelling, At
  <2>3. \A t \in Tasks : job'[t].owner \in {job[t].owner, NoOwner}
    BY <2>1, FreshRows
  <2>4. \A t \in Tasks : status'[t] = "queued" => HasWork(t)'
    BY <2>1, <2>2, FreshRows DEF QueuedHasJob, HasWork
  <2>5. \A t \in Tasks : Enqueuing(t) => Enqueuing(t)' \/ job'[t].owner = NoOwner
    BY <2>1, <2>2, FreshRows
  <2> QED BY <2>1, <2>3, <2>4, <2>5, KeepsQueued DEF PastRun
<1>4. CASE CancelJob(r)
  <2>0. PICK u \in Tasks : u = req[r].task
    BY <1>4, RequestTask DEF CancelJob, ReqAt
  <2>1. /\ UNCHANGED <<status, pc, epoch>>
        /\ \A t \in Tasks : t # u => job'[t] = job[t]
        /\ \A q \in Requests : q # r => req'[q] = req[q]
        /\ \A t \in Tasks : job'[t] = job[t] \/ job'[t] = Released(job[t], "cancelled")
    BY <1>4, <2>0 DEF CancelJob, GoesTo, workers, TypeOK
  <2>2. Cancelling(u)'
    BY <1>4, <2>0 DEF CancelJob, GoesTo, TypeOK, Cancelling, At
  <2>3. \A t \in Tasks : /\ Enqueuing(t) => Enqueuing(t)'
                         /\ Cancelling(t) => Cancelling(t)'
    BY <1>4, <2>1 DEF CancelJob, Enqueuing, Cancelling, At
  <2>4. \A t \in Tasks : job'[t].owner \in {job[t].owner, NoOwner}
    BY <2>1, ReleasedRow DEF TypeOK, JobStatus
  <2>5. \A t \in Tasks : status'[t] = "queued" => HasWork(t)'
    BY <2>1, <2>2, <2>3 DEF QueuedHasJob, HasWork
  <2> QED BY <2>1, <2>3, <2>4, <2>5, KeepsQueued DEF PastRun
<1>5. CASE CancelUpdate(r) \/ CancelFlag(r) \/ ApproveUpdate(r)
  <2>0. req[r].task \in Tasks
    BY <1>5, RequestTask DEF CancelUpdate, CancelFlag, ApproveUpdate, ReqAt
  <2>1. /\ UNCHANGED <<job, pc, epoch>>
        /\ \A q \in Requests : q # r => req'[q] = req[q]
        /\ req[r].at # "start_enqueue"
    BY <1>5 DEF CancelUpdate, CancelFlag, ApproveUpdate, Answered, At, workers, TypeOK
  <2>2. \A t \in Tasks : status'[t] = "queued" =>
            status[t] = "queued" /\ (t = req[r].task => req[r].at # "cancel_update")
    BY <1>5, <2>0 DEF CancelUpdate, CancelFlag, ApproveUpdate, At, TypeOK
  <2>3. \A t \in Tasks : Enqueuing(t) => Enqueuing(t)'
    BY <2>1 DEF Enqueuing, At
  <2>4. \A t \in Tasks : status'[t] = "queued" /\ Cancelling(t) => Cancelling(t)'
    BY <2>1, <2>2 DEF Cancelling, At
  <2>5. \A t \in Tasks : status'[t] = "queued" => HasWork(t)'
    BY <2>1, <2>2, <2>3, <2>4 DEF QueuedHasJob, HasWork
  <2> QED BY <2>1, <2>2, <2>3, <2>5, KeepsQueued DEF PastRun
<1>6. CASE RequestDies(r)
    BY <1>6 DEF RequestDies, Fault, HandlersFinish
<1> QED BY <1>1, <1>2, <1>3, <1>4, <1>5, <1>6 DEF RequestStep

\* A worker queues a task only together with its job, and settles a queued one
\* only ahead of a start.
LEMMA WorkerKeepsQueued ==
    ASSUME QueuedInv, NEW w \in Workers, WorkerStep(w)
    PROVE  QueuedHasJob' /\ SettledAhead'
<1> USE DEF QueuedInv, LeaseInv
<1>0. req' = req /\ epoch' = epoch
    BY DEF WorkerStep, Lease, LeaseNothing, workers, RunStep, RunBegin,
           CheckCancelled, Enter, Finish, Announce, AnnounceFails, RunCancelled,
           RunFailed, SettleStep, Observe, SettleFailed, SettleCancelled,
           SettleDelivered, SettleUnexpected, Settled
<1>1. \A t \in Tasks : /\ Enqueuing(t)' <=> Enqueuing(t)
                       /\ Cancelling(t)' <=> Cancelling(t)
    BY <1>0 DEF Enqueuing, Cancelling, At
<1>2. ASSUME NEW t \in Tasks, Lease(w, t) PROVE QueuedHasJob' /\ SettledAhead'
  <2>1. job'[t].status = "leased" /\ job'[t].owner = <<epoch, w>> /\ pc'[w] = "run"
    BY <1>2, RecoveredRows, LeasedRow DEF Lease, TypeOK
  <2>2. \A u \in Tasks : u # t => job'[u] = RecoveredJobs[u]
    BY <1>2, RecoveredRows DEF Lease
  <2>3. QueuedHasJob'
    BY <1>1, <1>2, <2>1, <2>2, RecoveredRows DEF QueuedHasJob, Lease
  <2>4. ASSUME NEW u \in Tasks, NEW v \in Workers, job'[u].owner = <<epoch, v>>,
               PastRun(v)', status'[u] = "queued"
        PROVE  Enqueuing(u)
    <3>1. v # w /\ PastRun(v)
      BY <1>2, <2>1, <2>4 DEF PastRun, Lease, TypeOK, Busy
    <3>2. u # t
      BY <2>1, <2>4, <3>1
    <3>3. NoOwner # <<epoch, v>>
      BY OwnerNames DEF TypeOK
    <3>4. job'[u] = job[u] /\ status'[u] = status[u]
      BY <1>2, <2>2, <2>4, <3>2, <3>3, RecoveredRows DEF Lease
    <3> QED BY <2>4, <3>1, <3>4 DEF SettledAhead, Owns, Owner
  <2> QED BY <1>0, <1>1, <2>3, <2>4 DEF SettledAhead, Owns, Owner
<1>3. CASE LeaseNothing(w)
  <2>1. QueuedHasJob'
    BY <1>1, <1>3, RecoveredRows DEF QueuedHasJob, LeaseNothing
  <2>2. ASSUME NEW u \in Tasks, NEW v \in Workers, job'[u].owner = <<epoch, v>>,
               PastRun(v)', status'[u] = "queued"
        PROVE  Enqueuing(u)
    <3>1. NoOwner # <<epoch, v>>
      BY OwnerNames DEF TypeOK
    <3>2. job'[u] = job[u] /\ status'[u] = status[u]
      BY <1>3, <2>2, <3>1, RecoveredRows DEF LeaseNothing
    <3> QED BY <1>3, <2>2, <3>2 DEF SettledAhead, Owns, Owner, PastRun,
                                    LeaseNothing, workers
  <2> QED BY <1>0, <1>1, <2>1, <2>2 DEF SettledAhead, Owns, Owner
<1>4. CASE RunStep(w)
  <2>1. Holder(w) /\ cur[w] \in Tasks
    BY <1>4 DEF RunStep, RunBegin, CheckCancelled, Enter, Finish, Announce,
        AnnounceFails, RunCancelled, RunFailed, Holder, Busy, Executing, LocalsOK
  <2>2. /\ job' = job
        /\ \A v \in Workers : v # w => pc'[v] = pc[v]
        /\ \A t \in Tasks : status'[t] = "queued" => status[t] = "queued"
    BY <1>4, <2>1
    DEF RunStep, RunBegin, CheckCancelled, Enter, Finish, Announce,
        AnnounceFails, RunCancelled, RunFailed, Reaches, Writes, tables, TypeOK
  <2>3. PastRun(w) \/ status'[cur[w]] # "queued"
    BY <1>4, <2>1
    DEF RunStep, RunBegin, CheckCancelled, Enter, Finish, Announce,
        AnnounceFails, RunCancelled, RunFailed, Writes, TypeOK, PastRun, Busy,
        Executing
  <2>4. \A t \in Tasks, v \in Workers :
            Owns(v, t) /\ PastRun(v)' /\ status'[t] = "queued" => PastRun(v)
    BY <2>2, <2>3 DEF LeaseHeldByItsWorker, PastRun
  <2>5. \A t \in Tasks : status'[t] = "queued" => HasWork(t)'
    BY <1>1, <2>2 DEF QueuedHasJob, HasWork
  <2> QED BY <1>0, <1>1, <2>2, <2>4, <2>5, KeepsQueued
<1>5. CASE Observe(w)
  <2>1. UNCHANGED <<status, job>>
    BY <1>5 DEF Observe, tables
  <2>2. \A v \in Workers : PastRun(v)' => PastRun(v)
    BY <1>5 DEF Observe, Reaches, TypeOK, PastRun, Busy, Executing
  <2> QED BY <1>0, <1>1, <2>1, <2>2 DEF QueuedHasJob, SettledAhead, Owns, Owner
<1>6. CASE SettleFailed(w) \/ SettleCancelled(w) \/ SettleDelivered(w)
           \/ SettleUnexpected(w)
  <2>1. pc[w] = "settle" /\ cur[w] \in Tasks /\ Settled(w)
    BY <1>6 DEF SettleFailed, SettleCancelled, SettleDelivered,
                SettleUnexpected, Holder, Busy, LocalsOK
  <2>2. \/ FailJob(w, cur[w])
        \/ CompleteJob(w, cur[w], "cancelled")
        \/ CompleteJob(w, cur[w], "completed")
    BY <1>6 DEF SettleFailed, SettleCancelled, SettleDelivered, SettleUnexpected
  <2>3. \A v \in Workers : PastRun(v)' => PastRun(v)
    BY <2>1 DEF Settled, Reaches, TypeOK, PastRun, Busy, Executing
  <2>4. CASE UNCHANGED <<status, job>>
    BY <1>0, <1>1, <2>3, <2>4 DEF QueuedHasJob, SettledAhead, Owns, Owner
  <2>5. CASE Owns(w, cur[w])
    <3>1. job'[cur[w]] \in {FailedJob(job[cur[w]]), Released(job[cur[w]], "cancelled"),
                            Released(job[cur[w]], "completed")}
      BY <2>1, <2>2, <2>5 DEF FailJob, CompleteJob, TypeOK
    <3>2. job'[cur[w]].owner = NoOwner
      BY <2>1, <3>1, FailedRow, ReleasedRow DEF TypeOK, JobStatus
    <3>3. \A t \in Tasks : t # cur[w] => job'[t] = job[t] /\ status'[t] = status[t]
      BY <2>1, <2>2 DEF FailJob, CompleteJob, TypeOK
    <3>4. \/ job'[cur[w]].status = "pending"
          \/ status'[cur[w]] = status[cur[w]]
      BY <2>1, <2>2, <2>5, FailedRow DEF FailJob, CompleteJob, TypeOK
    <3>5. status[cur[w]] = "queued" => Enqueuing(cur[w])
      BY <2>1, <2>5 DEF SettledAhead, PastRun, Busy
    <3>6. QueuedHasJob'
      BY <1>1, <3>3, <3>4, <3>5 DEF QueuedHasJob
    <3>7. ASSUME NEW u \in Tasks, NEW v \in Workers, job'[u].owner = <<epoch, v>>,
                 PastRun(v)', status'[u] = "queued"
          PROVE  Enqueuing(u)
      <4>1. u # cur[w]
        BY <3>2, <3>7, OwnerNames DEF TypeOK
      <4> QED BY <2>3, <3>3, <3>7, <4>1 DEF SettledAhead, Owns, Owner
    <3> QED BY <1>0, <1>1, <3>6, <3>7 DEF SettledAhead, Owns, Owner
  <2> QED BY <2>2, <2>4, <2>5 DEF FailJob, CompleteJob
<1> QED BY <1>2, <1>3, <1>4, <1>5, <1>6 DEF WorkerStep, SettleStep

\* The steps outside the handlers and the workers take no job away from a
\* queued task.
LEMMA OthersKeepQueued ==
    ASSUME QueuedInv, HandlersFinish,
           \/ \E w \in Workers : Renew(w) \/ RenewerDies(w) \/ ThreadDies(w)
           \/ \E t \in Tasks : CleanupJob(t)
           \/ Crash \/ Boot \/ Tick
    PROVE  QueuedHasJob' /\ SettledAhead'
<1> USE DEF QueuedInv, LeaseInv
<1>1. ~Crash
    BY DEF Crash, Fault, HandlersFinish
<1>2. req' = req /\ epoch' = epoch
    BY <1>1 DEF Renew, RenewerDies, ThreadDies, CleanupJob, Boot, Tick, workers
<1>3. \A t \in Tasks : /\ Enqueuing(t)' <=> Enqueuing(t)
                       /\ Cancelling(t)' <=> Cancelling(t)
    BY <1>2 DEF Enqueuing, Cancelling, At
<1>4. CASE Boot
  <2>1. QueuedHasJob'
    BY <1>3, <1>4, RecoveredRows DEF QueuedHasJob, Boot
  <2>2. \A w \in Workers : ~PastRun(w)'
    BY <1>4 DEF Boot, PastRun, Busy, Executing
  <2> QED BY <2>1, <2>2 DEF SettledAhead
<1>5. ASSUME NEW w \in Workers, Renew(w) \/ RenewerDies(w) \/ ThreadDies(w)
      PROVE  QueuedHasJob' /\ SettledAhead'
  <2>1. \A t \in Tasks : /\ job'[t].status = job[t].status
                         /\ job'[t].owner = job[t].owner
    BY <1>5 DEF Renew, RenewerDies, ThreadDies, tables, TypeOK, Job
  <2>2. status' = status /\ \A v \in Workers : PastRun(v)' => PastRun(v)
    BY <1>5 DEF Renew, RenewerDies, ThreadDies, Reaches, tables, TypeOK,
                PastRun, Busy, Executing
  <2> QED BY <1>2, <1>3, <2>1, <2>2 DEF QueuedHasJob, SettledAhead, Owns, Owner
<1>6. ASSUME NEW t \in Tasks, CleanupJob(t) PROVE QueuedHasJob' /\ SettledAhead'
  <2>1. /\ job'[t] = NoJob /\ job[t].status \notin {"pending", "leased"}
        /\ \A u \in Tasks : u # t => job'[u] = job[u]
        /\ UNCHANGED <<status, pc>>
    BY <1>6 DEF CleanupJob, TypeOK, workers, Finished
  <2>2. \A u \in Tasks : status'[u] = "queued" => HasWork(u)'
    BY <1>3, <2>1 DEF QueuedHasJob, HasWork
  <2>3. \A u \in Tasks : job'[u].owner \in {job[u].owner, NoOwner}
    BY <2>1, FreshRows
  <2> QED BY <1>2, <1>3, <2>1, <2>2, <2>3, KeepsQueued DEF PastRun
<1>7. CASE Tick
  <2>1. \A t \in Tasks : /\ job'[t].status = job[t].status
                         /\ job'[t].owner = job[t].owner
    BY <1>7, TickedRow DEF Tick, TypeOK
  <2> QED BY <1>2, <1>3, <1>7, <2>1 DEF Tick, QueuedHasJob, SettledAhead, Owns,
                                    Owner, PastRun
<1> QED BY <1>1, <1>4, <1>5, <1>6, <1>7

\* If no handler is lost between its transactions, then a queued task always
\* has a job that can be leased or whose lease can expire, or a handler about
\* to write its next state: threads and renewers may die, leases may expire
\* under a live worker, and any number of requests may overlap.
THEOREM QueuedTasksHaveJobs ==
    ASSUME HandlersFinish
    PROVE  Spec => []QueuedHasJob
<1>1. QueuedInv /\ [Next]_vars => QueuedInv'
  <2> SUFFICES ASSUME QueuedInv, [Next]_vars PROVE QueuedInv'
    OBVIOUS
  <2>1. LeaseInv'
    BY NextLeaseInv DEF QueuedInv
  <2>2. CASE UNCHANGED vars
    BY <2>1, <2>2
    DEF QueuedInv, vars, tables, workers, QueuedHasJob, SettledAhead, Owns,
        Owner, PastRun, Enqueuing, Cancelling, At
  <2>3. CASE Next
    BY <2>1, <2>3, RequestKeepsQueued, WorkerKeepsQueued, OthersKeepQueued
    DEF Next, QueuedInv
  <2> QED BY <2>2, <2>3
<1>2. QueuedInv => QueuedHasJob
    BY DEF QueuedInv
<1> QED BY <1>1, <1>2, InitQueuedInv, PTL DEF Spec

-----------------------------------------------------------------------------
(***************************************************************************)
(* JobQueue implements LeaseService: the rows of the table jobs, seen      *)
(* through LeaseOf, change only as the lease service allows.               *)
(***************************************************************************)

(* The abstract value of the table, and how the writes of a row show in it *)

Leases == [t \in Tasks |-> LeaseOf(job[t])]

\* A write that keeps status, attempts and owner of every row is not seen.
LEMMA SameClaimsStutter ==
    ASSUME \A t \in Tasks : SameClaim(job[t], job'[t])
    PROVE  UNCHANGED Leases
BY DEF Leases, LeaseOf, SameClaim

\* What the phases of the rows are.
LEMMA Phases ==
    /\ Phase("none") = "none" /\ Phase("pending") = "waiting"
    /\ Phase("leased") = "held"
    /\ \A s \in Finished : Phase(s) = "done"
    /\ \A s \in JobStatus : Phase(s) = "waiting" => s = "pending"
BY DEF Phase, Finished, JobStatus

\* How a row of the table is read as a row of the service.
LEMMA LeaseFields ==
    ASSUME NEW j
    PROVE  /\ LeaseOf(j).phase = Phase(j.status)
           /\ LeaseOf(j).holder = j.owner
           /\ LeaseOf(j).grants = j.attempts
BY DEF LeaseOf

\* The rows that recovery takes back are held.
LEMMA RecoveryRevokes ==
    ASSUME TypeOK
    PROVE  LET S == {t \in Tasks : Expired(job[t])}
           IN  /\ S \in SUBSET Service!Held
               /\ [t \in Tasks |-> LeaseOf(RecoveredJobs[t])] = Service!Revoked(S)
               /\ \A t \in Tasks : Service!Revoked(S)[t] = LeaseOf(RecoveredJobs[t])
<1> DEFINE S == {t \in Tasks : Expired(job[t])}
<1>1. S \in SUBSET Service!Held
    BY Phases DEF Expired, Service!Held, LeaseOf
<1>2. ASSUME NEW t \in Tasks
      PROVE  LeaseOf(RecoveredJobs[t]) = Service!Revoked(S)[t]
    BY Phases DEF RecoveredJobs, Service!Revoked, Service!Row, LeaseOf, Released
<1>3. Service!Revoked(S) = [t \in Tasks |-> Service!Revoked(S)[t]]
    BY DEF Service!Revoked
<1> QED BY <1>1, <1>2, <1>3

\* A row that is finished or cancelled while it waits or is held is Finish.
LEMMA ReleaseFinishes ==
    ASSUME TypeOK, NEW t \in Tasks, NEW s \in Finished,
           job[t].status \in {"pending", "leased"},
           job' = [job EXCEPT ![t] = Released(job[t], s)]
    PROVE  Service!Finish(t)
BY Phases DEF TypeOK, Released, Service!Finish, Service!Row, LeaseOf

\* A start offers the work again, whoever held it.
LEMMA EnqueueOffers ==
    ASSUME TypeOK, NEW t \in Tasks, job' = [job EXCEPT ![t] = Enqueued]
    PROVE  Service!Offer(t)
BY Phases DEF TypeOK, Enqueued, Released, NoJob, Service!Offer, Service!Row, LeaseOf

\* A job that fail_job queues again is taken back from its holder.
LEMMA RetryRevokes ==
    ASSUME TypeOK, NEW t \in Tasks, job[t].status = "leased", Retries(job[t]),
           job' = [job EXCEPT ![t] = FailedJob(job[t])]
    PROVE  {t} \in SUBSET Service!Held /\ Leases' = Service!Revoked({t})
<1>1. {t} \in SUBSET Service!Held
    BY Phases DEF Service!Held, LeaseOf
<1>2. ASSUME NEW u \in Tasks
      PROVE  LeaseOf(job'[u]) = Service!Revoked({t})[u]
    BY Phases DEF TypeOK, FailedJob, Released, Service!Revoked, Service!Row, LeaseOf
<1>3. Service!Revoked({t}) = [u \in Tasks |-> Service!Revoked({t})[u]]
    BY DEF Service!Revoked
<1> QED BY <1>1, <1>2, <1>3 DEF Leases

-----------------------------------------------------------------------------
(* One lemma per group of actions                                          *)

LeaseStep == Service!Next \/ UNCHANGED Leases

\* The handlers of the API offer work or withdraw what nobody holds.
LEMMA RequestRefines ==
    ASSUME LeaseInv, NEW r \in Requests,
           RequestArrives(r) \/ RequestStep(r) \/ RequestDies(r)
    PROVE  LeaseStep
<1> USE DEF LeaseInv
<1>1. CASE StartEnqueue(r)
  <2>1. req[r].task \in Tasks
    BY <1>1, RequestTask DEF StartEnqueue, ReqAt
  <2>2. Service!Offer(req[r].task)
    BY <1>1, <2>1, EnqueueOffers DEF StartEnqueue
  <2> QED BY <2>1, <2>2 DEF LeaseStep, Service!Next
<1>2. CASE CancelJob(r)
  <2>1. req[r].task \in Tasks
    BY <1>2, RequestTask DEF CancelJob, ReqAt
  <2>2. CASE job[req[r].task].status = "pending"
    <3>1. Service!Finish(req[r].task)
      BY <1>2, <2>1, <2>2, ReleaseFinishes DEF CancelJob, Finished
    <3> QED BY <2>1, <3>1 DEF LeaseStep, Service!Next
  <2>3. CASE job[req[r].task].status # "pending"
    BY <1>2, <2>3 DEF CancelJob, LeaseStep, Leases
  <2> QED BY <2>2, <2>3
<1>3. CASE UNCHANGED job
    BY <1>3 DEF LeaseStep, Leases
<1> QED BY <1>1, <1>2, <1>3
        DEF RequestArrives, StartRead, CancelRead, ApproveRead, RequestStep,
            StartUpdate, CancelUpdate, CancelFlag, ApproveUpdate, RequestDies, tables

\* lease_job takes back what has expired and grants one row that waits to a thread
\* that holds none: an idle thread owns nothing.
LEMMA LeaseRefines ==
    ASSUME LeaseInv, NEW w \in Workers, NEW t \in Tasks, Lease(w, t)
    PROVE  LeaseStep
<1> USE DEF LeaseInv
<1> DEFINE S == {u \in Tasks : Expired(job[u])}
           rows == Service!Revoked(S)
<1>1. S \in SUBSET Service!Held /\ [u \in Tasks |-> LeaseOf(RecoveredJobs[u])] = rows
    BY RecoveryRevokes
<1>2. \A u \in Tasks : rows[u] = LeaseOf(RecoveredJobs[u])
    BY RecoveryRevokes
<1> HIDE DEF S, rows
<1>3. rows[t].phase = "waiting"
  <2>1. RecoveredJobs[t].status = "pending"
    BY DEF Lease, IsOldest, Available
  <2> QED BY <1>2, <2>1, LeaseFields, Phases
<1>4. <<epoch, w>> \in OwnerId /\ <<epoch, w>> # NoOwner
    BY OwnerNames DEF TypeOK
<1>5. ASSUME NEW u \in Tasks PROVE rows[u].holder # <<epoch, w>>
  <2>1. job[u].owner # <<epoch, w>>
    BY DEF Lease, LeaseHeldByItsWorker, Owns, Owner, Busy, Executing
  <2>2. RecoveredJobs[u].owner \in {job[u].owner, NoOwner}
    BY RecoveredRows
  <2>3. rows[u].holder = RecoveredJobs[u].owner
    BY <1>2, LeaseFields
  <2> QED BY <1>4, <2>1, <2>2, <2>3
<1>6. ASSUME NEW u \in Tasks
      PROVE  LeaseOf(job'[u]) =
                 IF u = t THEN Service!Row("held", <<epoch, w>>, rows[t].grants + 1)
                 ELSE rows[u]
  <2>1. CASE u = t
    <3>1. job'[t] = LeasedTo(RecoveredJobs[t], w)
      BY RecoveredRows DEF Lease
    <3>2. rows[t].grants = RecoveredJobs[t].attempts
      BY <1>2, LeaseFields
    <3> QED BY <2>1, <3>1, <3>2, Phases DEF LeasedTo, Owner, Service!Row, LeaseOf
  <2>2. CASE u # t
    BY <2>2, <1>2, RecoveredRows DEF Lease
  <2> QED BY <2>1, <2>2
<1>7. Leases' = [rows EXCEPT ![t] = Service!Row("held", <<epoch, w>>, rows[t].grants + 1)]
    BY <1>6 DEF Leases, rows, Service!Revoked
<1>8. Leases'[t].holder = <<epoch, w>>
    BY <1>7 DEF rows, Service!Row, Service!Revoked
<1>9. Service!Hand(S)
    BY <1>3, <1>4, <1>5, <1>7, <1>8 DEF rows, Service!Hand, Leases
<1> QED BY <1>1, <1>9 DEF LeaseStep, Service!Next

\* Recovery alone, by an idle worker or by a process that starts.
LEMMA RecoveryRefines ==
    ASSUME LeaseInv, Boot \/ \E w \in Workers : LeaseNothing(w)
    PROVE  LeaseStep
<1> DEFINE S == {u \in Tasks : Expired(job[u])}
<1>1. /\ S \in SUBSET Service!Held
      /\ [u \in Tasks |-> LeaseOf(RecoveredJobs[u])] = Service!Revoked(S)
    BY RecoveryRevokes DEF LeaseInv
<1>2. job' = RecoveredJobs
    BY DEF Boot, LeaseNothing
<1>3. Service!Hand(S)
    BY <1>1, <1>2 DEF Service!Hand
<1> QED BY <1>1, <1>3 DEF LeaseStep, Service!Next

\* A thread that settles finishes or gives back what it holds, and touches no
\* row it has lost.
LEMMA SettleRefines ==
    ASSUME LeaseInv, NEW w \in Workers, SettleStep(w)
    PROVE  LeaseStep
<1> USE DEF LeaseInv
<1> DEFINE t == cur[w]
<1>1. CASE Observe(w)
    BY <1>1 DEF Observe, tables, LeaseStep, Leases
<1>2. CASE ~Observe(w)
  <2>1. t \in Tasks
    BY <1>2 DEF SettleStep, SettleFailed, SettleCancelled, SettleDelivered,
                SettleUnexpected, LocalsOK, Busy
  <2>2. FailJob(w, t) \/ \E s \in Finished : CompleteJob(w, t, s)
    BY <1>2 DEF SettleStep, SettleFailed, SettleCancelled, SettleDelivered,
                SettleUnexpected, Finished
  <2>3. CASE ~Owns(w, t)
    BY <2>2, <2>3 DEF FailJob, CompleteJob, LeaseStep, Leases
  <2>4. CASE Owns(w, t)
    <3>1. job[t].status = "leased" /\ job[t] \in Job
      BY <2>1, <2>4, OwnerNames DEF Owns, Owner, LeaseHeldByItsWorker, Leased, TypeOK
    <3>2. ASSUME NEW s \in Finished, CompleteJob(w, t, s) PROVE LeaseStep
      BY <2>1, <2>4, <3>1, <3>2, ReleaseFinishes DEF CompleteJob, LeaseStep, Service!Next
    <3>3. CASE FailJob(w, t) /\ Retries(job[t])
      <4>1. {t} \in SUBSET Service!Held /\ Leases' = Service!Revoked({t})
        BY <2>1, <2>4, <3>1, <3>3, RetryRevokes DEF FailJob
      <4>2. Service!Hand({t})
        BY <4>1 DEF Service!Hand, Leases
      <4> QED BY <4>1, <4>2 DEF LeaseStep, Service!Next
    <3>4. CASE FailJob(w, t) /\ ~Retries(job[t])
      <4>1. Service!Finish(t)
        <5>1. job' = [job EXCEPT ![t] = FailedJob(job[t])] /\ job \in [Tasks -> Job]
          BY <2>4, <3>4 DEF FailJob, TypeOK
        <5>2. /\ FailedJob(job[t]).status = "failed"
              /\ FailedJob(job[t]).attempts = job[t].attempts
              /\ FailedJob(job[t]).owner = NoOwner
          BY <3>4 DEF FailedJob, Released
        <5>3. LeaseOf(FailedJob(job[t])) = Service!Row("done", NoOwner, LeaseOf(job[t]).grants)
          BY <5>2, Phases DEF LeaseOf, Service!Row, Finished
        <5>4. Leases' = [Leases EXCEPT ![t] = LeaseOf(FailedJob(job[t]))]
          BY <2>1, <5>1 DEF Leases
        <5>5. Leases[t].phase = "held" /\ Leases[t] = LeaseOf(job[t])
          BY <2>1, <3>1, Phases DEF Leases, LeaseOf
        <5> QED BY <5>3, <5>4, <5>5 DEF Service!Finish, Leases
      <4> QED BY <2>1, <4>1 DEF LeaseStep, Service!Next
    <3> QED BY <2>2, <3>2, <3>3, <3>4
  <2> QED BY <2>3, <2>4
<1> QED BY <1>1, <1>2

\* The renewer and the clock change no claim.
LEMMA TimeRefines ==
    ASSUME LeaseInv, Tick \/ \E w \in Workers : Renew(w)
    PROVE  LeaseStep
<1> SUFFICES \A t \in Tasks : SameClaim(job[t], job'[t])
    BY SameClaimsStutter DEF LeaseStep
<1>1. CASE Tick
    BY <1>1 DEF Tick, Ticked, SameClaim
<1>2. ASSUME NEW w \in Workers, Renew(w)
      PROVE  \A t \in Tasks : SameClaim(job[t], job'[t])
    BY <1>2 DEF LeaseInv, TypeOK, Job, Renew, SameClaim
<1> QED BY <1>1, <1>2

\* The retention job forgets what is done.
LEMMA CleanupRefines ==
    ASSUME LeaseInv, NEW t \in Tasks, CleanupJob(t)
    PROVE  LeaseStep
<1>1. Service!Forget(t)
    BY Phases DEF LeaseInv, TypeOK, CleanupJob, NoJob, Service!Forget, Service!Row, LeaseOf
<1> QED BY <1>1 DEF LeaseStep, Service!Next

\* What a run does to the task row, and what breaks, is not seen.
LEMMA OthersRefine ==
    ASSUME NEW w \in Workers, RunStep(w) \/ RenewerDies(w) \/ ThreadDies(w) \/ Crash
    PROVE  LeaseStep
BY DEF RunStep, RunBegin, CheckCancelled, Enter, Finish, Announce, AnnounceFails,
       RunCancelled, RunFailed, RenewerDies, ThreadDies, Crash, tables, LeaseStep, Leases

-----------------------------------------------------------------------------

\* The empty table is a service that was offered nothing.
LEMMA InitRefines == Init => Service!Init
BY Phases DEF Init, NoJob, Service!Init, Service!Row, LeaseOf

\* Every step of the queue is a step of the service or is not seen by it.
LEMMA NextRefines == LeaseInv /\ [Next]_vars => LeaseStep
<1> SUFFICES ASSUME LeaseInv, [Next]_vars PROVE LeaseStep
    OBVIOUS
<1>1. CASE UNCHANGED vars
    BY <1>1 DEF vars, tables, LeaseStep, Leases
<1>2. CASE Crash
    BY <1>2 DEF Crash, tables, LeaseStep, Leases
<1> QED BY <1>1, <1>2, RequestRefines, LeaseRefines, RecoveryRefines, SettleRefines,
           TimeRefines, CleanupRefines, OthersRefine
        DEF Next, WorkerStep

\* The queue implements the lease service, for any number of tasks, threads and
\* requests, any lease, late renewals and every kind of fault: a job has one
\* owner at a time and an owner one job, every lease is counted, and a job that
\* is done comes back by a new start only.
THEOREM QueueImplementsLeaseService == Spec => ImplementsLeaseService
<1>1. LeaseInv /\ [Next]_vars => [Service!Next]_Leases
    BY NextRefines DEF LeaseStep
<1> QED BY <1>1, InitRefines, SpecLeaseInv, PTL
        DEF Spec, ImplementsLeaseService, Service!Spec, Leases

-----------------------------------------------------------------------------
(***************************************************************************)
(* What JobQueue owes to its clock: if renewals are punctual and a lease   *)
(* outlasts the interval between two of them, only a fault lets a lease    *)
(* expire.  So a job is leased no more often than its failures and the     *)
(* faults explain.  And task by task, late renewals or not: until a task   *)
(* is disputed, no two threads run it and it does not run without a lease. *)
(***************************************************************************)

\* Renewers and handlers take less than a tick, and the lease is longer than the
\* interval of its renewals; AUTOFLOW_JOB_LEASE_SECONDS = 1 would not be.
InTime == Punctual /\ LeaseTicks > 1

-----------------------------------------------------------------------------
(* The retry budget                                                        *)

Renewing(w) == renewIn[w] # NotRenewing

\* A renewer fires before the lease it prolongs runs out.
RenewedInTime ==
    \A t \in Tasks, w \in Workers :
        Owns(w, t) /\ Renewing(w) => renewIn[w] < job[t].lease

Kept(t) == \E w \in Workers : Owns(w, t) /\ Renewing(w)

\* A job that can be leased again, now or when its lease expires, has an attempt
\* left for it: a failed run left one, or a fault paid for it.
LeasableAgain(t) == \/ job[t].status = "pending"
                    \/ Leased(t) /\ ~Kept(t)

Budget ==
    \A t \in Tasks :
        /\ job[t].attempts <= MaxAttempts + faults
        /\ LeasableAgain(t) => job[t].attempts < MaxAttempts + faults

BudgetInv == LeaseInv /\ RenewedInTime /\ Budget

\* A lease is longer than the time to its first renewal.
LEMMA LeaseOutlastsInterval ==
    ASSUME LeaseTicks > 1
    PROVE  RenewInterval \in Nat \ {0} /\ RenewInterval < LeaseTicks
BY ConstantsAssumption DEF RenewInterval

LEMMA Interval ==
    ASSUME InTime
    PROVE  RenewInterval \in Nat \ {0} /\ RenewInterval < LeaseTicks
BY LeaseOutlastsInterval DEF InTime

\* The numbers of a state.
LEMMA Counts ==
    ASSUME TypeOK
    PROVE  /\ faults \in Nat /\ MaxAttempts \in Nat \ {0} /\ epoch \in Nat
           /\ \A t \in Tasks : job[t].attempts \in Nat /\ job[t].lease \in Nat
           /\ \A w \in Workers : renewIn[w] \in Int /\ (Renewing(w) <=> renewIn[w] >= 0)
<1>1. /\ faults \in Nat /\ MaxAttempts \in Nat \ {0} /\ epoch \in Nat
      /\ \A t \in Tasks : job[t].attempts \in Nat /\ job[t].lease \in Nat
    BY ConstantsAssumption DEF TypeOK, Job
<1>2. ASSUME NEW w \in Workers
      PROVE  renewIn[w] \in Int /\ (Renewing(w) <=> renewIn[w] >= 0)
  <2>1. renewIn[w] \in NotRenewing .. RenewInterval
    BY DEF TypeOK
  <2> QED BY <2>1, RenewIntervalType DEF NotRenewing, Renewing
<1> QED BY <1>1, <1>2

\* A lease that has run out is not kept by anybody, so a fault has paid for it.
LEMMA RecoveredBudget ==
    ASSUME BudgetInv, NEW t \in Tasks
    PROVE  \/ RecoveredJobs[t] = job[t]
           \/ /\ RecoveredJobs[t].owner = NoOwner
              /\ RecoveredJobs[t].status = "pending"
              /\ RecoveredJobs[t].attempts = job[t].attempts
              /\ job[t].attempts < MaxAttempts + faults
              /\ Leased(t) /\ ~Kept(t)
<1>1. CASE Expired(job[t])
  <2>1. Leased(t) /\ ~Kept(t)
    BY <1>1, Counts DEF BudgetInv, LeaseInv, Expired, Leased, Kept, RenewedInTime
  <2>2. RecoveredJobs[t] = Released(job[t], "pending")
    BY <1>1 DEF RecoveredJobs
  <2> QED BY <2>1, <2>2 DEF BudgetInv, Budget, LeasableAgain, Released
<1>2. CASE ~Expired(job[t])
    BY <1>2 DEF RecoveredJobs
<1> QED BY <1>1, <1>2

\* A step that gives out no lease and stops no renewer of one.
LEMMA KeepsBudget ==
    ASSUME BudgetInv, TypeOK', epoch' = epoch, faults' >= faults,
           \A t \in Tasks :
               \/ job'[t] = job[t]
               \/ /\ job'[t].owner = NoOwner
                  /\ job'[t].status # "leased"
                  /\ job'[t].attempts <= MaxAttempts + faults'
                  /\ job'[t].status = "pending" => job'[t].attempts < MaxAttempts + faults',
           \A w \in Workers :
               \/ renewIn'[w] = renewIn[w]
               \/ \A t \in Tasks : job'[t].owner # <<epoch, w>>
    PROVE  RenewedInTime' /\ Budget'
<1>1. ASSUME NEW w \in Workers PROVE <<epoch, w>> # NoOwner
    BY OwnerNames DEF BudgetInv, LeaseInv, TypeOK
<1>2. ASSUME NEW t \in Tasks, NEW w \in Workers, Owns(w, t)'
      PROVE  job'[t] = job[t] /\ Owns(w, t) /\ renewIn'[w] = renewIn[w]
    BY <1>1, <1>2 DEF Owns, Owner
<1>3. RenewedInTime'
    BY <1>2 DEF BudgetInv, RenewedInTime, Renewing
<1>4. ASSUME NEW t \in Tasks
      PROVE  /\ job'[t].attempts <= MaxAttempts + faults'
             /\ LeasableAgain(t)' => job'[t].attempts < MaxAttempts + faults'
  <2>1. CASE job'[t] = job[t]
    <3>1. Kept(t) => Kept(t)'
      BY <2>1 DEF Kept, Owns, Owner, Renewing
    <3>2. job[t].attempts <= MaxAttempts + faults
      BY DEF BudgetInv, Budget
    <3>3. LeasableAgain(t)' => job[t].attempts < MaxAttempts + faults
      BY <2>1, <3>1 DEF BudgetInv, Budget, LeasableAgain, Leased
    <3> QED BY <2>1, <3>2, <3>3, Counts, ConstantsAssumption DEF BudgetInv, LeaseInv, TypeOK
  <2>2. CASE job'[t] # job[t]
    BY <2>2 DEF LeasableAgain, Leased
  <2> QED BY <2>1, <2>2
<1>5. Budget'
    BY <1>4 DEF Budget
<1> QED BY <1>3, <1>5

\* The handlers of the API and the retention job: a start begins a new budget.
LEMMA RequestKeepsBudget ==
    ASSUME BudgetInv, LeaseInv',
           \/ \E r \in Requests : RequestArrives(r) \/ RequestStep(r) \/ RequestDies(r)
           \/ \E t \in Tasks : CleanupJob(t)
    PROVE  RenewedInTime' /\ Budget'
<1> USE DEF LeaseInv
<1>1. TypeOK /\ faults \in Nat /\ MaxAttempts \in Nat \ {0}
    BY Counts DEF BudgetInv
<1>2. epoch' = epoch /\ renewIn' = renewIn /\ faults' \in {faults, faults + 1}
    BY DEF RequestArrives, StartRead, CancelRead, ApproveRead, RequestStep, StartUpdate,
           StartEnqueue, CancelJob, CancelUpdate, CancelFlag, ApproveUpdate, RequestDies,
           Fault, CleanupJob, workers
<1>3. ASSUME NEW t \in Tasks
      PROVE  \/ job'[t] = job[t]
             \/ job'[t] \in {Enqueued, NoJob}
             \/ job'[t] = Released(job[t], "cancelled")
    BY <1>1
    DEF RequestArrives, StartRead, CancelRead, ApproveRead, RequestStep, StartUpdate,
        StartEnqueue, CancelJob, CancelUpdate, CancelFlag, ApproveUpdate, RequestDies,
        CleanupJob, tables, TypeOK
<1>4. ASSUME NEW t \in Tasks, job'[t] # job[t]
      PROVE  /\ job'[t].owner = NoOwner
             /\ job'[t].status # "leased"
             /\ job'[t].attempts <= MaxAttempts + faults'
             /\ job'[t].status = "pending" => job'[t].attempts < MaxAttempts + faults'
  <2>1. CASE job'[t] \in {Enqueued, NoJob}
    BY <1>1, <1>2, <2>1 DEF Enqueued, Released, NoJob
  <2>2. CASE job'[t] = Released(job[t], "cancelled")
    <3>1. job[t].attempts <= MaxAttempts + faults /\ job[t].attempts \in Nat
      BY <1>1, Counts DEF BudgetInv, Budget
    <3> QED BY <1>1, <1>2, <2>2, <3>1 DEF Released
  <2> QED BY <1>3, <1>4, <2>1, <2>2
<1> QED BY <1>1, <1>2, <1>4, KeepsBudget

\* A run writes no job, and a thread that settles leaves a retry within the
\* budget or none at all.
LEMMA WorkKeepsBudget ==
    ASSUME BudgetInv, LeaseInv', NEW w \in Workers, RunStep(w) \/ SettleStep(w)
    PROVE  RenewedInTime' /\ Budget'
<1> USE DEF LeaseInv
<1>1. TypeOK /\ faults \in Nat /\ MaxAttempts \in Nat \ {0}
    BY Counts DEF BudgetInv
<1>2. CASE RunStep(w) \/ Observe(w)
  <2>1. UNCHANGED <<job, epoch, renewIn>> /\ faults' \in {faults, faults + 1}
    BY <1>2 DEF RunStep, RunBegin, CheckCancelled, Enter, Finish, Announce, AnnounceFails,
                RunCancelled, RunFailed, Observe, tables, Fault
  <2> QED BY <1>1, <2>1, KeepsBudget
<1>3. CASE SettleStep(w) /\ ~Observe(w)
  <2>1. /\ Settled(w)
        /\ \/ FailJob(w, cur[w])
           \/ CompleteJob(w, cur[w], "cancelled")
           \/ CompleteJob(w, cur[w], "completed")
    BY <1>3 DEF SettleStep, SettleFailed, SettleCancelled, SettleDelivered, SettleUnexpected
  <2>2. /\ epoch' = epoch /\ faults' = faults
        /\ \A v \in Workers : v # w => renewIn'[v] = renewIn[v]
    BY <1>1, <2>1 DEF Settled, TypeOK
  <2>3. \A t \in Tasks : job'[t].owner # <<epoch, w>>
    BY <2>1, <2>2 DEF LeaseHeldByItsWorker, Owns, Owner, Settled, Reaches, Busy, Executing,
                      BudgetInv, TypeOK
  <2>4. ASSUME NEW t \in Tasks, job'[t] # job[t]
        PROVE  /\ job'[t].owner = NoOwner
               /\ job'[t].status # "leased"
               /\ job'[t].attempts <= MaxAttempts + faults'
               /\ job'[t].status = "pending" => job'[t].attempts < MaxAttempts + faults'
    <3>1. \/ job'[t] = FailedJob(job[t])
          \/ job'[t] = Released(job[t], "cancelled")
          \/ job'[t] = Released(job[t], "completed")
      BY <1>1, <2>1, <2>4 DEF FailJob, CompleteJob, TypeOK
    <3>2. job[t].attempts <= MaxAttempts + faults /\ job[t].attempts \in Nat /\ job[t] \in Job
      BY <1>1, Counts DEF BudgetInv, Budget, TypeOK
    <3>3. CASE job'[t] = FailedJob(job[t]) /\ Retries(job[t])
      <4>1. job'[t].owner = NoOwner /\ job'[t].status = "pending" /\ job'[t].attempts = job[t].attempts
        BY <3>2, <3>3 DEF FailedJob, Released
      <4> QED BY <1>1, <2>2, <3>2, <3>3, <4>1 DEF Retries
    <3>4. CASE job'[t] = FailedJob(job[t]) /\ ~Retries(job[t])
      <4>1. job'[t].owner = NoOwner /\ job'[t].status = "failed" /\ job'[t].attempts = job[t].attempts
        BY <3>2, <3>4 DEF FailedJob, Released
      <4> QED BY <2>2, <3>2, <4>1
    <3>5. CASE job'[t] \in {Released(job[t], "cancelled"), Released(job[t], "completed")}
      BY <2>2, <3>2, <3>5 DEF Released
    <3> QED BY <3>1, <3>3, <3>4, <3>5
  <2> QED BY <1>1, <2>2, <2>3, <2>4, KeepsBudget
<1> QED BY <1>2, <1>3

\* Recovery queues what a fault has paid for.
LEMMA RecoveryKeepsBudget ==
    ASSUME BudgetInv, LeaseInv', Boot \/ \E w \in Workers : LeaseNothing(w)
    PROVE  RenewedInTime' /\ Budget'
<1>1. job' = RecoveredJobs /\ UNCHANGED <<renewIn, epoch, faults>>
    BY DEF Boot, LeaseNothing, workers
<1>2. faults \in Nat /\ MaxAttempts \in Nat /\ \A t \in Tasks : job[t].attempts \in Nat
    BY Counts DEF BudgetInv, LeaseInv
<1> QED BY <1>1, <1>2, RecoveredBudget, KeepsBudget DEF LeaseInv

\* lease_job spends what was left for it, and starts a renewer that is in time.
LEMMA LeaseKeepsBudget ==
    ASSUME InTime, BudgetInv, LeaseInv', NEW w \in Workers, NEW t \in Tasks, Lease(w, t)
    PROVE  RenewedInTime' /\ Budget'
<1>1. TypeOK /\ faults \in Nat /\ MaxAttempts \in Nat \ {0} /\ epoch \in Nat
    BY Counts DEF BudgetInv, LeaseInv
<1>2. /\ UNCHANGED <<epoch, faults>>
      /\ renewIn'[w] = RenewInterval
      /\ \A v \in Workers : v # w => renewIn'[v] = renewIn[v]
    BY <1>1 DEF Lease, TypeOK
<1>3. /\ job'[t] = LeasedTo(RecoveredJobs[t], w)
      /\ \A u \in Tasks : u # t => job'[u] = RecoveredJobs[u]
    BY DEF Lease, RecoveredJobs
<1>4. RecoveredJobs[t].status = "pending"
    BY DEF Lease, IsOldest, Available
<1>5. /\ RecoveredJobs[t].attempts = job[t].attempts
      /\ job[t].attempts < MaxAttempts + faults /\ job[t].attempts \in Nat
    BY <1>1, <1>4, RecoveredBudget, Counts DEF BudgetInv, Budget, LeasableAgain
<1>6. /\ job'[t].attempts = job[t].attempts + 1 /\ job'[t].owner = <<epoch, w>>
      /\ job'[t].lease = LeaseTicks /\ job'[t].status = "leased"
    BY <1>3, <1>5 DEF LeasedTo, Owner
<1>7. Renewing(w)'
    BY <1>2, Interval DEF Renewing, NotRenewing
<1>8. ASSUME NEW v \in Workers, NEW u \in Tasks, Owns(v, u)'
      PROVE  \/ u = t /\ v = w
             \/ /\ u # t /\ v # w /\ job'[u] = job[u] /\ Owns(v, u)
                /\ renewIn'[v] = renewIn[v]
  <2>1. CASE u = t
    BY <1>2, <1>6, <1>8, <2>1 DEF Owns, Owner
  <2>2. CASE u # t
    <3>1. <<epoch, v>> # NoOwner
      BY <1>1, OwnerNames
    <3>2. job'[u] = job[u] /\ Owns(v, u)
      BY <1>2, <1>3, <1>8, <2>2, <3>1, RecoveredBudget DEF Owns, Owner
    <3>3. v # w
      BY <3>2 DEF Lease, BudgetInv, LeaseInv, LeaseHeldByItsWorker, Busy, Executing
    <3> QED BY <1>2, <2>2, <3>2, <3>3
  <2> QED BY <2>1, <2>2
<1>9. RenewedInTime'
    BY <1>2, <1>6, <1>8, Interval DEF BudgetInv, RenewedInTime, Renewing
<1>10. ASSUME NEW u \in Tasks
       PROVE  /\ job'[u].attempts <= MaxAttempts + faults'
              /\ LeasableAgain(u)' => job'[u].attempts < MaxAttempts + faults'
  <2>1. CASE u = t
    <3>1. Kept(t)'
      BY <1>2, <1>6, <1>7 DEF Kept, Owns, Owner
    <3>2. ~LeasableAgain(t)'
      BY <1>6, <3>1 DEF LeasableAgain
    <3> QED BY <1>1, <1>2, <1>5, <1>6, <2>1, <3>2
  <2>2. CASE u # t /\ RecoveredJobs[u] = job[u]
    <3>1. job'[u] = job[u]
      BY <1>3, <2>2
    <3>2. ASSUME NEW v \in Workers, Owns(v, u), Renewing(v) PROVE Kept(u)'
      <4>1. v # w
        BY <3>2 DEF Lease, BudgetInv, LeaseInv, LeaseHeldByItsWorker, Busy, Executing
      <4> QED BY <1>2, <3>1, <3>2, <4>1 DEF Kept, Owns, Owner, Renewing
    <3>3. LeasableAgain(u)' => LeasableAgain(u)
      BY <3>1, <3>2 DEF LeasableAgain, Leased, Kept
    <3> QED BY <1>2, <3>1, <3>3 DEF BudgetInv, Budget
  <2>3. CASE u # t /\ RecoveredJobs[u] # job[u]
    <3>1. job'[u].attempts < MaxAttempts + faults /\ job'[u].attempts \in Nat
      BY <1>1, <1>3, <2>3, RecoveredBudget, Counts
    <3> QED BY <1>1, <1>2, <3>1
  <2> QED BY <2>1, <2>2, <2>3
<1> QED BY <1>9, <1>10 DEF Budget

\* Lease and renewer count down together; a punctual renewer fires before it
\* falls behind.
LEMMA TimeKeepsBudget ==
    ASSUME InTime, BudgetInv, LeaseInv', Tick \/ \E w \in Workers : Renew(w)
    PROVE  RenewedInTime' /\ Budget'
<1> USE DEF LeaseInv
<1>1. CASE Tick
  <2>1. /\ UNCHANGED <<epoch, faults>>
        /\ \A w \in Workers : renewIn[w] # 0 /\ renewIn'[w] = CountDown(renewIn[w])
        /\ \A t \in Tasks : job'[t] = Ticked(job[t])
    BY <1>1 DEF Tick, RenewDue, InTime
  <2>2. \A w \in Workers : Renewing(w)' <=> Renewing(w)
    <3>1. ASSUME NEW w \in Workers PROVE Renewing(w)' <=> Renewing(w)
      <4>1. renewIn[w] \in Int /\ (Renewing(w) <=> renewIn[w] >= 0)
        BY Counts DEF BudgetInv
      <4> QED BY <2>1, <4>1 DEF CountDown, Renewing, NotRenewing
    <3> QED BY <3>1
  <2>3. \A t \in Tasks : /\ SameClaim(job'[t], job[t])
                         /\ job'[t].lease = CountDown(job[t].lease)
    <3>1. ASSUME NEW t \in Tasks
          PROVE  SameClaim(job'[t], job[t]) /\ job'[t].lease = CountDown(job[t].lease)
      <4>1. job'[t] = Ticked(job[t])
        BY <2>1
      <4> QED BY <4>1 DEF Ticked, SameClaim
    <3> QED BY <3>1
  <2>4. \A t \in Tasks, w \in Workers : Owns(w, t)' <=> Owns(w, t)
    BY <2>1, <2>3 DEF Owns, Owner, SameClaim
  <2>5. RenewedInTime'
    <3>1. ASSUME NEW t \in Tasks, NEW w \in Workers, Owns(w, t), Renewing(w)
          PROVE  renewIn'[w] < job'[t].lease
      <4>1. /\ renewIn[w] \in Int /\ renewIn[w] > 0
            /\ job[t].lease \in Nat /\ renewIn[w] < job[t].lease
        BY <2>1, <3>1, Counts DEF BudgetInv, RenewedInTime
      <4> QED BY <2>1, <2>3, <4>1 DEF CountDown
    <3> QED BY <2>2, <2>4, <3>1 DEF RenewedInTime
  <2>6. \A t \in Tasks : LeasableAgain(t)' <=> LeasableAgain(t)
    BY <2>2, <2>3, <2>4 DEF LeasableAgain, Leased, Kept, SameClaim
  <2> QED BY <2>1, <2>3, <2>5, <2>6 DEF BudgetInv, Budget, SameClaim
<1>2. ASSUME NEW w \in Workers, Renew(w) PROVE RenewedInTime' /\ Budget'
  <2>0. TypeOK
    BY DEF BudgetInv
  <2>1. /\ UNCHANGED <<epoch, faults>>
        /\ \A v \in Workers : v # w => renewIn'[v] = renewIn[v]
    BY <1>2, <2>0 DEF Renew, TypeOK
  <2>2. \A t \in Tasks : /\ SameClaim(job'[t], job[t])
                         /\ job'[t].lease \in {job[t].lease, LeaseTicks}
    BY <1>2, <2>0 DEF Renew, TypeOK, Job, SameClaim
  <2>3. \A t \in Tasks, v \in Workers : Owns(v, t)' <=> Owns(v, t)
    BY <2>1, <2>2 DEF Owns, Owner, SameClaim
  <2>4. ASSUME NEW t \in Tasks, Owns(w, t)
        PROVE  job'[t].lease = LeaseTicks /\ renewIn'[w] = RenewInterval
    <3>1. cur[w] = t /\ Leased(t)
      BY <2>0, <2>4, OwnerNames DEF BudgetInv, LeaseHeldByItsWorker, Owns, Owner, TypeOK
    <3> QED BY <1>2, <2>0, <2>4, <3>1 DEF Renew, TypeOK, Job, Leased
  <2>5. ASSUME NEW t \in Tasks, NEW v \in Workers, v # w, Owns(v, t)
        PROVE  job'[t].lease = job[t].lease
    <3>1. ~Owns(w, t)
      BY <2>5 DEF Owns, Owner
    <3> QED BY <1>2, <2>0, <3>1 DEF Renew, TypeOK
  <2>6. RenewedInTime'
    BY <2>1, <2>3, <2>4, <2>5, Interval DEF BudgetInv, RenewedInTime, Renewing
  <2>7. ASSUME NEW t \in Tasks, Kept(t) PROVE Kept(t)'
    <3>1. PICK v \in Workers : Owns(v, t) /\ Renewing(v)
      BY <2>7 DEF Kept
    <3>2. Renewing(v)'
      BY <2>1, <2>4, <3>1, Interval DEF Renewing, NotRenewing
    <3> QED BY <2>3, <3>1, <3>2 DEF Kept
  <2> QED BY <2>1, <2>2, <2>6, <2>7 DEF BudgetInv, Budget, LeasableAgain, Leased, SameClaim
<1> QED BY <1>1, <1>2

\* A fault pays for the leases it orphans.
LEMMA FaultKeepsBudget ==
    ASSUME BudgetInv, LeaseInv', Crash \/ \E w \in Workers : RenewerDies(w) \/ ThreadDies(w)
    PROVE  RenewedInTime' /\ Budget'
<1>1. TypeOK /\ faults \in Nat /\ MaxAttempts \in Nat \ {0} /\ epoch \in Nat
    BY Counts DEF BudgetInv, LeaseInv
<1>2. job' = job /\ faults' = faults + 1
    BY DEF Crash, RenewerDies, ThreadDies, Fault, tables
<1>3. \A t \in Tasks : job'[t].attempts < MaxAttempts + faults'
    BY <1>1, <1>2, Counts DEF BudgetInv, Budget
<1>4. Budget'
    BY <1>1, <1>2, <1>3, Counts DEF Budget
<1>5. CASE Crash
  <2>1. \A w \in Workers : ~Renewing(w)'
    BY <1>5 DEF Crash, Renewing
  <2> QED BY <1>4, <2>1 DEF RenewedInTime, Renewing
<1>6. ASSUME NEW w \in Workers, RenewerDies(w) \/ ThreadDies(w) PROVE RenewedInTime'
  <2>1. \A v \in Workers : renewIn'[v] = renewIn[v] \/ ~Renewing(v)'
    BY <1>1, <1>6 DEF RenewerDies, ThreadDies, Renewing, TypeOK
  <2> QED BY <1>2, <1>6, <2>1
          DEF RenewerDies, ThreadDies, BudgetInv, RenewedInTime, Renewing, Owns, Owner
<1> QED BY <1>4, <1>5, <1>6

\* Every step keeps the leases renewed in time and the attempts paid for.
LEMMA NextKeepsBudget ==
    ASSUME InTime, BudgetInv, [Next]_vars
    PROVE  BudgetInv'
<1>1. LeaseInv'
    BY NextLeaseInv DEF BudgetInv
<1>2. CASE UNCHANGED vars
    BY <1>1, <1>2
    DEF vars, tables, workers, BudgetInv, RenewedInTime, Budget, LeasableAgain, Kept, Leased,
        Renewing, Owns, Owner
<1>3. CASE Next
    BY <1>1, <1>3, RequestKeepsBudget, WorkKeepsBudget, RecoveryKeepsBudget,
       LeaseKeepsBudget, TimeKeepsBudget, FaultKeepsBudget
    DEF Next, WorkerStep, BudgetInv
<1> QED BY <1>2, <1>3

\* A job is leased at most AUTOFLOW_JOB_MAX_ATTEMPTS times per start, and once
\* more for each thread, renewer or process that died: expiry and recovery spend
\* no attempt of a worker that is alive, for every lease that outlasts its
\* renewal interval.
THEOREM LeasesAreWithinBudget ==
    ASSUME InTime
    PROVE  Spec => []AttemptsPerFault
<1>1. Init => BudgetInv
  <2>1. Init => LeaseInv
    BY InitLeaseInv
  <2>2. Init => RenewedInTime /\ Budget
    BY ConstantsAssumption
    DEF Init, RenewedInTime, Renewing, Budget, LeasableAgain, Leased, NoJob
  <2> QED BY <2>1, <2>2 DEF BudgetInv
<1>2. BudgetInv /\ [Next]_vars => BudgetInv'
    BY NextKeepsBudget
<1>3. BudgetInv => AttemptsPerFault
    BY DEF BudgetInv, Budget, AttemptsPerFault
<1> QED BY <1>1, <1>2, <1>3, PTL DEF Spec

-----------------------------------------------------------------------------
(* One thread per task, and no task that runs without a lease              *)

Runs(w, t) == pc[w] \in Executing /\ cur[w] = t

\* The run of this thread has written its last status.
RunIsOver(w) == pc[w] \in {"announce", "returned", "settle"}

\* The states of a task that must not have a job to lease.
Unqueued == {"draft", "failed", "running"}

\* What keeps the thread that runs a task its only one: who runs it owns its job
\* and renews it in time, so nobody can lease it; a job that can be leased and a
\* start that resets the job belong to a task that nobody runs.
Alone(t) ==
    /\ \A w \in Workers :
          Runs(w, t) => Owns(w, t) /\ Renewing(w) /\ renewIn[w] < job[t].lease
    /\ \A w \in Workers : Runs(w, t) => status[t] \notin {"draft", "failed"}
    /\ \A w \in Workers : Owns(w, t) /\ RunIsOver(w) => status[t] # "running"
    /\ job[t].status = "pending" => status[t] \notin Unqueued
    /\ status[t] = "running" => Leased(t)
    /\ \A w \in Workers : Starting(t) => ~Runs(w, t)
    /\ Enqueuing(t) => status[t] \notin Unqueued

AloneInv == LeaseInv /\ \A t \in Tasks \ disputed : Alone(t)

\* An owner holds the lease it is the owner of, alone.
LEMMA OwnerHolds ==
    ASSUME LeaseInv, NEW w \in Workers, NEW t \in Tasks, Owns(w, t)
    PROVE  /\ Leased(t) /\ cur[w] = t /\ pc[w] \in Busy \cup {"dead"}
           /\ \A v \in Workers : Owns(v, t) => v = w
<1>1. Leased(t) /\ cur[w] = t /\ pc[w] \in Busy \cup {"dead"}
    BY OwnerNames DEF LeaseInv, TypeOK, LeaseHeldByItsWorker, Owns, Owner
<1>2. \A v \in Workers : Owns(v, t) => v = w
    BY DEF Owns, Owner
<1> QED BY <1>1, <1>2

\* The thread that runs a task has a lease that does not expire.
LEMMA RunnerIsSafe ==
    ASSUME LeaseInv, NEW t \in Tasks, Alone(t), NEW w \in Workers, Runs(w, t)
    PROVE  Owns(w, t) /\ Leased(t) /\ ~Expired(job[t])
<1>1. Owns(w, t) /\ Renewing(w) /\ renewIn[w] < job[t].lease
    BY DEF Alone
<1>2. renewIn[w] >= 0 /\ renewIn[w] \in Int /\ job[t].lease \in Nat
    BY <1>1, Counts DEF LeaseInv
<1> QED BY <1>1, <1>2, OwnerHolds DEF Expired

\* A step keeps a task to its thread if it writes neither row, begins no run and
\* no start of it, and stops no renewer of it.
LEMMA UntouchedStaysAlone ==
    ASSUME NEW t \in Tasks, Alone(t),
           job'[t] = job[t], status'[t] = status[t], epoch' = epoch,
           \A w \in Workers : /\ Runs(w, t)' => Runs(w, t) /\ renewIn'[w] = renewIn[w]
                              /\ Owns(w, t) /\ RunIsOver(w)' => RunIsOver(w),
           Starting(t)' => Starting(t),
           Enqueuing(t)' => Enqueuing(t)
    PROVE  Alone(t)'
<1>1. \A w \in Workers : (Owns(w, t)' <=> Owns(w, t)) /\ (Leased(t)' <=> Leased(t))
    BY DEF Owns, Owner, Leased
<1>2. \A w \in Workers : Runs(w, t)' /\ Renewing(w) => Renewing(w)'
    BY DEF Renewing
<1> QED BY <1>1, <1>2 DEF Alone, Leased

\* A request that is read: a start is admitted only where nobody is at work.
LEMMA ArrivalKeepsAlone ==
    ASSUME AloneInv, NEW r \in Requests, RequestArrives(r), NEW t \in Tasks, Alone(t)
    PROVE  Alone(t)'
<1>1. UNCHANGED <<status, job, pc, cur, renewIn, epoch>>
    BY DEF RequestArrives, StartRead, CancelRead, ApproveRead, tables, workers
<1>2. Enqueuing(t)' => Enqueuing(t)
    BY DEF RequestArrives, StartRead, CancelRead, ApproveRead, GoesTo, Enqueuing, At,
           AloneInv, LeaseInv, TypeOK
<1>3. \A w \in Workers : /\ Runs(w, t)' <=> Runs(w, t)
                         /\ RunIsOver(w)' <=> RunIsOver(w)
    BY <1>1 DEF Runs, RunIsOver
<1>4. CASE StartRead(r, t)
  <2>1. \A w \in Workers : ~Runs(w, t)
    BY <1>4 DEF StartRead, CanStart, Alone
  <2> QED BY <1>1, <1>2, <1>3, <2>1 DEF Alone, Leased, Owns, Owner
<1>5. CASE ~StartRead(r, t)
  <2>1. Starting(t)' => Starting(t)
    BY <1>5 DEF RequestArrives, StartRead, CancelRead, ApproveRead, GoesTo, Starting,
                AloneInv, LeaseInv, TypeOK
  <2> QED BY <1>1, <1>2, <1>3, <2>1, UntouchedStaysAlone
<1> QED BY <1>4, <1>5

\* The writes of a start: it queues the task first and resets the job of a task
\* that nobody runs.
LEMMA StartKeepsAlone ==
    ASSUME AloneInv, NEW r \in Requests, StartUpdate(r) \/ StartEnqueue(r),
           NEW t \in Tasks, Alone(t)
    PROVE  Alone(t)'
<1>1. UNCHANGED <<pc, cur, renewIn, epoch>> /\ TypeOK
    BY DEF StartUpdate, StartEnqueue, workers, AloneInv, LeaseInv
<1>2. \A w \in Workers : /\ Runs(w, t)' <=> Runs(w, t)
                         /\ RunIsOver(w)' <=> RunIsOver(w)
    BY <1>1 DEF Runs, RunIsOver
<1>3. CASE req[r].task # t
  <2>1. job'[t] = job[t] /\ status'[t] = status[t]
    BY <1>1, <1>3 DEF StartUpdate, StartEnqueue, TypeOK
  <2>2. (Starting(t)' => Starting(t)) /\ (Enqueuing(t)' => Enqueuing(t))
    BY <1>1, <1>3 DEF StartUpdate, StartEnqueue, GoesTo, Answered, Idle, Starting, Enqueuing,
                      At, TypeOK
  <2> QED BY <1>1, <1>2, <2>1, <2>2, UntouchedStaysAlone
<1>4. CASE req[r].task = t
  <2>1. \A w \in Workers : ~Runs(w, t)
    BY <1>4 DEF StartUpdate, StartEnqueue, At, Starting, Alone
  <2>2. CASE StartUpdate(r)
    <3>1. job' = job /\ status'[t] = "queued"
      BY <1>1, <1>4, <2>2 DEF StartUpdate, TypeOK
    <3> QED BY <1>2, <2>1, <3>1 DEF Alone, Unqueued
  <2>3. CASE StartEnqueue(r)
    <3>1. job'[t] = Enqueued /\ status' = status
      BY <1>1, <1>4, <2>3 DEF StartEnqueue, TypeOK
    <3>2. status[t] \notin Unqueued
      BY <1>4, <2>3 DEF StartEnqueue, Enqueuing, Alone
    <3> QED BY <1>2, <2>1, <3>1, <3>2 DEF Alone, Unqueued
  <2> QED BY <2>2, <2>3
<1> QED BY <1>3, <1>4

\* The writes of a cancellation and of an approval, and a handler that dies.
LEMMA DecisionKeepsAlone ==
    ASSUME AloneInv, NEW r \in Requests,
           \/ CancelJob(r) \/ CancelUpdate(r) \/ CancelFlag(r)
           \/ ApproveUpdate(r) \/ RequestDies(r),
           NEW t \in Tasks, Alone(t)
    PROVE  Alone(t)'
<1>1. UNCHANGED <<pc, cur, renewIn, epoch>> /\ TypeOK
    BY DEF CancelJob, CancelUpdate, CancelFlag, ApproveUpdate, RequestDies, workers,
           AloneInv, LeaseInv
<1>2. \A w \in Workers : /\ Runs(w, t)' <=> Runs(w, t)
                         /\ RunIsOver(w)' <=> RunIsOver(w)
                         /\ Renewing(w)' <=> Renewing(w)
    BY <1>1 DEF Runs, RunIsOver, Renewing
<1>3. (Starting(t)' => Starting(t)) /\ (Enqueuing(t)' => Enqueuing(t))
    BY <1>1 DEF CancelJob, CancelUpdate, CancelFlag, ApproveUpdate, RequestDies, GoesTo,
                Answered, Idle, Starting, Enqueuing, At, TypeOK
<1>4. \/ status'[t] = status[t]
      \/ status'[t] \in {"cancelled", "completed"}
    BY <1>1 DEF CancelJob, CancelUpdate, CancelFlag, ApproveUpdate, RequestDies, tables, TypeOK
<1>5. CASE job'[t] = job[t]
  <2>1. \A w \in Workers : Owns(w, t)' <=> Owns(w, t)
    BY <1>1, <1>5 DEF Owns, Owner
  <2> QED BY <1>1, <1>2, <1>3, <1>4, <1>5, <2>1 DEF Alone, Leased, Unqueued
<1>6. CASE job'[t] # job[t]
  <2>1. /\ job[t].status = "pending" /\ job'[t] = Released(job[t], "cancelled")
        /\ status'[t] = status[t]
    BY <1>1, <1>6 DEF CancelJob, CancelUpdate, CancelFlag, ApproveUpdate, RequestDies, tables,
                      TypeOK
  <2>2. \A w \in Workers : ~Owns(w, t)
    BY <2>1, OwnerHolds DEF Leased, AloneInv
  <2>3. job'[t].status = "cancelled" /\ job'[t].owner = NoOwner
    BY <2>1 DEF Released
  <2>4. \A w \in Workers : ~Owns(w, t)'
    BY <1>1, <2>3, OwnerNames DEF Owns, Owner, TypeOK
  <2> QED BY <1>2, <1>3, <2>1, <2>2, <2>3, <2>4 DEF Alone, Leased, Unqueued
<1> QED BY <1>5, <1>6

\* Recovery and a lease of another task leave a task to the thread that runs it.
LEMMA RecoveredStaysAlone ==
    ASSUME AloneInv, NEW t \in Tasks, Alone(t),
           job'[t] = RecoveredJobs[t], status'[t] = RecoveredStatus[t], epoch' = epoch,
           \A w \in Workers : /\ Runs(w, t)' => Runs(w, t) /\ renewIn'[w] = renewIn[w]
                              /\ Owns(w, t) /\ RunIsOver(w)' => RunIsOver(w),
           Starting(t)' => Starting(t),
           Enqueuing(t)' => Enqueuing(t)
    PROVE  Alone(t)'
<1>1. CASE Expired(job[t])
  <2>1. job'[t] = Released(job[t], "pending") /\ status'[t] = "queued"
    BY <1>1 DEF RecoveredJobs, RecoveredStatus
  <2>2. job'[t].status = "pending" /\ job'[t].owner = NoOwner
    BY <2>1 DEF Released
  <2>3. \A w \in Workers : ~Owns(w, t)'
    BY <2>2, OwnerNames DEF Owns, Owner, AloneInv, LeaseInv, TypeOK
  <2>4. \A w \in Workers : ~Runs(w, t)'
    BY <1>1, RunnerIsSafe DEF AloneInv
  <2> QED BY <2>1, <2>2, <2>3, <2>4 DEF Alone, Unqueued
<1>2. CASE ~Expired(job[t])
  <2>1. job'[t] = job[t] /\ status'[t] = status[t]
    BY <1>2 DEF RecoveredJobs, RecoveredStatus
  <2> QED BY <2>1, UntouchedStaysAlone
<1> QED BY <1>1, <1>2

\* lease_job hands out no task that somebody runs; one that a start is about to
\* reset becomes disputed.
LEMMA LeaseKeepsAlone ==
    ASSUME LeaseTicks > 1, AloneInv, NEW w \in Workers, NEW u \in Tasks, Lease(w, u),
           NEW t \in Tasks, Alone(t), t \notin disputed'
    PROVE  Alone(t)'
<1>1. /\ UNCHANGED <<epoch, req>> /\ status' = RecoveredStatus
      /\ pc[w] = "idle" /\ pc'[w] = "run" /\ cur'[w] = u /\ renewIn'[w] = RenewInterval
      /\ \A v \in Workers : v # w => /\ pc'[v] = pc[v] /\ cur'[v] = cur[v]
                                      /\ renewIn'[v] = renewIn[v]
    BY DEF Lease, AloneInv, LeaseInv, TypeOK
<1>2. /\ RecoveredJobs[u].status = "pending"
      /\ job'[u] = LeasedTo(RecoveredJobs[u], w)
      /\ \A x \in Tasks : x # u => job'[x] = RecoveredJobs[x]
    BY DEF Lease, IsOldest, Available, RecoveredJobs
<1>3. (Starting(t)' <=> Starting(t)) /\ (Enqueuing(t)' <=> Enqueuing(t))
    BY <1>1 DEF Starting, Enqueuing, At
<1>4. CASE t # u
  <2>1. \A v \in Workers : /\ Runs(v, t)' => Runs(v, t) /\ renewIn'[v] = renewIn[v]
                           /\ Owns(v, t) /\ RunIsOver(v)' => RunIsOver(v)
    BY <1>1, <1>4 DEF Runs, RunIsOver
  <2> QED BY <1>1, <1>2, <1>3, <1>4, <2>1, RecoveredStaysAlone
<1>5. CASE t = u
  <2>1. ~Starting(t)
    BY <1>5 DEF Lease, Disputes
  <2>2. ~Enqueuing(t)
    BY <2>1 DEF Starting, Enqueuing, At
  <2>3. job'[t].status = "leased" /\ job'[t].owner = <<epoch, w>> /\ job'[t].lease = LeaseTicks
    BY <1>2, <1>5 DEF LeasedTo, Owner
  <2>4. status'[t] \notin Unqueued
    BY <1>1, <1>2, <1>5 DEF RecoveredJobs, RecoveredStatus, Alone, Unqueued
  <2>5. \A v \in Workers : ~Runs(v, t)
    <3>1. Expired(job[t]) \/ job[t].status = "pending"
      BY <1>2, <1>5 DEF RecoveredJobs
    <3> QED BY <3>1, RunnerIsSafe DEF Leased, AloneInv
  <2>6. \A v \in Workers : Runs(v, t)' => v = w
    BY <1>1, <2>5 DEF Runs
  <2>7. Owns(w, t)' /\ Renewing(w)' /\ renewIn'[w] < job'[t].lease
    BY <1>1, <2>3, LeaseOutlastsInterval DEF Owns, Owner, Renewing, NotRenewing
  <2>8. Leased(t)'
    BY <2>3 DEF Leased
  <2>9. status'[t] \notin {"draft", "failed", "running"} /\ job'[t].status # "pending"
    BY <2>3, <2>4 DEF Unqueued
  <2> QED BY <1>3, <2>1, <2>2, <2>6, <2>7, <2>8, <2>9 DEF Alone
<1> QED BY <1>4, <1>5

\* A recovery without a lease, and the recovery of a process that starts.
LEMMA RecoveryKeepsAlone ==
    ASSUME AloneInv, Boot \/ \E w \in Workers : LeaseNothing(w), NEW t \in Tasks, Alone(t)
    PROVE  Alone(t)'
<1>1. /\ UNCHANGED <<cur, renewIn, epoch, req>>
      /\ job' = RecoveredJobs /\ status' = RecoveredStatus
      /\ pc' = pc \/ pc' = [w \in Workers |-> "idle"]
    BY DEF Boot, LeaseNothing, workers
<1>2. \A w \in Workers : /\ Runs(w, t)' => Runs(w, t)
                         /\ RunIsOver(w)' => RunIsOver(w)
    BY <1>1 DEF Runs, RunIsOver, Executing
<1>3. (Starting(t)' <=> Starting(t)) /\ (Enqueuing(t)' <=> Enqueuing(t))
    BY <1>1 DEF Starting, Enqueuing, At
<1> QED BY <1>1, <1>2, <1>3, RecoveredStaysAlone

\* A run writes the row of a task that only this thread runs.
LEMMA RunKeepsAlone ==
    ASSUME AloneInv, NEW w \in Workers, RunStep(w), NEW t \in Tasks, Alone(t)
    PROVE  Alone(t)'
<1>1. /\ UNCHANGED <<job, cur, renewIn, epoch, req>> /\ TypeOK
      /\ pc[w] \in Executing /\ pc'[w] \in Executing \cup {"returned"}
      /\ \A v \in Workers : v # w => pc'[v] = pc[v]
    BY DEF RunStep, RunBegin, CheckCancelled, Enter, Finish, Announce, AnnounceFails,
           RunCancelled, RunFailed, Reaches, tables, AloneInv, LeaseInv, TypeOK, Executing
<1>2. (Starting(t)' <=> Starting(t)) /\ (Enqueuing(t)' <=> Enqueuing(t))
    BY <1>1 DEF Starting, Enqueuing, At
<1>3. CASE cur[w] # t
  <2>1. status'[t] = status[t]
    BY <1>1, <1>3 DEF RunStep, RunBegin, CheckCancelled, Enter, Finish, Announce,
                      AnnounceFails, RunCancelled, RunFailed, Writes, tables, TypeOK
  <2>2. \A v \in Workers : Owns(v, t) => v # w
    BY <1>3, OwnerHolds DEF AloneInv
  <2>3. \A v \in Workers : /\ Runs(v, t)' => Runs(v, t)
                           /\ Owns(v, t) /\ RunIsOver(v)' => RunIsOver(v)
    BY <1>1, <1>3, <2>2 DEF Runs, RunIsOver
  <2> QED BY <1>1, <1>2, <2>1, <2>3, UntouchedStaysAlone
<1>4. CASE cur[w] = t
  <2>1. Runs(w, t) /\ Owns(w, t) /\ Leased(t)
    BY <1>1, <1>4, RunnerIsSafe DEF Runs, AloneInv
  <2>2. ~Starting(t) /\ ~Enqueuing(t)
    BY <2>1 DEF Alone, Starting, Enqueuing, At
  <2>3. \A v \in Workers : (Owns(v, t)' <=> Owns(v, t)) /\ (Owns(v, t) => v = w)
    BY <1>1, <2>1, OwnerHolds DEF Owns, Owner, AloneInv
  <2>4. \A v \in Workers : Runs(v, t)' => Runs(v, t) /\ v = w
    BY <1>1, <1>4, <2>1, <2>3 DEF Runs, Alone
  <2>5. Leased(t)' /\ job'[t].status # "pending"
    BY <1>1, <2>1 DEF Leased
  <2>6. /\ Runs(w, t)' => status'[t] \notin {"draft", "failed"}
        /\ RunIsOver(w)' => status'[t] # "running"
    <3>1. status[t] \notin {"draft", "failed"} /\ (RunIsOver(w) => status[t] # "running")
      BY <2>1 DEF Alone
    <3> QED BY <1>1, <1>4, <3>1
            DEF RunStep, RunBegin, CheckCancelled, Enter, Finish, Announce, AnnounceFails,
                RunCancelled, RunFailed, Writes, Reaches, tables, TypeOK, Runs, RunIsOver,
                Executing
  <2>7. Runs(w, t)' => Owns(w, t)' /\ Renewing(w)' /\ renewIn'[w] < job'[t].lease
    BY <1>1, <2>1, <2>3 DEF Alone, Renewing
  <2> QED BY <1>2, <2>2, <2>3, <2>4, <2>5, <2>6, <2>7 DEF Alone
<1> QED BY <1>3, <1>4

\* A thread that settles gives up a lease it owns, of a task that does not run
\* any more.
LEMMA SettleKeepsAlone ==
    ASSUME AloneInv, NEW w \in Workers, SettleStep(w), NEW t \in Tasks, Alone(t)
    PROVE  Alone(t)'
<1>1. /\ UNCHANGED <<epoch, req>> /\ TypeOK
      /\ RunIsOver(w) /\ pc[w] \notin Executing
      /\ pc'[w] \in {"idle", "settle"}
      /\ \A v \in Workers : v # w => /\ pc'[v] = pc[v] /\ cur'[v] = cur[v]
                                      /\ renewIn'[v] = renewIn[v]
    BY DEF SettleStep, Observe, SettleFailed, SettleCancelled, SettleDelivered,
           SettleUnexpected, Settled, Reaches, AloneInv, LeaseInv, TypeOK, RunIsOver, Executing
<1>2. (Starting(t)' <=> Starting(t)) /\ (Enqueuing(t)' <=> Enqueuing(t))
    BY <1>1 DEF Starting, Enqueuing, At
<1>3. \A v \in Workers : /\ Runs(v, t)' => Runs(v, t) /\ renewIn'[v] = renewIn[v]
                         /\ RunIsOver(v)' => RunIsOver(v)
    BY <1>1 DEF Runs, RunIsOver, Executing
<1>4. CASE ~Owns(w, t) \/ cur[w] # t \/ Observe(w)
  <2>1. Owns(w, t) => cur[w] = t
    BY OwnerHolds DEF AloneInv
  <2>2. job'[t] = job[t] /\ status'[t] = status[t]
    BY <1>1, <1>4, <2>1
    DEF SettleStep, Observe, SettleFailed, SettleCancelled, SettleDelivered, SettleUnexpected,
        FailJob, CompleteJob, tables, TypeOK
  <2> QED BY <1>1, <1>2, <1>3, <2>2, UntouchedStaysAlone
<1>5. CASE Owns(w, t) /\ cur[w] = t /\ ~Observe(w)
  <2>1. \A v \in Workers : ~Runs(v, t)
    BY <1>1, <1>5, OwnerHolds DEF Runs, Alone, AloneInv
  <2>2. status[t] # "running"
    BY <1>1, <1>5 DEF Alone
  <2>3. \/ /\ job'[t] \in {Released(job[t], "cancelled"), Released(job[t], "completed")}
           /\ status'[t] = status[t]
        \/ /\ job'[t] = FailedJob(job[t])
           /\ status'[t] = IF Retries(job[t]) THEN "queued" ELSE status[t]
    BY <1>1, <1>5
    DEF SettleStep, SettleFailed, SettleCancelled, SettleDelivered, SettleUnexpected,
        FailJob, CompleteJob, TypeOK
  <2>4. /\ job'[t].owner = NoOwner
        /\ job'[t].status = "pending" => status'[t] = "queued"
        /\ status'[t] \in {"queued", status[t]}
    <3>1. job[t] \in Job
      BY <1>1 DEF TypeOK
    <3>2. CASE job'[t] \in {Released(job[t], "cancelled"), Released(job[t], "completed")}
      <4>1. job'[t].owner = NoOwner /\ job'[t].status \in {"cancelled", "completed"}
        BY <3>2 DEF Released
      <4> QED BY <2>3, <4>1
    <3>3. CASE /\ job'[t] = FailedJob(job[t])
               /\ status'[t] = IF Retries(job[t]) THEN "queued" ELSE status[t]
      BY <3>1, <3>3, FailedRow
    <3> QED BY <2>3, <3>2, <3>3
  <2>5. \A v \in Workers : ~Owns(v, t)' /\ ~Runs(v, t)'
    BY <1>1, <1>3, <2>1, <2>4, OwnerNames DEF Owns, Owner, TypeOK
  <2>6. status'[t] # "running"
    BY <2>2, <2>4
  <2>7. Enqueuing(t)' => status'[t] \notin Unqueued
    BY <1>2, <2>4 DEF Alone, Unqueued
  <2>8. job'[t].status = "pending" => status'[t] \notin Unqueued
    BY <2>4 DEF Unqueued
  <2> QED BY <2>5, <2>6, <2>7, <2>8 DEF Alone
<1> QED BY <1>4, <1>5

\* A renewal prolongs the lease of its owner, and a tick that a renewal is late
\* for makes the task disputed.
LEMMA TimeKeepsAlone ==
    ASSUME LeaseTicks > 1, AloneInv, Tick \/ \E w \in Workers : Renew(w),
           NEW t \in Tasks, Alone(t), t \notin disputed'
    PROVE  Alone(t)'
<1>1. UNCHANGED <<status, pc, cur, epoch, req>> /\ TypeOK
    BY DEF Tick, Renew, AloneInv, LeaseInv
<1>2. SameClaim(job'[t], job[t])
  <2>1. CASE Tick
    BY <1>1, <2>1, TickedRow DEF Tick, Ticked, SameClaim, TypeOK
  <2>2. ASSUME NEW w \in Workers, Renew(w) PROVE SameClaim(job'[t], job[t])
    BY <1>1, <2>2 DEF Renew, TypeOK, Job, SameClaim
  <2> QED BY <2>1, <2>2
<1>3. /\ \A v \in Workers : Owns(v, t)' <=> Owns(v, t)
      /\ Leased(t)' <=> Leased(t)
      /\ job'[t].status = job[t].status
    BY <1>1, <1>2 DEF Owns, Owner, Leased, SameClaim
<1>4. (Starting(t)' <=> Starting(t)) /\ (Enqueuing(t)' <=> Enqueuing(t))
    BY <1>1 DEF Starting, Enqueuing, At
<1>5. \A v \in Workers : (Runs(v, t)' <=> Runs(v, t)) /\ (RunIsOver(v)' <=> RunIsOver(v))
    BY <1>1 DEF Runs, RunIsOver
<1>6. ASSUME NEW v \in Workers, Runs(v, t)
      PROVE  Renewing(v)' /\ renewIn'[v] < job'[t].lease
  <2>1. Owns(v, t) /\ renewIn[v] < job[t].lease /\ cur[v] = t /\ Leased(t)
    BY <1>6, RunnerIsSafe DEF Alone, Runs, AloneInv
  <2>2. renewIn[v] >= 0 /\ renewIn[v] \in Int /\ job[t].lease \in Nat
    BY <1>1, <1>6, Counts DEF Alone
  <2>3. CASE Tick
    <3>1. ~RenewDue(v)
      BY <2>1, <2>3 DEF Tick, Disputes
    <3>2. renewIn'[v] = CountDown(renewIn[v]) /\ job'[t].lease = CountDown(job[t].lease)
      BY <2>3 DEF Tick, Ticked
    <3> QED BY <2>1, <2>2, <3>1, <3>2 DEF RenewDue, CountDown, Renewing, NotRenewing
  <2>4. ASSUME NEW w \in Workers, Renew(w)
        PROVE  Renewing(v)' /\ renewIn'[v] < job'[t].lease
    <3>1. CASE w = v
      <4>1. /\ renewIn' = [renewIn EXCEPT ![v] = RenewInterval]
            /\ job' = [job EXCEPT ![t].lease = LeaseTicks]
        BY <2>1, <2>4, <3>1 DEF Renew, Leased
      <4>2. renewIn'[v] = RenewInterval /\ job'[t].lease = LeaseTicks
        BY <1>1, <4>1 DEF TypeOK, Job
      <4> QED BY <4>2, LeaseOutlastsInterval DEF Renewing, NotRenewing
    <3>2. CASE w # v
      <4>1. ~Owns(w, t)
        BY <2>1, <3>2, OwnerHolds DEF AloneInv
      <4>2. renewIn'[v] = renewIn[v] /\ job'[t] = job[t]
        BY <1>1, <2>4, <3>2, <4>1 DEF Renew, TypeOK
      <4> QED BY <2>1, <2>2, <4>2 DEF Renewing, NotRenewing
    <3> QED BY <3>1, <3>2
  <2> QED BY <2>3, <2>4
<1> QED BY <1>1, <1>3, <1>4, <1>5, <1>6 DEF Alone

\* What breaks takes no lease from a thread that goes on running, and a renewer
\* that dies leaves a task that is disputed.
LEMMA FaultKeepsAlone ==
    ASSUME AloneInv, Crash \/ \E w \in Workers : RenewerDies(w) \/ ThreadDies(w),
           NEW t \in Tasks, Alone(t), t \notin disputed'
    PROVE  Alone(t)'
<1>1. UNCHANGED <<status, job>> /\ TypeOK
    BY DEF Crash, RenewerDies, ThreadDies, tables, AloneInv, LeaseInv
<1>2. CASE Crash
  <2>1. ~Starting(t)' /\ ~Enqueuing(t)'
    BY <1>2 DEF Crash, Starting, Enqueuing, At, Idle
  <2>2. \A w \in Workers : ~Runs(w, t)' /\ ~RunIsOver(w)'
    BY <1>2 DEF Crash, Runs, RunIsOver, Executing
  <2>3. Leased(t)' <=> Leased(t)
    BY <1>1 DEF Leased
  <2> QED BY <1>1, <2>1, <2>2, <2>3 DEF Alone
<1>3. ASSUME NEW w \in Workers, RenewerDies(w) PROVE Alone(t)'
  <2>1. /\ UNCHANGED <<pc, cur, epoch, req>> /\ cur[w] # t
        /\ \A v \in Workers : v # w => renewIn'[v] = renewIn[v]
    BY <1>1, <1>3 DEF RenewerDies, Disputes, TypeOK
  <2>2. \A v \in Workers : /\ Runs(v, t)' => Runs(v, t) /\ renewIn'[v] = renewIn[v]
                           /\ RunIsOver(v)' => RunIsOver(v)
    BY <2>1 DEF Runs, RunIsOver
  <2>3. (Starting(t)' <=> Starting(t)) /\ (Enqueuing(t)' <=> Enqueuing(t))
    BY <2>1 DEF Starting, Enqueuing, At
  <2> QED BY <1>1, <2>1, <2>2, <2>3, UntouchedStaysAlone
<1>4. ASSUME NEW w \in Workers, ThreadDies(w) PROVE Alone(t)'
  <2>1. /\ UNCHANGED <<cur, epoch, req>> /\ pc'[w] = "dead"
        /\ \A v \in Workers : v # w => pc'[v] = pc[v] /\ renewIn'[v] = renewIn[v]
    BY <1>1, <1>4 DEF ThreadDies, Reaches, TypeOK
  <2>2. \A v \in Workers : /\ Runs(v, t)' => Runs(v, t) /\ renewIn'[v] = renewIn[v]
                           /\ RunIsOver(v)' => RunIsOver(v)
    BY <2>1 DEF Runs, RunIsOver, Executing
  <2>3. (Starting(t)' <=> Starting(t)) /\ (Enqueuing(t)' <=> Enqueuing(t))
    BY <2>1 DEF Starting, Enqueuing, At
  <2> QED BY <1>1, <2>1, <2>2, <2>3, UntouchedStaysAlone
<1> QED BY <1>2, <1>3, <1>4

\* The retention job deletes rows that nobody owns.
LEMMA CleanupKeepsAlone ==
    ASSUME AloneInv, NEW u \in Tasks, CleanupJob(u), NEW t \in Tasks, Alone(t)
    PROVE  Alone(t)'
<1>1. UNCHANGED <<status, pc, cur, renewIn, epoch, req>> /\ TypeOK
    BY DEF CleanupJob, workers, AloneInv, LeaseInv
<1>2. \A v \in Workers : (Runs(v, t)' <=> Runs(v, t)) /\ (RunIsOver(v)' <=> RunIsOver(v))
    BY <1>1 DEF Runs, RunIsOver
<1>3. (Starting(t)' <=> Starting(t)) /\ (Enqueuing(t)' <=> Enqueuing(t))
    BY <1>1 DEF Starting, Enqueuing, At
<1>4. CASE t # u
  <2>1. job'[t] = job[t]
    BY <1>1, <1>4 DEF CleanupJob, TypeOK
  <2> QED BY <1>1, <1>2, <1>3, <2>1, UntouchedStaysAlone
<1>5. CASE t = u
  <2>1. job[t].status \in Finished /\ job'[t].status = "none" /\ job'[t].owner = NoOwner
    BY <1>1, <1>5, FreshRows DEF CleanupJob, TypeOK
  <2>2. \A v \in Workers : ~Owns(v, t)'
    BY <1>1, <2>1, OwnerNames DEF Owns, Owner, TypeOK
  <2>3. \A v \in Workers : ~Owns(v, t)
    BY <2>1, OwnerHolds DEF Leased, Finished, AloneInv
  <2> QED BY <1>1, <1>2, <1>3, <2>1, <2>2, <2>3 DEF Alone, Leased, Finished
<1> QED BY <1>4, <1>5

\* A task that is disputed stays disputed.
LEMMA DisputesGrow ==
    ASSUME [Next]_vars
    PROVE  disputed \subseteq disputed'
<1>1. ASSUME NEW r \in Requests, RequestArrives(r) \/ RequestStep(r) \/ RequestDies(r)
      PROVE  disputed' = disputed
    BY <1>1 DEF RequestArrives, StartRead, CancelRead, ApproveRead, RequestStep, StartUpdate,
                StartEnqueue, CancelJob, CancelUpdate, CancelFlag, ApproveUpdate, RequestDies
<1>2. ASSUME NEW w \in Workers, WorkerStep(w) PROVE disputed \subseteq disputed'
    BY <1>2 DEF WorkerStep, Lease, LeaseNothing, RunStep, RunBegin, CheckCancelled, Enter,
                Finish, Announce, AnnounceFails, RunCancelled, RunFailed, SettleStep, Observe,
                SettleFailed, SettleCancelled, SettleDelivered, SettleUnexpected, Settled,
                Disputes
<1>3. ASSUME NEW w \in Workers, Renew(w) \/ RenewerDies(w) \/ ThreadDies(w)
      PROVE  disputed \subseteq disputed'
    BY <1>3 DEF Renew, RenewerDies, ThreadDies, Disputes
<1>4. ASSUME Crash \/ Boot \/ Tick \/ \E t \in Tasks : CleanupJob(t)
      PROVE  disputed \subseteq disputed'
    BY <1>4 DEF Crash, Boot, Tick, CleanupJob, Disputes
<1>5. CASE UNCHANGED vars
    BY <1>5 DEF vars
<1> QED BY <1>1, <1>2, <1>3, <1>4, <1>5 DEF Next

\* Every step leaves a task that is not disputed to the thread that runs it.
LEMMA NextKeepsAlone ==
    ASSUME LeaseTicks > 1, AloneInv, [Next]_vars
    PROVE  AloneInv'
<1>1. LeaseInv'
    BY NextLeaseInv DEF AloneInv
<1>2. ASSUME NEW t \in Tasks, t \notin disputed' PROVE Alone(t)'
  <2>1. Alone(t)
    BY <1>2, DisputesGrow DEF AloneInv
  <2>2. ASSUME NEW r \in Requests, RequestArrives(r) \/ RequestStep(r) \/ RequestDies(r)
        PROVE  Alone(t)'
    BY <2>1, <2>2, ArrivalKeepsAlone, StartKeepsAlone, DecisionKeepsAlone DEF RequestStep
  <2>3. ASSUME NEW w \in Workers, WorkerStep(w) PROVE Alone(t)'
    BY <1>2, <2>1, <2>3, LeaseKeepsAlone, RecoveryKeepsAlone, RunKeepsAlone, SettleKeepsAlone
    DEF WorkerStep
  <2>4. ASSUME NEW w \in Workers, Renew(w) \/ RenewerDies(w) \/ ThreadDies(w)
        PROVE  Alone(t)'
    BY <1>2, <2>1, <2>4, TimeKeepsAlone, FaultKeepsAlone
  <2>5. CASE Crash \/ Boot \/ Tick \/ \E u \in Tasks : CleanupJob(u)
    BY <1>2, <2>1, <2>5, FaultKeepsAlone, RecoveryKeepsAlone, TimeKeepsAlone, CleanupKeepsAlone
  <2>6. CASE UNCHANGED vars
    BY <2>1, <2>6
    DEF vars, tables, workers, Alone, Runs, RunIsOver, Owns, Owner, Renewing, Leased,
        Starting, Enqueuing, At
  <2> QED BY <2>2, <2>3, <2>4, <2>5, <2>6 DEF Next
<1> QED BY <1>1, <1>2 DEF AloneInv

\* Nothing runs, nothing is queued and nobody has asked for anything.
LEMMA InitAlone == Init => AloneInv
<1> SUFFICES ASSUME Init PROVE AloneInv
    OBVIOUS
<1>1. ASSUME NEW t \in Tasks PROVE Alone(t)
    BY <1>1 DEF Init, Alone, Runs, RunIsOver, Starting, Enqueuing, At, NoJob, Idle, Unqueued,
                Executing
<1> QED BY <1>1, InitLeaseInv DEF AloneInv

\* No task is run by two threads at the same time, whatever breaks and however
\* requests overlap, until a worker leases it in the middle of a start or one of
\* its renewers dies or is late: the lease is the lock.
THEOREM TasksRunAlone ==
    ASSUME LeaseTicks > 1
    PROVE  Spec => []SingleExecution
<1>1. AloneInv => SingleExecution
  <2> SUFFICES ASSUME AloneInv, NEW v \in Workers, NEW w \in Workers, v # w,
                      pc[v] \in Executing, pc[w] \in Executing, cur[v] = cur[w],
                      cur[v] \notin disputed
               PROVE  FALSE
    BY DEF SingleExecution
  <2>1. cur[v] \in Tasks
    BY DEF AloneInv, LeaseInv, LocalsOK, Busy
  <2>2. Owns(v, cur[v]) /\ Owns(w, cur[v])
    BY <2>1 DEF AloneInv, Alone, Runs
  <2> QED BY <2>1, <2>2, OwnerHolds DEF AloneInv
<1>2. AloneInv /\ [Next]_vars => AloneInv'
    BY NextKeepsAlone
<1> QED BY <1>1, <1>2, InitAlone, PTL DEF Spec

\* A task that runs has a lease, so that a worker is at work on it or recovery
\* will find it, in the same states.
THEOREM RunningTasksAreLeased ==
    ASSUME LeaseTicks > 1
    PROVE  Spec => []RunningHasLease
<1>1. AloneInv => RunningHasLease
    BY DEF AloneInv, Alone, RunningHasLease
<1>2. AloneInv /\ [Next]_vars => AloneInv'
    BY NextKeepsAlone
<1> QED BY <1>1, <1>2, InitAlone, PTL DEF Spec

==============================================================================
