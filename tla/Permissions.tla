---------------------------- MODULE Permissions ----------------------------
(***************************************************************************)
(* Permission requests of a runner: the gateway stores what the runner     *)
(* asks (GatewaySession._handle), owners decide (decide_permission), and   *)
(* the gateway delivers the decision (_dispatch_control_messages).  One    *)
(* task, assigned to the one runner.                                       *)
(*                                                                         *)
(* The gateway session is one coroutine: it dispatches, receives a message *)
(* and handles it, in turn.  The owners' handlers run in threads.  A step  *)
(* is a database transaction, or a message together with the record of it. *)
(* A message counts as received when the gateway records it; its           *)
(* repetitions are acknowledged and change nothing (module RunnerProtocol).*)
(* A message to the runner is recorded before it is sent and replayed to a *)
(* runner that reconnects, so "mail" outlives the connection.              *)
(*                                                                         *)
(* The runner of this repository sends no PermissionRequest yet.  The one  *)
(* here is external: it waits for the answer and stops when it is refused. *)
(***************************************************************************)
EXTENDS Naturals, Sequences, FiniteSets

CONSTANTS
    MaxRequests,  \* bound: permission requests, each with a fresh id
    Deciders,     \* request threads of POST /permissions/{id}/decision
    MaxAttempts,  \* job_max_attempts
    MaxLeases,    \* bound: how often the job is leased; the last lease holds
    MaxReports,   \* bound: TaskProgress messages
    MaxFaults     \* bound: broken connections and restarts

ASSUME PermissionConstants ==
    /\ {MaxRequests, MaxAttempts, MaxLeases, MaxReports, MaxFaults} \subseteq Nat
    /\ MaxAttempts <= MaxLeases /\ MaxLeases > 0

VARIABLES
    task,       \* tasks.status
    job,        \* jobs: status, attempts and whether the lease has run out
    perm,       \* permission_requests.status, "none" without a row
    sent,       \* the rows whose result_sent_at is set
    gw,         \* the gateway session
    dec,        \* the owners' handlers
    run,        \* the runner: idle, working, or waiting for an answer
    inbox,      \* messages of the runner the gateway has not recorded
    mail,       \* messages to the runner it has not read
    asked,      \* how many requests the runner has made
    reports,    \* TaskProgress messages so far
    faults,     \* broken connections and restarts so far
    lapsed,     \* history: a lease of the task was recovered
    overtaken,  \* history: a result went out before its handler was done
    torn        \* history: the server stopped inside a handler

tables == <<task, job, perm, sent>>
runner == <<run, inbox, mail, asked, reports>>
history == <<lapsed, overtaken, torn>>
vars == <<tables, gw, dec, runner, faults, history>>

Requests == 1..MaxRequests

Active == {"assigned", "accepted", "running", "wait_permission"}
Decided == {"approved", "denied"}
NoRequest == 0

\* What the runner sends
Kinds == {"ask", "accepted", "progress", "completed", "failed"}
Message(kind, r) == [kind |-> kind, request |-> r]
Report(kind) == Message(kind, NoRequest)
Messages == [kind : Kinds, request : Requests \cup {NoRequest}]
NoMessage == Report("none")

Result(r, answer) == [request |-> r, answer |-> answer]
Assignment == Result(NoRequest, "none")
Results == [request : Requests, answer : Decided]

Gateway == [pc : {"down", "recover", "list", "send", "mark", "active", "lease", "assign",
                  "receive", "first", "second", "ack"},
            todo : SUBSET Requests, current : Requests \cup {NoRequest},
            msg : Messages \cup {NoMessage}]
Decision == [pc : {"idle", "status", "job"},
             request : Requests \cup {NoRequest}, answer : Decided \cup {"none"}]

TypeOK ==
    /\ task \in Active \cup {"queued", "failed", "waiting_approval"}
    /\ job \in [status : {"pending", "leased", "completed", "failed"},
                attempts : 0..MaxLeases, due : BOOLEAN]
    /\ job.due => job.status = "leased"
    /\ perm \in [Requests -> Decided \cup {"none", "pending"}]
    /\ sent \subseteq {r \in Requests : perm[r] \in Decided}
    /\ gw \in Gateway
    /\ dec \in [Deciders -> Decision]
    /\ run \in [at : {"idle", "working", "waiting"}, request : Requests \cup {NoRequest}]
    /\ inbox \in Seq(Messages)
    /\ mail \in Seq(Results \cup {Assignment})
    /\ asked \in 0..MaxRequests
    /\ reports \in 0..MaxReports /\ faults \in 0..MaxFaults
    /\ {lapsed, overtaken, torn} \subseteq BOOLEAN

At(pc) == [pc |-> pc, todo |-> {}, current |-> NoRequest, msg |-> NoMessage]
Stopped == [at |-> "idle", request |-> NoRequest]
Working == [at |-> "working", request |-> NoRequest]
NotDeciding == [pc |-> "idle", request |-> NoRequest, answer |-> "none"]

\* The task was started: its job is pending for the runner.
Init ==
    /\ task = "queued"
    /\ job = [status |-> "pending", attempts |-> 0, due |-> FALSE]
    /\ perm = [r \in Requests |-> "none"]
    /\ sent = {}
    /\ gw = At("down")
    /\ dec = [d \in Deciders |-> NotDeciding]
    /\ run = Stopped
    /\ inbox = <<>> /\ mail = <<>> /\ asked = 0
    /\ reports = 0 /\ faults = 0
    /\ lapsed = FALSE /\ overtaken = FALSE /\ torn = FALSE

-----------------------------------------------------------------------------
(* jobs                                                                    *)

Leased == job.status = "leased"

\* A mutant of Pending: lease_expires_at is not cleared.
PendingKeepsLease(j) == [j EXCEPT !.status = "pending"]

Pending(j) == [j EXCEPT !.status = "pending", !.due = FALSE]

\* renew_job, for the runner as the owner
Renewed == IF Leased THEN [job EXCEPT !.due = FALSE] ELSE job

\* complete_job, for the runner as the owner
Completed(s) == IF Leased THEN [job EXCEPT !.status = s, !.due = FALSE] ELSE job

\* recover_expired_jobs, also the first part of lease_job
RecoveredJob == IF job.due THEN Pending(job) ELSE job
RecoveredTask == IF job.due THEN "queued" ELSE task

LeaseRunsOut ==
    /\ Leased /\ ~job.due /\ job.attempts < MaxLeases
    /\ job' = [job EXCEPT !.due = TRUE]
    /\ UNCHANGED <<task, perm, sent, gw, dec, runner, faults, history>>

-----------------------------------------------------------------------------
(* The gateway: _dispatch_control_messages                                 *)

Connect ==
    /\ gw.pc = "down"
    /\ gw' = At("recover")
    /\ UNCHANGED <<tables, dec, runner, faults, history>>

RecoverExpired ==
    /\ gw.pc = "recover"
    /\ job' = RecoveredJob
    /\ task' = RecoveredTask
    /\ lapsed' = (lapsed \/ job.due)
    /\ gw' = At("list")
    /\ UNCHANGED <<perm, sent, dec, runner, faults, overtaken, torn>>

\* list_unsent_permission_results
Unsent == {r \in Requests : perm[r] \in Decided /\ r \notin sent}

ListUnsent ==
    /\ gw.pc = "list"
    /\ gw' = IF Unsent = {} THEN At("active") ELSE [At("send") EXCEPT !.todo = Unsent]
    /\ UNCHANGED <<tables, dec, runner, faults, history>>

\* A connection that breaks ends the session at an await.
Breaks ==
    /\ faults < MaxFaults
    /\ faults' = faults + 1
    /\ gw' = At("down")

\* The handler that took the decision has not finished.
Finishing(r) == \E d \in Deciders : dec[d].request = r

\* A mutant of SendResult: the row is marked first, and the send may break.
SendResultMarked(r) ==
    /\ gw.pc = "send" /\ r \in gw.todo
    /\ sent' = sent \cup {r}
    /\ overtaken' = (overtaken \/ Finishing(r))
    /\ \/ /\ mail' = Append(mail, Result(r, perm[r]))
          /\ gw' = [gw EXCEPT !.pc = "mark", !.current = r]
          /\ UNCHANGED faults
       \/ Breaks /\ UNCHANGED mail
    /\ UNCHANGED <<task, job, perm, dec, run, inbox, asked, reports, lapsed, torn>>

SendResult(r) ==
    /\ gw.pc = "send" /\ r \in gw.todo
    /\ mail' = Append(mail, Result(r, perm[r]))
    /\ overtaken' = (overtaken \/ Finishing(r))
    /\ \/ gw' = [gw EXCEPT !.pc = "mark", !.current = r] /\ UNCHANGED faults
       \/ Breaks
    /\ UNCHANGED <<tables, dec, run, inbox, asked, reports, lapsed, torn>>

\* mark_permission_result_sent
MarkSent ==
    /\ gw.pc = "mark"
    /\ sent' = sent \cup {gw.current}
    /\ LET rest == gw.todo \ {gw.current}
       IN gw' = IF rest = {} THEN At("active") ELSE [At("send") EXCEPT !.todo = rest]
    /\ UNCHANGED <<task, job, perm, dec, runner, faults, history>>

\* get_runner_active_task
CheckActive ==
    /\ gw.pc = "active"
    /\ gw' = At(IF task \in Active THEN "receive" ELSE "lease")
    /\ UNCHANGED <<tables, dec, runner, faults, history>>

\* lease_job
Lease ==
    /\ gw.pc = "lease"
    /\ task' = RecoveredTask
    /\ lapsed' = (lapsed \/ job.due)
    /\ IF RecoveredJob.status = "pending"
       THEN /\ job' = [RecoveredJob EXCEPT !.status = "leased", !.attempts = @ + 1]
            /\ gw' = At("assign")
       ELSE /\ job' = RecoveredJob
            /\ gw' = At("receive")
    /\ UNCHANGED <<perm, sent, dec, runner, faults, overtaken, torn>>

\* The rest of assign_runner_task, and TASK_ASSIGN
Assign ==
    /\ gw.pc = "assign"
    /\ task' = "assigned"
    /\ mail' = Append(mail, Assignment)
    /\ \/ gw' = At("receive") /\ UNCHANGED faults
       \/ Breaks
    /\ UNCHANGED <<job, perm, sent, dec, run, inbox, asked, reports, lapsed, overtaken, torn>>

-----------------------------------------------------------------------------
(* The gateway: receive_text and _handle                                   *)

\* record_runner_message, or a second without a message, or a broken link
Receive ==
    /\ gw.pc = "receive"
    /\ \/ /\ inbox # <<>>
          /\ gw' = [At("first") EXCEPT !.msg = Head(inbox)]
          /\ inbox' = Tail(inbox)
          /\ UNCHANGED faults
       \/ gw' = At("recover") /\ UNCHANGED <<inbox, faults>>
       \/ Breaks /\ UNCHANGED inbox
    /\ UNCHANGED <<tables, dec, run, mail, asked, reports, history>>

\* The first transaction of each branch of _handle
HandleFirst ==
    /\ gw.pc = "first"
    /\ job' = IF gw.msg.kind \in {"accepted", "progress"} THEN Renewed ELSE job
    /\ task' = CASE gw.msg.kind = "ask" -> "wait_permission"
                 [] gw.msg.kind = "completed" -> "waiting_approval"
                 [] gw.msg.kind = "failed" -> "failed"
                 [] OTHER -> task
    /\ gw' = [gw EXCEPT !.pc = "second"]
    /\ UNCHANGED <<perm, sent, dec, runner, faults, history>>

\* create_permission_request: a row that is there stays as it is.
Created(r) == IF perm[r] = "none" THEN [perm EXCEPT ![r] = "pending"] ELSE perm

\* fail_job
Retries == Leased /\ job.attempts < MaxAttempts

\* The second one
HandleSecond ==
    /\ gw.pc = "second"
    /\ perm' = IF gw.msg.kind = "ask" THEN Created(gw.msg.request) ELSE perm
    /\ job' = CASE gw.msg.kind = "completed" -> Completed("completed")
                [] gw.msg.kind = "failed" -> IF Retries THEN Pending(job) ELSE Completed("failed")
                [] OTHER -> job
    /\ task' = CASE gw.msg.kind = "accepted" -> "accepted"
                 [] gw.msg.kind = "progress" -> "running"
                 [] gw.msg.kind = "failed" /\ Retries -> "queued"
                 [] OTHER -> task
    /\ gw' = At("ack")
    /\ UNCHANGED <<sent, dec, runner, faults, history>>

Acknowledge ==
    /\ gw.pc = "ack"
    /\ \/ gw' = At("recover") /\ UNCHANGED faults
       \/ Breaks
    /\ UNCHANGED <<tables, dec, runner, history>>

-----------------------------------------------------------------------------
(* decide_permission                                                       *)

Open(r) == perm[r] = "pending"

\* get_permission_request, authorize_task, resolve_permission_request.  A row that
\* was found stays, so the two reads are part of the step; 404 and 409 change
\* nothing.
Resolve(d, r, answer) ==
    /\ dec[d].pc = "idle"
    /\ Open(r)
    /\ perm' = [perm EXCEPT ![r] = answer]
    /\ sent' = sent \ {r}
    /\ dec' = [dec EXCEPT ![d] = [pc |-> "status", request |-> r, answer |-> answer]]
    /\ UNCHANGED <<task, job, gw, runner, faults, history>>

\* A mutant of WriteStatus: an approval leaves the status to the runner's reports.
WriteStatusOnDenial(d) ==
    /\ dec[d].pc = "status"
    /\ task' = IF dec[d].answer = "approved" THEN task ELSE "failed"
    /\ dec' = [dec EXCEPT ![d].pc = "job"]
    /\ UNCHANGED <<job, perm, sent, gw, runner, faults, history>>

WriteStatus(d) ==
    /\ dec[d].pc = "status"
    /\ task' = IF dec[d].answer = "approved" THEN "running" ELSE "failed"
    /\ dec' = [dec EXCEPT ![d].pc = "job"]
    /\ UNCHANGED <<job, perm, sent, gw, runner, faults, history>>

\* A mutant of WriteJob: a denial leaves the lease to run out.
WriteJobOnApproval(d) ==
    /\ dec[d].pc = "job"
    /\ job' = IF dec[d].answer = "approved" THEN Renewed ELSE job
    /\ dec' = [dec EXCEPT ![d] = NotDeciding]
    /\ UNCHANGED <<task, perm, sent, gw, runner, faults, history>>

WriteJob(d) ==
    /\ dec[d].pc = "job"
    /\ job' = IF dec[d].answer = "approved" THEN Renewed ELSE Completed("failed")
    /\ dec' = [dec EXCEPT ![d] = NotDeciding]
    /\ UNCHANGED <<task, perm, sent, gw, runner, faults, history>>

-----------------------------------------------------------------------------
(* The runner (external)                                                   *)

Says(m) == inbox' = Append(inbox, m)

\* TASK_ASSIGN is accepted; a runner that is busy with the task goes on with it.
ReadAssign ==
    /\ mail # <<>> /\ Head(mail) = Assignment
    /\ mail' = Tail(mail)
    /\ Says(Report("accepted"))
    /\ run' = IF run = Stopped THEN Working ELSE run
    /\ UNCHANGED <<tables, gw, dec, asked, reports, faults, history>>

ReadResult ==
    /\ mail # <<>> /\ Head(mail) # Assignment
    /\ mail' = Tail(mail)
    /\ run' = IF run.request # Head(mail).request THEN run
              ELSE IF Head(mail).answer = "approved" THEN Working ELSE Stopped
    /\ UNCHANGED <<tables, gw, dec, inbox, asked, reports, faults, history>>

Ask ==
    /\ run = Working /\ asked < MaxRequests
    /\ asked' = asked + 1
    /\ run' = [at |-> "waiting", request |-> asked']
    /\ Says(Message("ask", asked'))
    /\ UNCHANGED <<tables, gw, dec, mail, reports, faults, history>>

Progress ==
    /\ run = Working /\ reports < MaxReports
    /\ reports' = reports + 1
    /\ Says(Report("progress"))
    /\ UNCHANGED <<tables, gw, dec, run, mail, asked, faults, history>>

EndTask(outcome) ==
    /\ run = Working
    /\ run' = Stopped
    /\ Says(Report(outcome))
    /\ UNCHANGED <<tables, gw, dec, mail, asked, reports, faults, history>>

RestartRunner ==
    /\ faults < MaxFaults
    /\ run # Stopped
    /\ run' = Stopped
    /\ faults' = faults + 1
    /\ UNCHANGED <<tables, gw, dec, inbox, mail, asked, reports, history>>

\* The server stops, its session and its handlers with it.
RestartServer ==
    /\ faults < MaxFaults
    /\ faults' = faults + 1
    /\ gw' = At("down")
    /\ dec' = [d \in Deciders |-> NotDeciding]
    /\ torn' = (\/ torn \/ gw.pc \in {"first", "second", "assign"}
                \/ \E d \in Deciders : dec[d] # NotDeciding)
    /\ UNCHANGED <<tables, runner, lapsed, overtaken>>

-----------------------------------------------------------------------------

SessionStep ==
    \/ Connect \/ RecoverExpired \/ ListUnsent \/ MarkSent \/ CheckActive \/ Lease \/ Assign
    \/ \E r \in Requests : SendResult(r)
    \/ Receive \/ HandleFirst \/ HandleSecond \/ Acknowledge

DeciderStep(d) == WriteStatus(d) \/ WriteJob(d)

RunnerReads == ReadAssign \/ ReadResult

Next ==
    \/ LeaseRunsOut \/ SessionStep
    \/ \E d \in Deciders :
          \/ \E r \in Requests, answer \in Decided : Resolve(d, r, answer)
          \/ DeciderStep(d)
    \/ RunnerReads \/ Ask \/ Progress
    \/ \E outcome \in {"completed", "failed"} : EndTask(outcome)
    \/ RestartRunner \/ RestartServer

Spec == Init /\ [][Next]_vars

\* The event loop and the threads go on, and the runner reads what it gets.
\* Nobody has to decide.
FairSpec ==
    /\ Spec
    /\ WF_vars(SessionStep) /\ WF_vars(RunnerReads)
    /\ \A d \in Deciders : WF_vars(DeciderStep(d))

-----------------------------------------------------------------------------
(* Properties                                                              *)

\* A task that waits for a permission has a request somebody can decide, or an
\* answer whose handler is about to go on; unless the server stopped between
\* recording the message and storing the request, which nobody repeats.
WaitingCanBeDecided ==
    task = "wait_permission" /\ gw.pc # "second" =>
        \/ \E r \in Requests : perm[r] = "pending"
        \/ \E d \in Deciders : dec[d].pc = "status"
        \/ torn

\* A denial ends the task for good, job and task: nothing of the run comes
\* after it and no worker leases it again.  Not if the lease was lost meanwhile
\* (complete_job does not find its owner), if the server stopped in between, or if
\* an earlier approval is still to write RUNNING.
DenialEndsTask ==
    \A r \in Requests :
        perm[r] = "denied" /\ ~Finishing(r) /\ ~lapsed /\ ~torn /\ ~overtaken =>
            task = "failed" /\ job.status = "failed"

\* A runner that waits gets the decision, whatever breaks after it was taken.
DecisionArrives ==
    \A r \in Requests : run.request = r /\ perm[r] \in Decided ~> run.request # r

=============================================================================
