------------------------------ MODULE RemoteRun ------------------------------
(***************************************************************************)
(* A run of the workflow on a Local Runner, seen through RemoteStorage     *)
(* (app/runner.py): what the engine writes on the runner, and what the     *)
(* server shows of it.                                                     *)
(*                                                                         *)
(* RemoteStorage has two transports.  With a message sender (socket) every *)
(* call becomes a report in the outbox, reads are answered from caches in  *)
(* memory, and an artifact above 12 MiB goes by HTTP past the outbox.      *)
(* Without one every call is an HTTP request, whose answer may be lost     *)
(* before or after the server has acted upon it.                           *)
(*                                                                         *)
(* The engine is the sequence of its storage calls; Workflow says when it  *)
(* makes them.  RunnerProtocol shows that a report, however often it is    *)
(* sent, is recorded once and acted upon once, unless its handler was cut  *)
(* short behind the record, and that an assignment reaches the runner: so  *)
(* pending holds here the reports the server has not recorded.             *)
(* One task of one runner is followed.  Heartbeats, cancellation and       *)
(* permissions are left out.                                               *)
(***************************************************************************)
EXTENDS Naturals, Sequences, SequencesExt

CONSTANTS
    MaxAttempts,  \* AUTOFLOW_JOB_MAX_ATTEMPTS
    MaxRows,      \* bound: artifacts and events the engine adds as it works
    MaxStarts,    \* bound: starts by the user
    MaxFaults,    \* bound: requests that fail although the token is right,
                  \* connections that break, restarts, leases that run out
    MaxTokens     \* bound: tokens issued for this runner

ASSUME RemoteAssumption ==
    /\ MaxAttempts \in Nat \ {0}
    /\ {MaxRows, MaxStarts, MaxFaults, MaxTokens} \subseteq Nat

VARIABLES
    socket,     \* RemoteStorage.message_sender is set
    known,      \* the runner has a row in the table runners
    issued,     \* the newest token issued for it, 0 when there is none
    held,       \* the token it presents, 0 for AUTOFLOW_RUNNER_TOKEN
    status,     \* tasks.status
    job,        \* the row of the task in jobs
    tables,     \* the rows of the task in artifacts and in events
    pc,         \* where the main thread of the runner is
    cache,      \* RemoteStorage.artifact_cache
    directory,  \* the worktree exists on the runner's disk
    pending,    \* the reports the server has not recorded, oldest first
    wire,       \* what is on its way on the connection
    link,       \* the connection: "down", "opening" (ready, not flushed), "up"
    made,       \* history: what the engine added, in its order
    shown,      \* history: what it had added when the delivery was reported
    disturbed,  \* history: a report or an upload passed an earlier report, or
                \* a report was recorded and not acted upon to the end
    torn,       \* history: the record of the worktree was lost
    starts,     \* the bounded counters
    faults

outside == <<socket, starts>>
access  == <<known, issued, held>>
server  == <<status, job, tables>>
outbox  == <<pending, wire, disturbed>>
vars == <<outside, access, server, pc, cache, directory, outbox, link, made, shown,
          torn, faults>>

Kinds == {"worktree", "diff", "log"}
Rows  == [kind : Kinds, n : Nat]
TableOf(kind) == IF kind = "log" THEN "events" ELSE "artifacts"
Empty == [artifacts |-> <<>>, events |-> <<>>]

Job == [state : {"none", "pending", "leased", "completed", "failed"},
        attempts : Nat, expired : BOOLEAN]
ActiveStatus == {"assigned", "accepted", "running"}

TypeOK ==
    /\ {socket, known, directory, disturbed, torn} \subseteq BOOLEAN
    /\ issued \in 0..MaxTokens /\ held \in 0..issued
    /\ status \in ActiveStatus \cup {"draft", "queued", "waiting_approval", "failed"}
    /\ job \in Job
    /\ \A view \in {tables, made, shown} :
          view \in [{"artifacts", "events"} -> Seq(Rows)]
    /\ pc \in {"register", "idle", "leased", "begin", "list", "branch", "worktree",
               "work", "announce", "failing", "explain"}
    /\ cache \in Seq(Rows)
    /\ ToSet(wire) \subseteq ToSet(pending)
    /\ link \in {"down", "opening", "up"}
    /\ starts \in 0..MaxStarts /\ faults \in 0..MaxFaults

Init ==
    /\ socket \in BOOLEAN
    /\ known = FALSE /\ issued = 0 /\ held = 0
    /\ status = "draft"
    /\ job = [state |-> "none", attempts |-> 0, expired |-> FALSE]
    /\ tables = Empty /\ made = Empty /\ shown = Empty
    /\ pc = IF socket THEN "idle" ELSE "register"
    /\ cache = <<>>
    /\ directory = FALSE
    /\ pending = <<>> /\ wire = <<>>
    /\ link = "down"
    /\ disturbed = FALSE /\ torn = FALSE
    /\ starts = 0 /\ faults = 0

-----------------------------------------------------------------------------
(* Requests over HTTP                                                      *)

HasToken == issued > 0
TokenMatches == HasToken /\ held = issued

\* authenticate_runner: the token of the runner, or the global one as long as
\* none was issued for it.
Authenticated == TokenMatches \/ (~HasToken /\ held = 0)

\* require_runner_token answers 401.
Refused == ~Authenticated

\* RemoteStorage._request: the server acts and the answer comes, the server acts
\* and the answer is lost, or the request is lost or refused.
Outcomes ==
    {o \in {"answered", "unanswered", "lost"} :
        IF Refused THEN o = "lost" ELSE o # "answered" => faults < MaxFaults}

Acts(o) == o # "lost"

\* What follows the request, and what follows the RunnerConnectionError.
Goes(o, next, onError) ==
    /\ pc' = IF o = "answered" THEN next ELSE onError
    /\ faults' = IF o = "answered" \/ Refused THEN faults ELSE faults + 1

-----------------------------------------------------------------------------
(* Reports over the WebSocket                                              *)

\* The elements of the sequence s that are not in S, in their order.
Without(s, S) ==
    LET W[i \in 0..Len(s)] ==
            IF i = 0 THEN <<>>
            ELSE IF s[i] \in S THEN W[i - 1] ELSE Append(W[i - 1], s[i])
    IN W[Len(s)]

\* Reports are told apart by a number.
Numbered(m) == [no |-> IF pending = <<>> THEN 1 ELSE Last(pending).no + 1, body |-> m]

\* A mutant of Send: without a connection the report is not kept.
SendIfConnected(m) ==
    /\ pending' = IF link = "down" THEN pending ELSE Append(pending, Numbered(m))
    /\ wire' = IF link = "down" THEN wire ELSE Append(wire, Numbered(m))

\* RunnerProtocolClient.send
Send(m) ==
    /\ pending' = Append(pending, Numbered(m))
    /\ wire' = IF link = "down" THEN wire ELSE Append(wire, Numbered(m))

\* RemoteStorage._emit.  Between ready.set and _flush_pending a new report goes
\* out before those that waited.
Emit(m) ==
    /\ Send(m)
    /\ disturbed' = (disturbed \/ (link = "opening" /\ wire # pending))

Connect ==
    /\ socket /\ link = "down"
    /\ Authenticated
    /\ known' = TRUE
    /\ link' = "opening"
    /\ UNCHANGED <<outside, issued, held, server, pc, cache, directory, outbox, made,
                   shown, torn, faults>>

FlushPending ==
    /\ link = "opening"
    /\ wire' = wire \o Without(pending, ToSet(wire))
    /\ link' = "up"
    /\ UNCHANGED <<outside, access, server, pc, cache, directory, pending,
                   disturbed, made, shown, torn, faults>>

\* What is under way is lost, and flushed again by the next connection.
Break ==
    /\ link # "down"
    /\ faults < MaxFaults
    /\ link' = "down"
    /\ wire' = <<>>
    /\ faults' = faults + 1
    /\ UNCHANGED <<outside, access, server, pc, cache, directory, pending,
                   disturbed, made, shown, torn>>

-----------------------------------------------------------------------------
(* RunnerGatewaySession._handle                                            *)

Renewed(j)   == IF j.state = "leased" THEN [j EXCEPT !.expired = FALSE] ELSE j
Completed(j) == IF j.state = "leased"
                THEN [j EXCEPT !.state = "completed", !.expired = FALSE] ELSE j
Retries(j)   == j.state = "leased" /\ j.attempts < MaxAttempts
Failed(j)    == IF j.state = "leased"
                THEN [j EXCEPT !.state = IF Retries(j) THEN "pending" ELSE "failed",
                               !.expired = FALSE]
                ELSE j

StoreRow(m) ==
    /\ m.type = "row"
    /\ tables' = [tables EXCEPT ![TableOf(m.row.kind)] = Append(@, m.row)]
    /\ UNCHANGED <<status, job, shown>>

Progress(m) ==
    /\ m.type \in {"accepted", "running"}
    /\ status' = m.type
    /\ job' = Renewed(job)
    /\ UNCHANGED <<tables, shown>>

TaskCompleted(m) ==
    /\ m.type = "completed"
    /\ status' = "waiting_approval"
    /\ job' = Completed(job)
    /\ shown' = m.view
    /\ UNCHANGED tables

TaskFailed(m) ==
    /\ m.type = "failed"
    /\ status' = IF Retries(job) THEN "queued" ELSE "failed"
    /\ job' = Failed(job)
    /\ UNCHANGED <<tables, shown>>

\* The announcement of an artifact that was stored by HTTP.
Persisted(m) ==
    /\ m.type = "persisted"
    /\ UNCHANGED <<status, job, tables, shown>>

\* A mutant of Handled: an answer acknowledges everything.
AllHandled == pending' = <<>>

\* The acknowledgement of a report takes it out of the outbox.
Handled == pending' = Without(pending, {Head(wire)})

ActsUpon(m) ==
    StoreRow(m) \/ Progress(m) \/ Persisted(m) \/ TaskCompleted(m) \/ TaskFailed(m)

Handle ==
    /\ wire # <<>>
    /\ ActsUpon(Head(wire).body)
    /\ wire' = Tail(wire)
    /\ Handled
    /\ UNCHANGED <<outside, access, pc, cache, directory, disturbed, link, made, torn,
                   faults>>

\* The first of the two transactions by which a report is acted upon
HalfActs(m) ==
    /\ \/ /\ m.type \in {"accepted", "running"}
          /\ job' = Renewed(job)
          /\ UNCHANGED <<status, shown>>
       \/ /\ m.type = "completed"
          /\ status' = "waiting_approval"
          /\ shown' = m.view
          /\ UNCHANGED job
       \/ /\ m.type = "failed"
          /\ status' = "failed"
          /\ UNCHANGED <<job, shown>>
    /\ UNCHANGED tables

\* The server stops, or the handler raises, when the report is recorded and not
\* acknowledged: all is done about it, or half, or nothing, and a repetition
\* will be acknowledged as known.
HandleCut ==
    /\ wire # <<>>
    /\ faults < MaxFaults
    /\ LET m == Head(wire).body
       IN \/ ActsUpon(m) /\ UNCHANGED disturbed
          \/ /\ HalfActs(m) \/ UNCHANGED <<server, shown>>
             /\ disturbed' = (disturbed \/ m.type # "completed")
    /\ Handled
    /\ link' = "down"
    /\ wire' = <<>>
    /\ faults' = faults + 1
    /\ UNCHANGED <<outside, access, pc, cache, directory, made, torn>>

-----------------------------------------------------------------------------
(* Leases                                                                  *)

Expired == job.state = "leased" /\ job.expired

\* The row as recover_expired_jobs leaves it.
RecoveredJob == IF Expired THEN [job EXCEPT !.state = "pending", !.expired = FALSE] ELSE job
RecoveredStatus == IF Expired THEN "queued" ELSE status

Leased(j) == [j EXCEPT !.state = "leased", !.attempts = @ + 1]

\* _dispatch_control_messages: recovery, then an assignment unless a task of the
\* runner counts as active.  _handle_server_message puts it into the queue of a runner
\* that is not working on it already.
Dispatch ==
    /\ socket /\ link # "down"
    /\ LET assigns == RecoveredJob.state = "pending" /\ RecoveredStatus \notin ActiveStatus
       IN \/ /\ assigns
             /\ job' = Leased(RecoveredJob)
             /\ status' = "assigned"
             /\ pc' = IF pc = "idle" THEN "begin" ELSE pc
             /\ Emit([type |-> "accepted"])
          \/ /\ ~assigns /\ Expired
             /\ job' = RecoveredJob
             /\ status' = RecoveredStatus
             /\ UNCHANGED <<pc, outbox>>
    /\ UNCHANGED <<outside, access, tables, cache, directory, link, made, shown, torn,
                   faults>>

\* upsert_runner
KnownAfter(o) == known \/ Acts(o)

\* POST /runner/register.  A failure ends the process; it is started again.
Register ==
    /\ pc = "register"
    /\ \E o \in Outcomes :
          /\ known' = KnownAfter(o)
          /\ Goes(o, "idle", "register")
    /\ UNCHANGED <<outside, issued, held, server, cache, directory, outbox, link, made,
                   shown, torn>>

\* POST /runner/{id}/lease: touch_runner refuses a runner without a row;
\* lease_job recovers what has expired and leases what is pending.
Lease ==
    /\ ~socket /\ pc = "idle"
    /\ known
    /\ \E o \in Outcomes :
          LET leases == RecoveredJob.state = "pending"
          IN /\ Acts(o) => leases \/ Expired
             /\ job' = IF ~Acts(o) THEN job
                       ELSE IF leases THEN Leased(RecoveredJob) ELSE RecoveredJob
             /\ status' = IF ~Acts(o) THEN status
                          ELSE IF leases THEN "running" ELSE RecoveredStatus
             /\ Goes(o, IF leases THEN "leased" ELSE "idle", "idle")
    /\ UNCHANGED <<outside, access, tables, cache, directory, outbox, link, made, shown,
                   torn>>

ExpireLease ==
    /\ job.state = "leased" /\ ~job.expired
    /\ faults < MaxFaults
    /\ job' = [job EXCEPT !.expired = TRUE]
    /\ faults' = faults + 1
    /\ UNCHANGED <<outside, access, status, tables, pc, cache, directory, outbox, link,
                   made, shown, torn>>

-----------------------------------------------------------------------------
(* The storage calls of a run                                              *)

\* PATCH /runner/{id}/tasks/{task}: the row of the task, and nothing of its job
Patch(new, next, onError) ==
    /\ \E o \in Outcomes :
          /\ status' = IF Acts(o) THEN new ELSE status
          /\ shown' = IF Acts(o) /\ new = "waiting_approval" THEN made ELSE shown
          /\ Goes(o, next, onError)
    /\ UNCHANGED outbox

\* update_task: the cached copy changes and a report is made, or a request.
UpdateTask(new, report, next, onError) ==
    \/ /\ socket
       /\ Emit(report)
       /\ pc' = next
       /\ UNCHANGED <<status, shown, faults>>
    \/ ~socket /\ Patch(new, next, onError)

NewRow(kind) == [kind |-> kind, n |-> Len(made[TableOf(kind)]) + 1]
Added(view, row) == [view EXCEPT ![TableOf(row.kind)] = Append(@, row)]

\* An earlier artifact or status is still waiting in the outbox.
OthersWait ==
    \E e \in ToSet(pending) :
        \/ e.body.type \notin {"row", "persisted"}
        \/ e.body.type = "row" /\ e.body.row.kind # "log"

\* POST .../artifacts and POST .../events.  The upload of a large artifact does
\* not enter artifact_cache.
Upload(row, next, onError) ==
    /\ \E o \in Outcomes :
          /\ tables' = IF Acts(o) THEN Added(tables, row) ELSE tables
          /\ made' = IF Acts(o) THEN Added(made, row) ELSE made
          /\ Goes(o, next, onError)
          /\ IF socket /\ o = "answered" THEN Send([type |-> "persisted"])
             ELSE UNCHANGED <<pending, wire>>
          /\ disturbed' = (disturbed \/ (socket /\ Acts(o) /\ OthersWait))
    /\ UNCHANGED cache

\* A mutant of Report: the artifact does not enter artifact_cache.
ReportUncached(row, next) ==
    /\ Emit([type |-> "row", row |-> row])
    /\ made' = Added(made, row)
    /\ pc' = next
    /\ UNCHANGED <<tables, cache, faults>>

\* add_artifact up to 12 MiB, and add_event
Report(row, next) ==
    /\ Emit([type |-> "row", row |-> row])
    /\ made' = Added(made, row)
    /\ cache' = IF row.kind = "log" THEN cache ELSE Append(cache, row)
    /\ pc' = next
    /\ UNCHANGED <<tables, faults>>

AddRow(kind, large, next, onError) ==
    \/ socket /\ ~large /\ Report(NewRow(kind), next)
    \/ (~socket \/ large) /\ Upload(NewRow(kind), next, onError)

-----------------------------------------------------------------------------
(* The run: LocalRunner.run_once, _run_websocket and WorkflowEngine        *)

\* run_once announces the lease; if that fails there is no run.
AnnounceLease ==
    /\ pc = "leased"
    /\ AddRow("log", FALSE, "begin", "idle")
    /\ UNCHANGED <<outside, access, status, job, directory, link, shown, torn>>

BeginRun ==
    /\ pc = "begin"
    /\ UpdateTask("running", [type |-> "running"], "list", "failing")
    /\ UNCHANGED <<outside, access, job, tables, cache, directory, link, made, torn>>

\* GET /runner/{id}/tasks/{task}/artifacts
StoredArtifacts == tables.artifacts

\* list_artifacts
Listed == IF socket THEN cache ELSE StoredArtifacts

KnowsWorktree == \E i \in DOMAIN Listed : Listed[i].kind = "worktree"

\* A call that makes no report: nothing can fail but a request.
Asks(next) ==
    \/ /\ socket
       /\ pc' = next
       /\ UNCHANGED faults
    \/ /\ ~socket
       /\ \E o \in Outcomes : Goes(o, next, "failing")

\* The run resumes in the worktree that is recorded, or makes one:
\* create_worktree refuses a directory that exists.
ListArtifacts ==
    /\ pc = "list"
    /\ Asks(IF ~directory THEN "branch" ELSE IF KnowsWorktree THEN "work" ELSE "failing")
    /\ directory' = (directory \/ pc' = "branch")
    /\ UNCHANGED <<outside, access, server, cache, outbox, link, made, shown, torn>>

\* update_task(branch = ...) makes no report.
RecordBranch ==
    /\ pc = "branch"
    /\ Asks("worktree")
    /\ torn' = (torn \/ pc' = "failing")
    /\ UNCHANGED <<outside, access, server, cache, directory, outbox, link, made, shown>>

RecordWorktree ==
    /\ pc = "worktree"
    /\ AddRow("worktree", FALSE, "work", "failing")
    /\ torn' = (torn \/ (pc' = "failing" /\ tables' = tables))
    /\ UNCHANGED <<outside, access, status, job, directory, link, shown>>

\* Stages of the workflow add events and artifacts of any size.
Work ==
    /\ pc = "work"
    /\ Len(made.artifacts) + Len(made.events) < MaxRows
    /\ \E kind \in {"diff", "log"}, large \in BOOLEAN :
          /\ large => kind = "diff"
          /\ AddRow(kind, large, "work", "failing")
    /\ UNCHANGED <<outside, access, status, job, directory, link, shown, torn>>

Deliver ==
    /\ pc = "work"
    /\ UpdateTask("waiting_approval", [type |-> "completed", view |-> made],
                  "announce", "failing")
    /\ UNCHANGED <<outside, access, job, tables, cache, directory, link, made, torn>>

\* The last event of a delivered run
Announce ==
    /\ pc = "announce"
    /\ AddRow("log", FALSE, "idle", "failing")
    /\ UNCHANGED <<outside, access, status, job, directory, link, shown, torn>>

\* A stage raises.
Raise ==
    /\ pc = "work"
    /\ pc' = "failing"
    /\ UNCHANGED <<outside, access, server, cache, directory, outbox, link, made, shown,
                   torn, faults>>

\* _run_guarded; what it cannot report leaves the main loop's turn.
ReportFailure ==
    /\ pc = "failing"
    /\ UpdateTask("failed", [type |-> "failed"], "explain", "idle")
    /\ UNCHANGED <<outside, access, job, tables, cache, directory, link, made, torn>>

Explain ==
    /\ pc = "explain"
    /\ AddRow("log", FALSE, "idle", "idle")
    /\ UNCHANGED <<outside, access, status, job, directory, link, shown, torn>>

-----------------------------------------------------------------------------
(* The environment                                                         *)

\* The user starts the task, or starts it again after a failure.
Start ==
    /\ status \in {"draft", "failed"}
    /\ starts < MaxStarts
    /\ status' = "queued"
    /\ job' = [state |-> "pending", attempts |-> 0, expired |-> FALSE]
    /\ starts' = starts + 1
    /\ UNCHANGED <<socket, access, tables, pc, cache, directory, outbox, link, made,
                   shown, torn, faults>>

\* An owner issues a token for this runner: the one it holds is refused from
\* now on, on new connections and on every request.
IssueToken ==
    /\ issued < MaxTokens
    /\ issued' = issued + 1
    /\ UNCHANGED <<outside, known, held, server, pc, cache, directory, outbox, link,
                   made, shown, torn, faults>>

\* The runner ends anywhere and is started again, with the newest token.  Its
\* outbox and the worktree are on disk, the caches are gone.
Restart ==
    /\ faults < MaxFaults
    /\ pc' = IF socket THEN "idle" ELSE "register"
    /\ cache' = <<>>
    /\ held' = issued
    /\ link' = "down"
    /\ wire' = <<>>
    /\ torn' = (torn \/ (directory /\ (socket \/ pc \in {"branch", "worktree"})))
    /\ faults' = faults + 1
    /\ UNCHANGED <<outside, known, issued, server, directory, pending, disturbed,
                   made, shown>>

Run ==
    \/ AnnounceLease \/ BeginRun \/ ListArtifacts \/ RecordBranch \/ RecordWorktree
    \/ Work \/ Deliver \/ Announce \/ Raise \/ ReportFailure \/ Explain

Next ==
    \/ Connect \/ FlushPending \/ Break \/ Handle \/ HandleCut
    \/ Dispatch \/ Register \/ Lease \/ ExpireLease
    \/ Run
    \/ Start \/ IssueToken \/ Restart

Spec == Init /\ [][Next]_vars

-----------------------------------------------------------------------------
(* Properties                                                              *)

\* Who is asked to approve sees the whole run: when the server shows a delivered
\* task it has every artifact and event the runner added before, each once and
\* in the runner's order, whatever connections, requests and restarts lay
\* between.  Excepted are runs in which a report or the upload of a large
\* artifact passed a report that waited in the outbox, and those in which the
\* server stopped between the record of a report and its effects (a delivery
\* excepted: half of it is enough).
DeliveredIsShown ==
    status = "waiting_approval" /\ ~disturbed =>
        /\ tables.artifacts = shown.artifacts
        /\ IsPrefix(shown.events, tables.events)

\* A retry goes on in the worktree of the run before: create_worktree meets a
\* directory it does not know of only after the runner lost its record, by a
\* restart that emptied artifact_cache or by a request that failed between the
\* creation and the record.
RetryFindsWorktree ==
    pc = "list" /\ directory /\ ~torn => KnowsWorktree

=============================================================================
