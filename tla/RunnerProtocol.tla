--------------------------- MODULE RunnerProtocol ---------------------------
(***************************************************************************)
(* The protocol between the server and a Local Runner: the gateway         *)
(* sessions (app/gateway.py), the runner's outbox and receive loop         *)
(* (app/runner_transport.py), and the thread that executes tasks with a    *)
(* RemoteStorage (app/runner.py), over a WebSocket that may break.         *)
(*                                                                         *)
(* Both sides number their messages and keep them.  A message travels as   *)
(* its number: reports[n] is the n-th of the runner, log[n] the n-th of    *)
(* the server.  The outbox holds the reports the server has not            *)
(* acknowledged; a new connection begins with Register or Reconnect, and   *)
(* the server answers a Reconnect with all messages the runner has not     *)
(* marked.  The server may notice later than the runner that a connection  *)
(* broke, so that two sessions of one runner overlap.                      *)
(*                                                                         *)
(* Left out are messages without effect on tasks and jobs (Capability,     *)
(* logs, output, artifacts, idle heartbeats, the runner's own Acks),       *)
(* permission requests, and runners that are refused for their version.    *)
(*                                                                         *)
(* The sessions are coroutines of one event loop: what one of them does    *)
(* between two waits is one step, with the rows it writes.  But these rows *)
(* are written in transactions of their own, and the server may stop, or   *)
(* the handler raise, between any two of them: HandleCut.  The threads of  *)
(* the runner are apart, and apart is also what _receive_loop does before  *)
(* and after a message is marked.                                          *)
(***************************************************************************)
EXTENDS Integers, Sequences, FiniteSets

CONSTANTS
    Tasks,        \* the tasks of this runner, numbered in order of created_at
    MaxAttempts,  \* AUTOFLOW_JOB_MAX_ATTEMPTS
    MaxStarts,    \* bound: starts by the user
    MaxCancels,   \* bound: cancellations by the user
    MaxConns,     \* bound: connections, that is breaks and restarts plus one
    MaxCrashes,   \* bound: restarts of the runner
    MaxExpiries,  \* bound: leases that run out
    MaxBeats      \* bound: heartbeats sent while busy

ASSUME ProtocolAssumption ==
    /\ Tasks \subseteq Nat \ {0}
    /\ MaxAttempts \in Nat \ {0}
    /\ MaxStarts \in Nat
    /\ MaxCancels \in Nat
    /\ MaxConns \in Nat \ {0}
    /\ MaxCrashes \in Nat
    /\ MaxExpiries \in Nat
    /\ MaxBeats \in Nat

VARIABLES
    status,      \* tasks.status
    cancelReq,   \* tasks.cancel_requested
    job,         \* the row of each task in the table jobs
    received,    \* runner_messages: the numbers of the reports that came
    log,         \* runner_messages: what the server sent, or Marked
    sess,        \* where the gateway session of each connection is
    cancelSent,  \* RunnerGatewaySession.cancel_sent
    toServer,    \* what is on its way to each session
    toRunner,    \* what is on its way to the runner
    reports,     \* every report the runner made
    pending,     \* ProtocolState.pending: the numbers not yet acknowledged
    last,        \* ProtocolState.last_server_seq
    registered,  \* ProtocolState.registered
    conn,        \* the runner's connection, or NoConn
    ready,       \* RunnerProtocolClient.ready
    wpc,         \* where the WebSocket thread is
    taken,       \* the message it is handling, or 0
    queue,       \* RunnerProtocolClient.tasks
    active,      \* active_task_id
    cache,       \* RemoteStorage.task_cache: what it says of cancellation
    mpc,         \* where the main thread is
    effects,     \* history: how often each report was acted upon to the end
    torn,        \* history: the reports that were recorded but not acted upon to the end
    strayed,     \* history: an old session sent something beside a new one
    late,        \* history: a lease ran out under a connected runner that had its task
    counts       \* the bounded counters

server   == <<status, cancelReq, job, received, log, sess, cancelSent>>
wires    == <<toServer, toRunner>>
outbox   == <<reports, pending>>
runner   == <<last, registered, conn, ready, wpc, taken, queue, active, cache, mpc>>
history  == <<effects, torn, strayed, late>>
vars     == <<server, wires, outbox, runner, history, counts>>

NoConn == 0
Marked == [kind |-> "marked"]
NoTask == 0
Conns  == 1..MaxConns

Register  == 0      \* the two openings of a connection
Reconnect == -1

\* get_runner_active_task: what the server counts as the runner's current work.
ActiveStatus == {"assigned", "accepted", "running"}
Active(st)   == {t \in Tasks : st[t] \in ActiveStatus}
First(S)     == CHOOSE t \in S : \A u \in S : t <= u
TaskStatus   == ActiveStatus \cup {"draft", "queued", "waiting_approval",
                                   "completed", "failed", "cancelled"}

Job == [status : {"none", "pending", "leased", "completed", "failed", "cancelled"},
        attempts : Nat, expired : BOOLEAN, wait : BOOLEAN]
NoJob == [status |-> "none", attempts |-> 0, expired |-> FALSE, wait |-> FALSE]

Counters == [starts : 0..MaxStarts, cancels : 0..MaxCancels, conns : 0..MaxConns,
             crashes : 0..MaxCrashes, expiries : 0..MaxExpiries, beats : 0..MaxBeats,
             registers : 0..MaxConns]

Init ==
    /\ status = [t \in Tasks |-> "draft"]
    /\ cancelReq = [t \in Tasks |-> FALSE]
    /\ job = [t \in Tasks |-> NoJob]
    /\ received = {}
    /\ log = <<>>
    /\ sess = [s \in Conns |-> "none"]
    /\ cancelSent = [s \in Conns |-> {}]
    /\ toServer = [s \in Conns |-> <<>>]
    /\ toRunner = <<>>
    /\ reports = <<>>
    /\ pending = {}
    /\ last = 0
    /\ registered = FALSE
    /\ conn = NoConn
    /\ ready = FALSE
    /\ wpc = "receive"
    /\ taken = 0
    /\ queue = <<>>
    /\ active = NoTask
    /\ cache = [t \in Tasks |-> "none"]
    /\ mpc = "idle"
    /\ effects = <<>>
    /\ torn = {}
    /\ strayed = FALSE
    /\ late = FALSE
    /\ counts = [starts |-> 0, cancels |-> 0, conns |-> 0, crashes |-> 0, expiries |-> 0,
                 beats |-> 0, registers |-> 0]

Counts(c) == counts' = [counts EXCEPT ![c] = @ + 1]

-----------------------------------------------------------------------------
(* The runner's outbox.                                                    *)

\* The numbers in seq go out on the runner's connection.  It does not learn at
\* once that the other end is closed.
Transmitted(seq) == IF sess[conn] = "closed" THEN toServer
                    ELSE [toServer EXCEPT ![conn] = @ \o seq]

\* RunnerProtocolClient.send: the report is stored, and goes out if the
\* connection has been confirmed.
Reports(kind, t) ==
    LET n == Len(reports) + 1 IN
    /\ reports' = Append(reports, [kind |-> kind, task |-> t])
    /\ pending' = pending \cup {n}
    /\ toServer' = IF ready THEN Transmitted(<<n>>) ELSE toServer
    /\ effects' = Append(effects, 0)

Acknowledge_Cumulative(n) == pending' = {m \in pending : m > n}

\* ProtocolState.acknowledge
Acknowledge(n) == pending' = pending \ {n}

-----------------------------------------------------------------------------
(* The WebSocket thread: _connection_loop and _receive_loop.               *)

Connect ==
    /\ conn = NoConn
    /\ counts.conns < MaxConns
    /\ LET s == counts.conns + 1 IN
       /\ conn' = s
       /\ sess' = [sess EXCEPT ![s] = "opening"]
       /\ toServer' = [toServer EXCEPT
                         ![s] = <<IF registered THEN Reconnect ELSE Register>>]
    /\ Counts("conns")
    /\ UNCHANGED <<status, cancelReq, job, received, log, cancelSent, toRunner,
                   outbox, last, registered, ready, wpc, taken, queue, active,
                   cache, mpc, history>>

Disconnect_StaysReady ==
    /\ conn # NoConn
    /\ counts.conns < MaxConns
    /\ wpc = "receive"
    /\ conn' = NoConn
    /\ toRunner' = <<>>
    /\ UNCHANGED <<server, toServer, outbox, last, registered, ready, wpc, taken, queue,
                   active, cache, mpc, history, counts>>

\* recv raises.  What is still on its way to the server may arrive there.
Disconnect ==
    /\ conn # NoConn
    /\ counts.conns < MaxConns
    /\ wpc = "receive"
    /\ conn' = NoConn
    /\ ready' = FALSE
    /\ toRunner' = <<>>
    /\ UNCHANGED <<server, toServer, outbox, last, registered, wpc, taken, queue,
                   active, cache, mpc, history, counts>>

\* mark_server_message.  Nobody reads the content of a marked message again.
Marks(n) == /\ last' = IF n > last THEN n ELSE last
            /\ log' = [log EXCEPT ![n] = Marked]

\* The message with number n is taken from the connection.
Takes(n, kinds) ==
    /\ wpc = "receive"
    /\ toRunner # <<>>
    /\ n = Head(toRunner)
    /\ log[n].kind \in kinds
    /\ toRunner' = Tail(toRunner)
    /\ UNCHANGED <<status, cancelReq, job, received, sess, cancelSent, conn, active,
                   mpc, torn, strayed, late, counts>>

\* It is not marked yet when the thread goes on.
Keeps(n) == /\ taken' = n
            /\ UNCHANGED <<log, last>>

ReceiveAck ==
    \E n \in 1..Len(log) :
        /\ Takes(n, {"ack"})
        /\ Acknowledge(log[n].ack)
        /\ Marks(n)
        /\ UNCHANGED <<toServer, reports, effects, registered, ready, wpc, taken, queue,
                       cache>>

\* RegisterAck, and the Ack of a Reconnect.
ReceiveOpened ==
    \E n \in 1..Len(log) :
        /\ Takes(n, {"registered", "reconnected"})
        /\ registered' = (registered \/ log[n].kind = "registered")
        /\ ready' = TRUE
        /\ wpc' = "flush"
        /\ Keeps(n)
        /\ UNCHANGED <<toServer, outbox, effects, queue, cache>>

\* pending_messages: by sequence number
InOrder(S) == [i \in 1..Cardinality(S) |->
                  CHOOSE m \in S : Cardinality({k \in S : k <= m}) = i]

\* _flush_pending, after ready was set: the main thread may send in between.
Flush ==
    /\ wpc = "flush"
    /\ toServer' = Transmitted(InOrder(pending))
    /\ wpc' = "mark"
    /\ UNCHANGED <<server, toRunner, outbox, last, registered, conn, ready, taken,
                   queue, active, cache, mpc, history, counts>>

\* queued_task_ids.  While next_task has taken the first from the queue and has
\* not yet made it the active one, it is neither.
Queued(t) == \E i \in 1..Len(queue) :
                 queue[i].task = t /\ ~(i = 1 /\ mpc = "taking")

ReceiveAssign ==
    \E n \in 1..Len(log) :
        LET t == log[n].task IN
        /\ Takes(n, {"assign"})
        /\ Reports("accepted", t)
        /\ queue' = IF t = active \/ Queued(t) THEN queue
                    ELSE Append(queue, [task |-> t, cancel |-> log[n].cancel])
        /\ wpc' = "mark"
        /\ Keeps(n)
        /\ UNCHANGED <<registered, ready, cache>>

Mark ==
    /\ wpc = "mark"
    /\ Marks(taken)
    /\ taken' = 0
    /\ wpc' = "receive"
    /\ UNCHANGED <<status, cancelReq, job, received, sess, cancelSent, wires, outbox,
                   registered, conn, ready, queue, active, cache, mpc, history, counts>>

\* on_message: handle_protocol_message, which knows only tasks that were begun.
ReceiveCancel ==
    \E n \in 1..Len(log) :
        /\ Takes(n, {"cancel"})
        /\ cache' = [cache EXCEPT ![log[n].task] = IF @ = "none" THEN @ ELSE "cancel"]
        /\ Marks(n)
        /\ UNCHANGED <<toServer, outbox, effects, registered, ready, wpc, taken, queue>>

\* The heartbeat of a runner that has a task.
Heartbeat ==
    /\ conn # NoConn /\ wpc = "receive"
    /\ active # NoTask
    /\ counts.beats < MaxBeats
    /\ Reports("busy", active)
    /\ Counts("beats")
    /\ UNCHANGED <<server, toRunner, runner, torn, strayed, late>>

-----------------------------------------------------------------------------
(* The main thread: _run_websocket, and the messages a run of the engine   *)
(* turns into.                                                             *)

MainKeeps == UNCHANGED <<server, toRunner, last, registered, conn, ready, wpc, taken,
                         torn, strayed, late, counts>>

\* tasks.get and queued_task_ids.discard
TakeTask ==
    /\ mpc = "idle"
    /\ queue # <<>>
    /\ mpc' = "taking"
    /\ UNCHANGED <<toServer, outbox, queue, active, cache, effects>>
    /\ MainKeeps

NextTask ==
    /\ mpc = "taking"
    /\ active' = Head(queue).task
    /\ mpc' = IF Head(queue).cancel THEN "cache_cancelled" ELSE "cache"
    /\ queue' = Tail(queue)
    /\ UNCHANGED <<toServer, outbox, cache, effects>>
    /\ MainKeeps

CacheTask ==
    /\ mpc \in {"cache", "cache_cancelled"}
    /\ cache' = [cache EXCEPT ![active] = IF mpc = "cache" THEN "run" ELSE "cancel"]
    /\ mpc' = "begin"
    /\ UNCHANGED <<toServer, outbox, queue, active, effects>>
    /\ MainKeeps

RunProgress ==
    /\ mpc = "begin"
    /\ Reports("progress", active)
    /\ mpc' = "work"
    /\ UNCHANGED <<queue, active, cache>>
    /\ MainKeeps

\* _run_guarded ends; a cancellation is noticed only between two stages.
RunEnds ==
    /\ mpc = "work"
    /\ \E kind \in {"completed", "failed", "cancelled"} :
           /\ kind = "cancelled" => cache[active] = "cancel"
           /\ Reports(kind, active)
    /\ mpc' = "done"
    /\ UNCHANGED <<queue, active, cache>>
    /\ MainKeeps

TaskFinished_StaysActive ==
    /\ mpc = "done"
    /\ mpc' = "idle"
    /\ UNCHANGED <<toServer, outbox, queue, active, cache, effects>>
    /\ MainKeeps

TaskFinished ==
    /\ mpc = "done"
    /\ active' = NoTask
    /\ mpc' = "idle"
    /\ UNCHANGED <<toServer, outbox, queue, cache, effects>>
    /\ MainKeeps

\* The process ends and is started again: ProtocolState is loaded, the rest is
\* gone.
RunnerCrash ==
    /\ counts.crashes < MaxCrashes
    /\ counts.conns < MaxConns
    /\ conn' = NoConn
    /\ ready' = FALSE
    /\ wpc' = "receive"
    /\ taken' = 0
    /\ toRunner' = <<>>
    /\ queue' = <<>>
    /\ active' = NoTask
    /\ cache' = [t \in Tasks |-> "none"]
    /\ mpc' = "idle"
    /\ Counts("crashes")
    /\ UNCHANGED <<server, toServer, outbox, last, registered, history>>

-----------------------------------------------------------------------------
(* A gateway session.                                                      *)

Open(s) == sess[s] \in {"replayed", "dispatch", "receive"}

\* The messages with the numbers in seq go out on connection s.
Transmits(s, seq) == toRunner' = IF conn = s THEN toRunner \o seq ELSE toRunner

\* _send: the message is recorded and goes out.
Records(s, m) ==
    /\ log' = Append(log, m)
    /\ strayed' = (strayed \/ \E r \in Conns : r > s /\ Open(r))

Sends(s, m) == Records(s, m) /\ Transmits(s, <<Len(log) + 1>>)

Arrives(s, n) ==
    /\ toServer[s] # <<>>
    /\ n = Head(toServer[s])
    /\ toServer' = [toServer EXCEPT ![s] = Tail(@)]

OpenRegister(s) ==
    /\ sess[s] = "opening"
    /\ Arrives(s, Register)
    /\ Sends(s, [kind |-> "registered"])
    /\ sess' = [sess EXCEPT ![s] = "dispatch"]
    /\ Counts("registers")
    /\ UNCHANGED <<status, cancelReq, job, received, cancelSent, outbox, runner, effects, torn,
                   late>>

Unmarked_NotTheFirst == [i \in 1..(Len(log) - last - 1) |-> last + 1 + i]

\* list_runner_messages(..., last_seq)
Unmarked == [i \in 1..(Len(log) - last) |-> last + i]

OpenReconnect(s) ==
    /\ sess[s] = "opening"
    /\ Arrives(s, Reconnect)
    /\ Transmits(s, Unmarked)
    /\ sess' = [sess EXCEPT ![s] = "replayed"]
    /\ UNCHANGED <<status, cancelReq, job, received, log, cancelSent, outbox, runner,
                   history, counts>>

\* The Ack of a Reconnect, after the waits for what is sent before it.
AckReconnect(s) ==
    /\ sess[s] = "replayed"
    /\ Sends(s, [kind |-> "reconnected"])
    /\ sess' = [sess EXCEPT ![s] = "dispatch"]
    /\ UNCHANGED <<status, cancelReq, job, received, cancelSent, toServer, outbox, runner,
                   effects, torn, late, counts>>

\* The session is over, and what is on its way to it is not read any more.
Closes(s) == /\ sess' = [sess EXCEPT ![s] = "closed"]
             /\ toServer' = [toServer EXCEPT ![s] = <<>>]
             /\ cancelSent' = [cancelSent EXCEPT ![s] = {}]

\* A session may end under the runner's connection if it can connect again.
MayEnd(s) == conn = s => counts.conns < MaxConns

\* The server notices that the connection is gone, or it stops.
SessionEnds(s) ==
    /\ sess[s] = "opening" \/ Open(s)
    /\ MayEnd(s)
    /\ Closes(s)
    /\ UNCHANGED <<status, cancelReq, job, received, log, toRunner, outbox, runner,
                   history, counts>>

-----------------------------------------------------------------------------
(* _handle.                                                                *)

Completed_Ignored(j, s) == j

\* renew_job, complete_job and fail_job of this runner: every lease of its
\* tasks carries its name, whichever session or process of it took the lease.
Renewed(j)      == [j EXCEPT !.expired = FALSE]
Completed(j, s) == IF j.status = "leased"
                   THEN [j EXCEPT !.status = s, !.expired = FALSE] ELSE j
Retries(j)      == j.status = "leased" /\ j.attempts < MaxAttempts
Failed(j)       == IF Retries(j)
                   THEN [j EXCEPT !.status = "pending", !.expired = FALSE, !.wait = TRUE]
                   ELSE Completed(j, "failed")

\* What report r makes of the task rows and of the job rows.  A heartbeat is for
\* the task the server takes for the runner's current one.
NewStatus(r) ==
    LET becomes(st) == [status EXCEPT ![r.task] = st] IN
    CASE r.kind = "busy"      -> status
      [] r.kind = "accepted"  -> becomes("accepted")
      [] r.kind = "progress"  -> becomes("running")
      [] r.kind = "completed" -> becomes("waiting_approval")
      [] r.kind = "failed"    -> becomes(IF Retries(job[r.task]) THEN "queued" ELSE "failed")
      [] r.kind = "cancelled" -> becomes("cancelled")

NewJob(r) ==
    LET becomes(j) == [job EXCEPT ![r.task] = j] IN
    CASE r.kind = "busy"      -> IF Active(status) = {} THEN job
                                 ELSE [job EXCEPT ![First(Active(status))] = Renewed(@)]
      [] r.kind = "accepted"  -> becomes(Renewed(job[r.task]))
      [] r.kind = "progress"  -> becomes(Renewed(job[r.task]))
      [] r.kind = "completed" -> becomes(Completed(job[r.task], "completed"))
      [] r.kind = "failed"    -> becomes(Failed(job[r.task]))
      [] r.kind = "cancelled" -> becomes(Completed(job[r.task], "cancelled"))

IsNew_Always(n) == TRUE

\* record_runner_message
IsNew(n) == n \notin received

Handle(s, n) ==
    /\ sess[s] = "receive"
    /\ n > 0
    /\ Arrives(s, n)
    /\ received' = received \cup {n}
    /\ IF IsNew(n)
       THEN /\ status' = NewStatus(reports[n])
            /\ job' = NewJob(reports[n])
            /\ effects' = [effects EXCEPT ![n] = @ + 1]
       ELSE UNCHANGED <<status, job, effects>>
    /\ Sends(s, [kind |-> "ack", ack |-> n])
    /\ sess' = [sess EXCEPT ![s] = "dispatch"]
    /\ UNCHANGED <<cancelReq, cancelSent, outbox, runner, torn, late, counts>>

\* What the first transaction behind the record makes of them: renew_job comes
\* before update_task, update_task before complete_job and fail_job.
HalfStatus(r) ==
    LET becomes(st) == [status EXCEPT ![r.task] = st] IN
    CASE r.kind = "completed" -> becomes("waiting_approval")
      [] r.kind = "failed"    -> becomes("failed")
      [] r.kind = "cancelled" -> becomes("cancelled")
      [] OTHER                -> status

HalfJob(r) == IF r.kind \in {"accepted", "progress"} THEN NewJob(r) ELSE job

\* The server stops, or the handler raises, when the report is recorded but not
\* acknowledged: nothing is done about it yet, or half, or all.  A repetition
\* will be acknowledged as known.
HandleCut(s, n) ==
    /\ sess[s] = "receive"
    /\ n > 0
    /\ MayEnd(s)
    /\ toServer[s] # <<>> /\ n = Head(toServer[s])
    /\ IsNew(n)
    /\ received' = received \cup {n}
    /\ \/ /\ torn' = torn \cup {n}
          /\ UNCHANGED <<status, job, effects>>
       \/ /\ torn' = torn \cup {n}
          /\ status' = HalfStatus(reports[n])
          /\ job' = HalfJob(reports[n])
          /\ UNCHANGED effects
       \/ /\ status' = NewStatus(reports[n])
          /\ job' = NewJob(reports[n])
          /\ effects' = [effects EXCEPT ![n] = @ + 1]
          /\ UNCHANGED torn
    /\ Closes(s)
    /\ UNCHANGED <<cancelReq, log, toRunner, outbox, runner, strayed, late, counts>>

-----------------------------------------------------------------------------
(* _dispatch_control_messages: before every message, and every second.     *)

Lost(t) == job[t].status = "leased" /\ job[t].expired

\* recover_expired_jobs
RecoveredStatus == [t \in Tasks |-> IF Lost(t) THEN "queued" ELSE status[t]]
RecoveredJob    == [t \in Tasks |->
                       IF Lost(t) THEN [job[t] EXCEPT !.status = "pending", !.expired = FALSE]
                       ELSE job[t]]

Dispatches(s) == /\ sess[s] \in {"dispatch", "receive"}
                 /\ sess' = [sess EXCEPT ![s] = "receive"]
                 /\ UNCHANGED <<cancelReq, received, toServer, outbox, runner,
                                effects, torn, late, counts>>

ToCancel(s) == LET A == Active(RecoveredStatus) IN
               {t \in A : t = First(A) /\ cancelReq[t]} \ cancelSent[s]
ToAssign    == {t \in Tasks : RecoveredJob[t].status = "pending" /\ ~RecoveredJob[t].wait}

DispatchCancel(s) ==
    \E t \in ToCancel(s) :
        /\ Sends(s, [kind |-> "cancel", task |-> t])
        /\ cancelSent' = [cancelSent EXCEPT ![s] = @ \cup {t}]
        /\ status' = RecoveredStatus
        /\ job' = RecoveredJob
        /\ Dispatches(s)

\* lease_job and the update of the task that assign_runner_task makes.  Which of
\* the pending jobs is the oldest is left open.
DispatchAssign(s) ==
    /\ Active(RecoveredStatus) = {}
    /\ \E t \in ToAssign :
           /\ status' = [RecoveredStatus EXCEPT ![t] = "assigned"]
           /\ job' = [RecoveredJob EXCEPT ![t].status = "leased", ![t].attempts = @ + 1]
           /\ Sends(s, [kind |-> "assign", task |-> t, cancel |-> cancelReq[t]])
    /\ UNCHANGED cancelSent
    /\ Dispatches(s)

DispatchNothing(s) ==
    /\ IF Active(RecoveredStatus) = {} THEN ToAssign = {} ELSE ToCancel(s) = {}
    /\ status' = RecoveredStatus
    /\ job' = RecoveredJob
    /\ UNCHANGED <<log, toRunner, cancelSent, strayed>>
    /\ Dispatches(s)

Dispatch(s) == DispatchCancel(s) \/ DispatchAssign(s) \/ DispatchNothing(s)

-----------------------------------------------------------------------------
(* The user, whose handlers are modelled in JobQueue, and time.            *)

TableKeeps == UNCHANGED <<received, log, sess, cancelSent, wires, outbox, runner,
                          effects, torn, strayed>>

Start(t) ==
    /\ counts.registers > 0
    /\ status[t] \in {"draft", "failed"}
    /\ counts.starts < MaxStarts
    /\ status' = [status EXCEPT ![t] = "queued"]
    /\ cancelReq' = [cancelReq EXCEPT ![t] = FALSE]
    /\ job' = [job EXCEPT ![t] = [NoJob EXCEPT !.status = "pending"]]
    /\ Counts("starts")
    /\ UNCHANGED late
    /\ TableKeeps

Cancel(t) ==
    /\ status[t] \notin {"completed", "cancelled"}
    /\ counts.cancels < MaxCancels
    /\ cancelReq' = [cancelReq EXCEPT ![t] = TRUE]
    /\ IF status[t] = "queued"
       THEN /\ status' = [status EXCEPT ![t] = "cancelled"]
            /\ job' = [job EXCEPT ![t].status = IF @ = "pending" THEN "cancelled" ELSE @]
       ELSE UNCHANGED <<status, job>>
    /\ Counts("cancels")
    /\ UNCHANGED late
    /\ TableKeeps

Approve(t) ==
    /\ status[t] = "waiting_approval"
    /\ status' = [status EXCEPT ![t] = "completed"]
    /\ UNCHANGED <<cancelReq, job, late, counts>>
    /\ TableKeeps

\* Somebody is going to report on task t: the runner works on it or will, or
\* has reports on it in its outbox.
Held(t) ==
    \/ active = t
    \/ \E i \in 1..Len(queue) : queue[i].task = t
    \/ \E n \in pending : reports[n].task = t
    \/ \E n \in last + 1..Len(log) : log[n].kind = "assign" /\ log[n].task = t

Expire(t) ==
    /\ job[t].status = "leased" /\ ~job[t].expired
    /\ counts.expiries < MaxExpiries
    /\ late' = (late \/ (conn # NoConn /\ Held(t)))
    /\ job' = [job EXCEPT ![t].expired = TRUE]
    /\ Counts("expiries")
    /\ UNCHANGED <<status, cancelReq>>
    /\ TableKeeps

BackoffEnds(t) ==
    /\ job[t].wait
    /\ job' = [job EXCEPT ![t].wait = FALSE]
    /\ UNCHANGED <<status, cancelReq, late, counts>>
    /\ TableKeeps

-----------------------------------------------------------------------------

RunnerStep == \/ Connect \/ ReceiveAck \/ ReceiveOpened \/ ReceiveAssign
              \/ ReceiveCancel \/ Flush \/ Mark

MainStep == TakeTask \/ NextTask \/ CacheTask \/ RunProgress \/ RunEnds \/ TaskFinished

OpenStep(s)   == OpenRegister(s) \/ OpenReconnect(s) \/ AckReconnect(s)
HandleStep(s) == \E n \in 1..Len(reports) : Handle(s, n)

Next == \/ RunnerStep \/ MainStep
        \/ Disconnect \/ Heartbeat \/ RunnerCrash
        \/ \E s \in Conns : \/ OpenStep(s) \/ HandleStep(s) \/ Dispatch(s) \/ SessionEnds(s)
                            \/ \E n \in 1..Len(reports) : HandleCut(s, n)
        \/ \E t \in Tasks : \/ Start(t) \/ Cancel(t) \/ Approve(t)
                            \/ Expire(t) \/ BackoffEnds(t)

Spec == Init /\ [][Next]_vars

\* The runner's threads and the server's sessions go on, a broken connection is
\* noticed, backoffs end, and a lease runs out that nobody renews.  No fairness for
\* the user and for what breaks.
Fairness == /\ WF_vars(RunnerStep) /\ WF_vars(MainStep)
            /\ WF_vars(Disconnect /\ sess[conn] = "closed")
            /\ \A s \in Conns : /\ WF_vars(OpenStep(s)) /\ WF_vars(HandleStep(s))
                                 /\ WF_vars(Dispatch(s))
                                 /\ WF_vars(SessionEnds(s) /\ conn # s)
            /\ \A t \in Tasks : WF_vars(Expire(t) /\ ~late') /\ WF_vars(BackoffEnds(t))

FairSpec == Spec /\ Fairness

-----------------------------------------------------------------------------
(* Properties.                                                             *)

\* Every variable holds a value of its table, message store or thread.
TypeOK ==
    /\ status \in [Tasks -> TaskStatus]
    /\ cancelReq \in [Tasks -> BOOLEAN]
    /\ job \in [Tasks -> Job]
    /\ received \subseteq 1..Len(reports)
    /\ \A n \in 1..Len(log) :
           log[n].kind \in {"registered", "reconnected", "ack", "assign", "cancel", "marked"}
    /\ sess \in [Conns -> {"none", "opening", "replayed", "dispatch", "receive", "closed"}]
    /\ cancelSent \in [Conns -> SUBSET Tasks]
    /\ \A s \in Conns : \A i \in 1..Len(toServer[s]) :
           toServer[s][i] \in Reconnect..Len(reports)
    /\ \A i \in 1..Len(toRunner) : toRunner[i] \in 1..Len(log)
    /\ pending \subseteq 1..Len(reports)
    /\ last \in 0..Len(log)
    /\ registered \in BOOLEAN
    /\ conn \in {NoConn} \cup Conns
    /\ ready \in BOOLEAN /\ (ready => conn # NoConn)
    /\ wpc \in {"receive", "flush", "mark"}
    /\ taken \in 0..Len(log)
    /\ \A i \in 1..Len(queue) : queue[i] \in [task : Tasks, cancel : BOOLEAN]
    /\ active \in {NoTask} \cup Tasks
    /\ cache \in [Tasks -> {"none", "run", "cancel"}]
    /\ mpc \in {"idle", "taking", "cache", "cache_cancelled", "begin", "work", "done"}
    /\ torn \subseteq received
    /\ strayed \in BOOLEAN /\ late \in BOOLEAN
    /\ counts \in Counters

\* No report is lost on the way: until the server has acted upon it to the end, it
\* stays in the outbox, over all breaks, restarts and overlapping sessions, and in
\* whatever order reports and acknowledgements cross.  What is lost is the report
\* whose handler was cut short behind its record, and no other.
NothingLost == \A n \in 1..Len(reports) : n \in pending \/ effects[n] > 0 \/ n \in torn

\* No report is acted upon twice, however often it is sent, and none again that
\* was acted upon in part.
AtMostOnce == \A n \in 1..Len(reports) : effects[n] <= IF n \in torn THEN 0 ELSE 1

\* Every message of the server reaches the runner: what is not marked will be
\* replayed, what is marked was handled.
NoGap == \A n \in 1..last : log[n] = Marked

\* The same, as long as the runner registers only once and no session outlives
\* its connection so long that it sends beside its successor.
ReplayIsComplete == counts.registers <= 1 /\ ~strayed => NoGap

\* "The runner reports the end of a task": what the server counts as the runner's
\* current task is held by it or has a lease that can run out.
Orphan(t) == status[t] \in ActiveStatus /\ job[t].status # "leased" /\ ~Held(t)
NoOrphan  == \A t \in Tasks : ~Orphan(t)

\* While the connection holds, what the user approved stays approved: no report, no
\* recovery of a lease and no assignment reaches the task any more, unless a
\* lease ran out too early and the task was given away twice.
ApprovedIsFinal ==
    [][\A t \in Tasks :
           status[t] = "completed" /\ ~late => status'[t] = "completed"]_vars

\* While the connection holds, every task the runner is given comes back: it is
\* delivered, fails, is cancelled or is queued again, even when the runner drops
\* an assignment because it has not quite finished the run before.  Two cases are
\* excepted: a lease that ran out too early, and a lease that can run out no more
\* because of the bound.
TasksComeBack ==
    \A t \in Tasks :
        status[t] \in ActiveStatus ~>
            \/ status[t] \notin ActiveStatus
            \/ late
            \/ counts.expiries = MaxExpiries /\ job[t].status = "leased" /\ ~Held(t)

=============================================================================
