------------------------------ MODULE TaskView ------------------------------
(***************************************************************************)
(* The task page of the web client (app/static/app.js) and what it reads   *)
(* from the server: GET /tasks/{id} (get_task) and the event stream        *)
(* GET /tasks/{id}/events (stream_events).                                 *)
(*                                                                         *)
(* The client keeps one global state: the selected task, the detail it     *)
(* shows and one stream.  Every answer and every stream message is handled *)
(* on that state, whichever request it belongs to: the user need not wait  *)
(* for an answer before he clicks, and answers come in any order.  The     *)
(* server reads status and events in separate queries while workers write  *)
(* them.  A message of a stream is handled when it is yielded.             *)
(*                                                                         *)
(* On PostgreSQL several processes write events; each holds its own lock,  *)
(* and the id of an event is drawn before its transaction commits.         *)
(***************************************************************************)
EXTENDS Naturals, Sequences, FiniteSets, FiniteSetsExt

CONSTANTS
    Tasks,
    Processes,   \* how many processes write events
    MaxEvents,   \* bound: events
    MaxCalls,    \* bound: unanswered calls
    MaxStreams,  \* bound: streams that are open at a time
    MaxClicks,   \* bound: what the user does
    MaxFaults    \* bound: streams that break and answers that are lost

ASSUME ViewConstants ==
    {Processes, MaxEvents, MaxCalls, MaxStreams, MaxClicks, MaxFaults} \subseteq Nat

VARIABLES
    status,    \* tasks.status: draft, ended or one of Live
    events,    \* the ids of the committed events of each task
    due,       \* the events committed when the task ended (history)
    current,   \* state.current
    detail,    \* state.detail: a task, a status, a set of events with their tasks
    calls,     \* the unanswered calls, in the order they were made
    streams,   \* the event streams, the server's part and the client's
    stream,    \* state.stream
    clicks,    \* what the user did so far
    faults,    \* streams that broke and answers that were lost so far
    lost,      \* history: an answer was lost
    late       \* history: an answer came before that of an older call, or opened
               \* a stream for a task that was no longer selected or beside
               \* the stream that state.stream named

server == <<status, events, due>>
client == <<current, detail, calls, streams, stream>>
vars == <<server, client, clicks, faults, lost, late>>

\* "running" stands for queued, assigned, accepted and running.
Live == {"running", "wait_permission"}

Ids == 1..MaxEvents
Streams == 1..MaxStreams
NoTask == "none"
NoStream == 0
Unread == "unread"

Closed == [task |-> NoTask, cursor |-> 0, next |-> "list"]

Init ==
    /\ status \in [Tasks -> {"draft", "running"}]
    /\ events = [t \in Tasks |-> {}] /\ due = events
    /\ current = NoTask
    /\ detail = [task |-> NoTask, status |-> "draft", events |-> {}]
    /\ calls = <<>>
    /\ streams = [s \in Streams |-> Closed]
    /\ stream = NoStream
    /\ clicks = 0 /\ faults = 0 /\ lost = FALSE /\ late = FALSE

-----------------------------------------------------------------------------
(* The writers: add_event, and the runs that change the status             *)

Unused == Ids \ UNION {events[t] : t \in Tasks}

\* An event becomes visible.  Its id was drawn earlier: up to Processes - 1 lower
\* ids may still belong to open transactions.
AddEvent(t) ==
    /\ \E i \in Unused :
          /\ Cardinality({j \in Unused : j < i}) < Processes
          /\ events' = [events EXCEPT ![t] = @ \cup {i}]
    /\ UNCHANGED <<status, due, client, clicks, faults, lost, late>>

\* A runner asks for a permission, or an owner has decided.
Toggle(t) ==
    /\ status[t] \in Live
    /\ status' = [status EXCEPT ![t] = CHOOSE s \in Live : s # status[t]]
    /\ UNCHANGED <<events, due, client, clicks, faults, lost, late>>

EndRun(t) ==
    /\ status[t] \in Live
    /\ status' = [status EXCEPT ![t] = "ended"]
    /\ due' = [due EXCEPT ![t] = events[t]]
    /\ UNCHANGED <<events, client, clicks, faults, lost, late>>

-----------------------------------------------------------------------------
(* The calls of api: GET /tasks/{id} with the two reads of get_task, and    *)
(* requests whose answer has nothing for the page                          *)

Asking(kind, t) ==
    [kind |-> kind, task |-> t, status |-> Unread, events |-> {}, read |-> FALSE]
Awaiting(kind, t) == [Asking(kind, t) EXCEPT !.status = "draft", !.read = TRUE]

HasRoom == Len(calls) < MaxCalls
Acts == clicks < MaxClicks /\ clicks' = clicks + 1

ReadStatus(i) ==
    /\ calls[i].status = Unread
    /\ calls' = [calls EXCEPT ![i].status = status[calls[i].task]]
    /\ UNCHANGED <<server, current, detail, streams, stream, clicks, faults, lost, late>>

ReadEvents(i) ==
    /\ calls[i].status # Unread /\ ~calls[i].read
    /\ calls' = [calls EXCEPT ![i].events = events[calls[i].task], ![i].read = TRUE]
    /\ UNCHANGED <<server, current, detail, streams, stream, clicks, faults, lost, late>>

Shown(c) == [task |-> c.task, status |-> c.status, events |-> {c.task} \X c.events]
Others(i) == [j \in 1..Len(calls) - 1 |-> calls[IF j < i THEN j ELSE j + 1]]

CloseCurrent == IF stream = NoStream THEN streams ELSE [streams EXCEPT ![stream] = Closed]

\* A mutant of SelectNow: the stream of the last task stays open.
SelectNowStreaming(t, rest) ==
    /\ stream' = NoStream
    /\ current' = t
    /\ calls' = Append(rest, Asking("select", t))
    /\ UNCHANGED streams

\* selectTask, to its await
SelectNow(t, rest) ==
    /\ streams' = CloseCurrent
    /\ stream' = NoStream
    /\ current' = t
    /\ calls' = Append(rest, Asking("select", t))

Select(t) ==
    /\ Acts /\ HasRoom
    /\ SelectNow(t, calls)
    /\ UNCHANGED <<server, detail, faults, lost, late>>

Opens(i) == calls[i].kind = "select" /\ calls[i].status \in Live

\* selectTask goes on: connectStream for a task that is live.  A stream that
\* state.stream still names is not closed.
AnswerSelect(i) ==
    /\ calls[i].kind = "select"
    /\ detail' = Shown(calls[i])
    /\ calls' = Others(i)
    /\ IF Opens(i)
       THEN \E s \in Streams :
               /\ streams[s] = Closed
               /\ \A r \in Streams : streams[r] = Closed => s <= r
               /\ streams' = [streams EXCEPT ![s] = [Closed EXCEPT !.task = calls[i].task]]
               /\ stream' = s
       ELSE UNCHANGED <<streams, stream>>
    /\ UNCHANGED current

\* refreshCurrent: the detail is there, and GET /tasks follows.
Listing(kind) == IF kind = "start" THEN "started" ELSE "refreshed"

AnswerRefresh(i) ==
    /\ calls[i].kind \in {"refresh", "start"}
    /\ detail' = Shown(calls[i])
    /\ calls' = Append(Others(i), Awaiting(Listing(calls[i].kind), calls[i].task))
    /\ UNCHANGED <<current, streams, stream>>

\* GET /tasks is answered: the page is drawn from the detail.
AnswerList(i) ==
    /\ calls[i].kind = "refreshed"
    /\ calls' = Others(i)
    /\ UNCHANGED <<current, detail, streams, stream>>

\* POST /tasks/{id}/start is answered: runAction refreshes what is selected now.
AnswerPost(i) ==
    /\ calls[i].kind = "posted"
    /\ calls' = Append(Others(i), Asking("start", current))
    /\ UNCHANGED <<current, detail, streams, stream>>

\* startCurrent goes on behind runAction: selectTask.
AnswerStart(i) ==
    /\ calls[i].kind = "started"
    /\ SelectNow(current, Others(i))
    /\ UNCHANGED detail

Answer(i) ==
    /\ calls[i].read
    /\ \/ AnswerSelect(i) \/ AnswerRefresh(i) \/ AnswerList(i)
       \/ AnswerPost(i) \/ AnswerStart(i)
    /\ late' = (late \/ i # 1
                  \/ (Opens(i) /\ (calls[i].task # current \/ stream # NoStream)))
    /\ UNCHANGED <<server, clicks, faults, lost>>

\* The request fails: a toast.  startCurrent selects all the same.
AnswerLost(i) ==
    /\ faults < MaxFaults
    /\ faults' = faults + 1
    /\ lost' = TRUE
    /\ IF calls[i].kind \in {"posted", "start", "started"}
       THEN SelectNow(current, Others(i))
       ELSE calls' = Others(i) /\ UNCHANGED <<current, streams, stream>>
    /\ UNCHANGED <<server, detail, clicks, late>>

-----------------------------------------------------------------------------
(* Buttons                                                                 *)

\* runAction (cancel, approve, decide, publish): the answer to the POST leads to
\* refreshCurrent.
Act ==
    /\ current # NoTask
    /\ Acts /\ HasRoom
    /\ calls' = Append(calls, Asking("refresh", current))
    /\ UNCHANGED <<server, current, detail, streams, stream, faults, lost, late>>

\* startCurrent: the POST starts a task at rest; otherwise its answer is 409, and
\* nothing is refreshed before selectTask.
StartCurrent ==
    /\ current # NoTask
    /\ Acts /\ HasRoom
    /\ \/ /\ status[current] \notin Live
          /\ status' = [status EXCEPT ![current] = "running"]
          /\ due' = [due EXCEPT ![current] = {}]
          /\ calls' = Append(calls, Awaiting("posted", current))
       \/ /\ status[current] \in Live
          /\ calls' = Append(calls, Awaiting("started", current))
          /\ UNCHANGED <<status, due>>
    /\ UNCHANGED <<events, current, detail, streams, stream, faults, lost, late>>

-----------------------------------------------------------------------------
(* stream_events and the handlers of connectStream                         *)

\* list_events(task_id, cursor)
Fresh(s) == {i \in events[streams[s].task] : i > streams[s].cursor}

StreamEvents(s) ==
    /\ streams[s] # Closed /\ streams[s].next = "list"
    /\ streams' = [streams EXCEPT ![s].next = "status",
                                  ![s].cursor = Max(Fresh(s) \cup {@})]
    /\ detail' = [detail EXCEPT !.events = @ \cup ({streams[s].task} \X Fresh(s))]
    /\ UNCHANGED <<server, current, calls, stream, clicks, faults, lost, late>>

\* The end of a stream at the client: closing state.stream is meant to close
\* this one.  A stream that stays open connects again, from the beginning.
EndStream(s) ==
    /\ streams' = [r \in Streams |->
                     IF r = stream THEN Closed
                     ELSE IF r = s THEN [Closed EXCEPT !.task = streams[s].task]
                     ELSE streams[r]]
    /\ stream' = NoStream

\* A mutant of RefreshesAfter: the page trusts the stream at the end.
RefreshesWhileWaiting(st) == st = "wait_permission"

\* After this status the handler calls refreshCurrent.
RefreshesAfter(st) == st \in {"wait_permission", "ended"}

\* The handler throws when a stream nobody names has ended: no refresh.
StreamStatus(s) ==
    LET t == streams[s].task
        st == status[t]
    IN /\ streams[s] # Closed /\ streams[s].next = "status"
       /\ detail' = [detail EXCEPT !.task = t, !.status = st]
       /\ IF st = "ended" THEN EndStream(s)
          ELSE /\ streams' = [streams EXCEPT ![s].next = "list"]
               /\ UNCHANGED stream
       /\ IF RefreshesAfter(st) /\ ~(st = "ended" /\ stream = NoStream)
          THEN HasRoom /\ calls' = Append(calls, Asking("refresh", current))
          ELSE UNCHANGED calls
       /\ UNCHANGED <<server, current, clicks, faults, lost, late>>

\* onerror
StreamBreaks(s) ==
    /\ streams[s] # Closed
    /\ faults < MaxFaults
    /\ faults' = faults + 1
    /\ EndStream(s)
    /\ UNCHANGED <<server, current, detail, calls, clicks, lost, late>>

-----------------------------------------------------------------------------

Network == \E i \in DOMAIN calls : ReadStatus(i) \/ ReadEvents(i) \/ Answer(i)
Streaming(s) == StreamEvents(s) \/ StreamStatus(s)

Next ==
    \/ \E t \in Tasks :
          AddEvent(t) \/ Toggle(t) \/ EndRun(t) \/ Select(t)
    \/ Act \/ StartCurrent
    \/ Network
    \/ \E i \in DOMAIN calls : AnswerLost(i)
    \/ \E s \in Streams : Streaming(s) \/ StreamBreaks(s)

Spec == Init /\ [][Next]_vars

-----------------------------------------------------------------------------
(* Properties                                                              *)

AtRest == calls = <<>> /\ ~lost /\ ~late

\* When every call is answered, what the page shows, and what its buttons act on,
\* is the selected task, however fast the user clicked: the answer of an earlier
\* selection or action was replaced, and no stream of another task is left to
\* replace it.  Excepted are answers out of order, and an answer that opened a
\* stream for a task no longer selected or beside the stream of the page: the
\* client has nothing against them.
ShownIsCurrent ==
    AtRest /\ current # NoTask =>
        /\ detail.task = current
        /\ \A e \in detail.events : e[1] = current
        /\ \A s \in Streams : streams[s] # Closed => s = stream

\* A page that shows a task at its end, and waits for nothing more, shows every
\* event from before the end: the ones the stream skipped because they committed
\* after a later id, or that an answer read earlier wiped out, come with the last
\* refresh.  The same answers are excepted.
EndedViewIsComplete ==
    AtRest /\ stream = NoStream /\ detail.status = "ended" =>
        \A i \in due[detail.task] : <<detail.task, i>> \in detail.events

=============================================================================
