----------------------- MODULE RunnerProtocol_proofs -----------------------
(***************************************************************************)
(* Proofs about RunnerProtocol: for any number of tasks, connections,      *)
(* restarts and messages, no report of the runner is lost but those whose  *)
(* handler was cut short, none is acted upon twice, and no message of the  *)
(* server is skipped when the runner registers once and no session sends   *)
(* beside its successor.                                                   *)
(*                                                                         *)
(* The inductive invariant has one conjunct for each part of the protocol: *)
(* the tables, the runner's threads, the two message stores with what is   *)
(* on the wires, the connection and its session, and the replay, which     *)
(* says that what the runner has marked, what it is handling and what is   *)
(* on its way make up the whole log of the server, in order.               *)
(***************************************************************************)
EXTENDS RunnerProtocol, FiniteSetTheorems, TLAPS

ReportKinds == {"accepted", "progress", "busy", "completed", "failed", "cancelled"}
Report      == [kind : ReportKinds, task : Tasks]

Acks    == [kind : {"ack"}, ack : Nat]
Assigns == [kind : {"assign"}, task : Tasks, cancel : BOOLEAN]
Cancels == [kind : {"cancel"}, task : Tasks]
Message == {[kind |-> "registered"], [kind |-> "reconnected"], Marked}
              \cup Acks \cup Assigns \cup Cancels

Assignment == [task : Tasks, cancel : BOOLEAN]

\* The rows of the tasks and jobs, and what the sessions remember.
Tables ==
    /\ status \in [Tasks -> TaskStatus]
    /\ cancelReq \in [Tasks -> BOOLEAN]
    /\ job \in [Tasks -> Job]
    /\ cancelSent \in [Conns -> SUBSET Tasks]
    /\ strayed \in BOOLEAN /\ late \in BOOLEAN

\* The runner's main thread has a task when it works on one.
Threads ==
    /\ queue \in Seq(Assignment)
    /\ active \in {NoTask} \cup Tasks
    /\ cache \in [Tasks -> {"none", "run", "cancel"}]
    /\ mpc \in {"idle", "taking", "cache", "cache_cancelled", "begin", "work", "done"}
    /\ mpc \notin {"idle", "taking"} => active \in Tasks
    /\ mpc = "taking" => queue # <<>>

\* A report leaves the outbox only after the server has recorded it, and a report
\* that is recorded was acted upon, unless its handler was cut short.
Ledger ==
    /\ reports \in Seq(Report)
    /\ effects \in Seq(Nat)
    /\ Len(effects) = Len(reports)
    /\ received \subseteq 1..Len(reports)
    /\ torn \subseteq received
    /\ pending \subseteq 1..Len(reports)
    /\ \A n \in 1..Len(reports) :
           /\ n \in pending \/ n \in received
           /\ effects[n] = IF n \in received /\ n \notin torn THEN 1 ELSE 0

\* The server acknowledges only what it has recorded.
Log ==
    /\ log \in Seq(Message)
    /\ \A n \in 1..Len(log) : log[n].kind = "ack" => log[n].ack \in received
    /\ last \in 0..Len(log)
    /\ taken \in 0..Len(log)

\* Only numbers of messages are on their way.
ServerWire ==
    /\ toServer \in [Conns -> Seq(Int)]
    /\ \A s \in Conns : \A i \in 1..Len(toServer[s]) :
           toServer[s][i] \in Reconnect..Len(reports)

RunnerWire ==
    /\ toRunner \in Seq(Int)
    /\ \A i \in 1..Len(toRunner) : toRunner[i] \in 1..Len(log)

\* The connection of the runner is the newest, and whoever sends on it does so
\* after its session was opened.
Link ==
    /\ counts \in Counters
    /\ sess \in [Conns -> {"none", "opening", "replayed", "dispatch", "receive", "closed"}]
    /\ \A s \in Conns : sess[s] = "none" <=> s > counts.conns
    /\ conn \in {NoConn, counts.conns}
    /\ registered \in BOOLEAN /\ ready \in BOOLEAN
    /\ wpc \in {"receive", "flush", "mark"}
    /\ taken = 0 <=> wpc = "receive"
    /\ ready \/ wpc # "receive" \/ toRunner # <<>> => conn # NoConn /\ sess[conn] # "opening"

Fresh == {s \in Conns : sess[s] \in {"none", "opening"}}

\* A connection registers at most once, before anything else happens on it, and
\* nothing is in the log before the first registration.
Opening ==
    /\ counts.registers + Cardinality(Fresh) <= MaxConns
    /\ \A s \in Conns : sess[s] = "opening" =>
           \/ toServer[s] = <<Register>>
           \/ toServer[s] = <<Reconnect>> /\ counts.registers > 0
    /\ registered \/ log # <<>> \/ (\E s \in Conns : Open(s)) => counts.registers > 0

\* The message that is being handled.
Busy == IF taken = 0 THEN 0 ELSE 1

\* While the assumptions of ReplayIsComplete hold, the marked messages, the one being
\* handled and those on their way follow one another, up to the last of the log as
\* long as the session of the connection is open.
Replay ==
    counts.registers <= 1 /\ ~strayed =>
        /\ NoGap
        /\ conn # NoConn =>
              /\ taken # 0 => taken = last + 1
              /\ \A i \in 1..Len(toRunner) : toRunner[i] = last + Busy + i
              /\ Open(conn) => last + Busy + Len(toRunner) = Len(log)

ProtocolInv ==
    Tables /\ Threads /\ Ledger /\ Log /\ ServerWire /\ RunnerWire /\ Link /\ Opening /\ Replay

\* The steps of a session that send one message, those that end it, and all.
SendStep(s)    == OpenRegister(s) \/ AckReconnect(s) \/ HandleStep(s) \/ DispatchCancel(s)
                     \/ DispatchAssign(s)
EndStep(s)     == SessionEnds(s) \/ \E n \in 1..Len(reports) : HandleCut(s, n)
SessionStep(s) == SendStep(s) \/ OpenReconnect(s) \/ DispatchNothing(s) \/ EndStep(s)

-----------------------------------------------------------------------------
(* Sequences of messages                                                   *)

\* What Append does to a sequence.
LEMMA AppendFacts ==
    ASSUME NEW S, NEW q \in Seq(S), NEW e \in S
    PROVE  /\ Append(q, e) \in Seq(S)
           /\ Len(Append(q, e)) = Len(q) + 1
           /\ \A i \in 1..Len(q) : Append(q, e)[i] = q[i]
           /\ Append(q, e)[Len(q) + 1] = e
           /\ Append(q, e) # <<>>
OBVIOUS

\* What Head and Tail make of one that is not empty.
LEMMA TailFacts ==
    ASSUME NEW S, NEW q \in Seq(S), q # <<>>
    PROVE  /\ Tail(q) \in Seq(S)
           /\ Len(Tail(q)) = Len(q) - 1
           /\ Len(q) \in Nat \ {0}
           /\ Head(q) = q[1]
           /\ Head(q) \in S
           /\ \A i \in 1..Len(Tail(q)) : Tail(q)[i] = q[i + 1]
OBVIOUS

\* What the replacement of one element does.
LEMMA ExceptFacts ==
    ASSUME NEW S, NEW q \in Seq(S), NEW n \in 1..Len(q), NEW e \in S
    PROVE  /\ [q EXCEPT ![n] = e] \in Seq(S)
           /\ Len([q EXCEPT ![n] = e]) = Len(q)
           /\ [q EXCEPT ![n] = e][n] = e
           /\ \A i \in 1..Len(q) : i # n => [q EXCEPT ![n] = e][i] = q[i]
OBVIOUS

\* What concatenation does.
LEMMA ConcatFacts ==
    ASSUME NEW S, NEW p \in Seq(S), NEW q \in Seq(S)
    PROVE  /\ p \o q \in Seq(S)
           /\ Len(p \o q) = Len(p) + Len(q)
           /\ \A i \in 1..Len(p) : (p \o q)[i] = p[i]
           /\ \A i \in 1..Len(q) : (p \o q)[Len(p) + i] = q[i]
OBVIOUS

\* A function on 1..n is a sequence of length n.
LEMMA FunctionIsSeq ==
    ASSUME NEW S, NEW n \in Nat, NEW f \in [1..n -> S]
    PROVE  f \in Seq(S) /\ Len(f) = n
OBVIOUS

\* How many elements of a set are not above the given one.
Rank(S, m) == Cardinality({k \in S : k <= m})

\* The ranks of the elements of a finite set of numbers are 1 up to its size.
LEMMA RankFacts ==
    ASSUME NEW S \in SUBSET Nat, IsFiniteSet(S)
    PROVE  \A i \in 1..Cardinality(S) : \E m \in S : Rank(S, m) = i
<1> DEFINE upTo(m) == {k \in S : k <= m}
           R       == [m \in S |-> Rank(S, m)]
<1>1. ASSUME NEW m \in S
      PROVE  /\ IsFiniteSet(upTo(m)) /\ Rank(S, m) \in 1..Cardinality(S)
  <2>1. upTo(m) \subseteq S /\ m \in upTo(m) OBVIOUS
  <2>2. IsFiniteSet(upTo(m)) /\ Cardinality(upTo(m)) <= Cardinality(S) BY <2>1, FS_Subset
  <2>3. Cardinality(upTo(m)) \in Nat /\ Cardinality(S) \in Nat BY <2>2, FS_CardinalityType
  <2>4. Cardinality(upTo(m)) # 0 BY <2>1, <2>2, FS_EmptySet
  <2> QED BY <2>2, <2>3, <2>4 DEF Rank
<1>2. ASSUME NEW m \in S, NEW n \in S, m < n PROVE Rank(S, m) # Rank(S, n)
  <2>0. m \in Nat /\ n \in Nat /\ \A k \in S : k \in Nat OBVIOUS
  <2>1. upTo(m) \subseteq upTo(n) /\ n \in upTo(n) /\ n \notin upTo(m)
    <3>1. \A k \in S : k <= m => k <= n BY <1>2, <2>0
    <3>2. n <= n /\ ~(n <= m) BY <1>2, <2>0
    <3> QED BY <3>1, <3>2
  <2>2. upTo(m) # upTo(n) BY <2>1
  <2> HIDE DEF upTo
  <2>3. Cardinality(upTo(m)) # Cardinality(upTo(n)) BY <1>1, <2>1, <2>2, FS_Subset
  <2> QED BY <2>3 DEF Rank, upTo
<1>3. R \in Injection(S, 1..Cardinality(S))
  <2>1. R \in [S -> 1..Cardinality(S)] BY <1>1
  <2>2. \A m, n \in S : R[m] = R[n] => m = n
    <3> SUFFICES ASSUME NEW m \in S, NEW n \in S, m # n PROVE Rank(S, m) # Rank(S, n)
      OBVIOUS
    <3>1. m < n \/ n < m OBVIOUS
    <3> QED BY <1>2, <3>1
  <2> QED BY <2>1, <2>2 DEF Injection, IsInjective
<1>4. Cardinality(S) \in Nat BY FS_CardinalityType
<1>5. IsFiniteSet(1..Cardinality(S)) /\ Cardinality(1..Cardinality(S)) = Cardinality(S)
  BY <1>4, FS_Interval
<1>6. R \in Surjection(S, 1..Cardinality(S))
  BY <1>3, <1>5, FS_Injection
<1> QED BY <1>6 DEF Surjection

\* So the outbox in the order of its numbers holds nothing but its numbers.
LEMMA InOrderType ==
    ASSUME NEW S \in SUBSET Nat, IsFiniteSet(S)
    PROVE  InOrder(S) \in Seq(Int) /\ \A i \in 1..Len(InOrder(S)) : InOrder(S)[i] \in S
<1>1. Cardinality(S) \in Nat BY FS_CardinalityType
<1>2. ASSUME NEW i \in 1..Cardinality(S)
      PROVE  (CHOOSE m \in S : Cardinality({k \in S : k <= m}) = i) \in S
  <2>1. \E m \in S : Cardinality({k \in S : k <= m}) = i BY RankFacts DEF Rank
  <2> QED BY <2>1
<1>3. InOrder(S) \in [1..Cardinality(S) -> S] BY <1>2 DEF InOrder
<1>4. InOrder(S) \in [1..Cardinality(S) -> Int]
  <2>1. \A m \in S : m \in Int OBVIOUS
  <2> QED BY <1>3, <2>1
<1>5. InOrder(S) \in Seq(Int) /\ Len(InOrder(S)) = Cardinality(S)
  BY <1>1, <1>4, FunctionIsSeq
<1> QED BY <1>3, <1>5

-----------------------------------------------------------------------------
(* The tables                                                              *)

\* renew_job, complete_job and fail_job leave a row of the table jobs.
LEMMA JobFacts ==
    ASSUME NEW j \in Job, NEW s \in {"completed", "failed", "cancelled"}
    PROVE  Renewed(j) \in Job /\ Completed(j, s) \in Job /\ Failed(j) \in Job
<1>1. Renewed(j) \in Job BY DEF Renewed, Job
<1>2. \A x \in {"completed", "failed", "cancelled"} : Completed(j, x) \in Job
  BY DEF Completed, Job
<1>3. Failed(j) \in Job
  <2>1. CASE Retries(j) BY <2>1 DEF Failed, Job
  <2>2. CASE ~Retries(j) BY <2>2, <1>2 DEF Failed
  <2> QED BY <2>1, <2>2
<1> QED BY <1>1, <1>2, <1>3

\* _handle writes a status a task can have.
LEMMA NewStatusType ==
    ASSUME Tables, NEW r \in Report
    PROVE  NewStatus(r) \in [Tasks -> TaskStatus]
<1>1. \A st \in TaskStatus : [status EXCEPT ![r.task] = st] \in [Tasks -> TaskStatus]
  BY DEF Tables
<1>2. {"accepted", "running", "waiting_approval", "queued", "failed", "cancelled"}
        \subseteq TaskStatus
  BY DEF TaskStatus, ActiveStatus
<1>3. (IF Retries(job[r.task]) THEN "queued" ELSE "failed") \in TaskStatus
  BY <1>2
<1>4. r.kind \in ReportKinds BY DEF Report
<1>5. status \in [Tasks -> TaskStatus] BY DEF Tables
<1>6. CASE r.kind = "busy" BY <1>5, <1>6, Zenon DEF NewStatus
<1>7. CASE r.kind = "accepted" BY <1>1, <1>2, <1>7, Zenon DEF NewStatus
<1>8. CASE r.kind = "progress" BY <1>1, <1>2, <1>8, Zenon DEF NewStatus
<1>9. CASE r.kind = "completed" BY <1>1, <1>2, <1>9, Zenon DEF NewStatus
<1>10. CASE r.kind = "failed" BY <1>1, <1>3, <1>10, Zenon DEF NewStatus
<1>11. CASE r.kind = "cancelled" BY <1>1, <1>2, <1>11, Zenon DEF NewStatus
<1> QED BY <1>4, <1>6, <1>7, <1>8, <1>9, <1>10, <1>11 DEF ReportKinds

\* _handle writes a row the table jobs can have.
LEMMA NewJobType ==
    ASSUME Tables, NEW r \in Report
    PROVE  NewJob(r) \in [Tasks -> Job]
<1>1. \A j \in Job : [job EXCEPT ![r.task] = j] \in [Tasks -> Job]
  BY DEF Tables
<1>2. r.task \in Tasks /\ r.kind \in ReportKinds BY DEF Report
<1>3. job \in [Tasks -> Job] BY DEF Tables
<1>4. job[r.task] \in Job BY <1>2, <1>3
<1>5. /\ Renewed(job[r.task]) \in Job
      /\ Completed(job[r.task], "completed") \in Job
      /\ Completed(job[r.task], "cancelled") \in Job
      /\ Failed(job[r.task]) \in Job
  BY <1>4, JobFacts
<1>6. CASE r.kind = "busy"
  <2> DEFINE u == First(Active(status))
  <2>1. [job EXCEPT ![u] = Renewed(@)] \in [Tasks -> Job]
    <3> HIDE DEF u
    <3>1. u \in Tasks => Renewed(job[u]) \in Job BY <1>3, JobFacts
    <3> QED BY <1>3, <3>1
  <2> QED BY <1>3, <1>6, <2>1, Zenon DEF NewJob
<1>7. CASE r.kind = "accepted" BY <1>1, <1>5, <1>7, Zenon DEF NewJob
<1>8. CASE r.kind = "progress" BY <1>1, <1>5, <1>8, Zenon DEF NewJob
<1>9. CASE r.kind = "completed" BY <1>1, <1>5, <1>9, Zenon DEF NewJob
<1>10. CASE r.kind = "failed" BY <1>1, <1>5, <1>10, Zenon DEF NewJob
<1>11. CASE r.kind = "cancelled" BY <1>1, <1>5, <1>11, Zenon DEF NewJob
<1> QED BY <1>2, <1>6, <1>7, <1>8, <1>9, <1>10, <1>11 DEF ReportKinds

\* So does recover_expired_jobs.
LEMMA RecoveredTypes ==
    ASSUME Tables
    PROVE  RecoveredStatus \in [Tasks -> TaskStatus] /\ RecoveredJob \in [Tasks -> Job]
<1>1. RecoveredStatus \in [Tasks -> TaskStatus]
  BY DEF Tables, RecoveredStatus, TaskStatus
<1>2. \A j \in Job : [j EXCEPT !.status = "pending", !.expired = FALSE] \in Job
  BY DEF Job
<1>3. \A t \in Tasks : job[t] \in Job BY DEF Tables
<1> QED BY <1>1, <1>2, <1>3 DEF RecoveredJob

\* The runner does not touch the tables.
LEMMA RunnerLeavesTables ==
    RunnerStep \/ MainStep \/ Disconnect \/ Heartbeat \/ RunnerCrash
        => UNCHANGED <<status, cancelReq, job, cancelSent, received, torn, strayed, late>>
<1>1. Connect => UNCHANGED <<status, cancelReq, job, cancelSent, received, torn, strayed, late>>
  BY DEF Connect, history
<1>2. ReceiveAck \/ ReceiveOpened \/ ReceiveAssign \/ ReceiveCancel
        => UNCHANGED <<status, cancelReq, job, cancelSent, received, torn, strayed, late>>
  BY DEF ReceiveAck, ReceiveOpened, ReceiveAssign, ReceiveCancel, Takes
<1>3. Flush \/ Mark \/ Disconnect \/ RunnerCrash \/ Heartbeat
        => UNCHANGED <<status, cancelReq, job, cancelSent, received, torn, strayed, late>>
  BY DEF Flush, Mark, Disconnect, RunnerCrash, Heartbeat, server, history
<1>4. MainStep => UNCHANGED <<status, cancelReq, job, cancelSent, received, torn, strayed, late>>
  BY DEF MainStep, TakeTask, NextTask, CacheTask, RunProgress, RunEnds, TaskFinished, MainKeeps, server
<1> QED BY <1>1, <1>2, <1>3, <1>4 DEF RunnerStep

\* Records writes a Boolean history.
LEMMA StrayedType ==
    ASSUME Tables, NEW s, NEW m, Records(s, m)
    PROVE  strayed' \in BOOLEAN
BY DEF Records, Tables

\* Every step of a session leaves well-formed tables.
LEMMA SessionKeepsTables ==
    ASSUME ProtocolInv, NEW s \in Conns,
           SessionStep(s)
    PROVE  Tables'
<1> USE DEF ProtocolInv
<1>1. CASE OpenRegister(s) \/ AckReconnect(s)
  <2>1. UNCHANGED <<status, cancelReq, job, cancelSent, late>>
    BY <1>1 DEF OpenRegister, AckReconnect
  <2>2. strayed' \in BOOLEAN BY <1>1, StrayedType DEF OpenRegister, AckReconnect, Sends
  <2> QED BY <2>1, <2>2 DEF Tables
<1>2. CASE OpenReconnect(s)
  BY <1>2 DEF OpenReconnect, history, Tables
<1>3. ASSUME NEW n \in 1..Len(reports), Handle(s, n) PROVE Tables'
  <2>1. UNCHANGED <<cancelReq, cancelSent, late>> BY <1>3 DEF Handle
  <2>2. strayed' \in BOOLEAN BY <1>3, StrayedType DEF Handle, Sends
  <2>3. reports[n] \in Report BY DEF Ledger
  <2>4. NewStatus(reports[n]) \in [Tasks -> TaskStatus] BY <2>3, NewStatusType
  <2>5. NewJob(reports[n]) \in [Tasks -> Job] BY <2>3, NewJobType
  <2>6. status' \in [Tasks -> TaskStatus] /\ job' \in [Tasks -> Job]
    BY <1>3, <2>4, <2>5 DEF Handle, Tables
  <2> QED BY <2>1, <2>2, <2>6 DEF Tables
<1>4. CASE DispatchCancel(s)
  <2>1. UNCHANGED <<cancelReq, late>> BY <1>4 DEF DispatchCancel, Dispatches
  <2>2. strayed' \in BOOLEAN BY <1>4, StrayedType DEF DispatchCancel, Sends
  <2>3. status' \in [Tasks -> TaskStatus] /\ job' \in [Tasks -> Job]
    BY <1>4, RecoveredTypes DEF DispatchCancel
  <2>4. PICK t \in ToCancel(s) : cancelSent' = [cancelSent EXCEPT ![s] = @ \cup {t}]
    BY <1>4 DEF DispatchCancel
  <2>5. t \in Tasks BY DEF ToCancel, Active
  <2>6. cancelSent' \in [Conns -> SUBSET Tasks] BY <2>4, <2>5 DEF Tables
  <2> QED BY <2>1, <2>2, <2>3, <2>6 DEF Tables
<1>5. CASE DispatchAssign(s)
  <2>1. UNCHANGED <<cancelReq, late, cancelSent>> BY <1>5 DEF DispatchAssign, Dispatches
  <2>2. strayed' \in BOOLEAN BY <1>5, StrayedType DEF DispatchAssign, Sends
  <2>3. PICK t \in ToAssign :
            /\ status' = [RecoveredStatus EXCEPT ![t] = "assigned"]
            /\ job' = [RecoveredJob EXCEPT ![t].status = "leased", ![t].attempts = @ + 1]
    BY <1>5 DEF DispatchAssign
  <2>4. status' \in [Tasks -> TaskStatus]
    BY <2>3, RecoveredTypes DEF TaskStatus, ActiveStatus
  <2>5. t \in Tasks BY DEF ToAssign
  <2>6. \A j \in Job : [j EXCEPT !.status = "leased", !.attempts = @ + 1] \in Job
    <3>1. TAKE j \in Job
    <3>2. j.attempts + 1 \in Nat BY DEF Job
    <3>3. [j EXCEPT !.status = "leased"] \in Job /\ [j EXCEPT !.status = "leased"].attempts = j.attempts
      BY DEF Job
    <3>4. \A k \in Job, a \in Nat : [k EXCEPT !.attempts = a] \in Job BY DEF Job
    <3>5. [j EXCEPT !.status = "leased", !.attempts = @ + 1] =
             [[j EXCEPT !.status = "leased"] EXCEPT !.attempts = j.attempts + 1]
      BY DEF Job
    <3> QED BY <3>2, <3>3, <3>4, <3>5
  <2>7. job' = [RecoveredJob EXCEPT
                  ![t] = [RecoveredJob[t] EXCEPT !.status = "leased", !.attempts = @ + 1]]
    BY <2>3, <2>5, RecoveredTypes
  <2>8. job' \in [Tasks -> Job] BY <2>5, <2>6, <2>7, RecoveredTypes
  <2> QED BY <2>1, <2>2, <2>4, <2>8 DEF Tables
<1>6. CASE DispatchNothing(s)
  <2>1. UNCHANGED <<cancelReq, late, cancelSent, strayed>>
    BY <1>6 DEF DispatchNothing, Dispatches
  <2> QED BY <1>6, <2>1, RecoveredTypes DEF DispatchNothing, Tables
<1>7. CASE SessionEnds(s)
  BY <1>7 DEF SessionEnds, Closes, history, Tables
<1>8. ASSUME NEW n \in 1..Len(reports), HandleCut(s, n) PROVE Tables'
  <2>1. UNCHANGED <<cancelReq, strayed, late>> /\ cancelSent' = [cancelSent EXCEPT ![s] = {}]
    BY <1>8 DEF HandleCut, Closes
  <2>2. reports[n] \in Report BY DEF Ledger
  <2>3. NewStatus(reports[n]) \in [Tasks -> TaskStatus] BY <2>2, NewStatusType
  <2>4. NewJob(reports[n]) \in [Tasks -> Job] BY <2>2, NewJobType
  <2>5. HalfStatus(reports[n]) \in [Tasks -> TaskStatus]
    BY DEF HalfStatus, Tables, TaskStatus
  <2>6. HalfJob(reports[n]) \in [Tasks -> Job] BY <2>4 DEF HalfJob, Tables
  <2>7. status' \in [Tasks -> TaskStatus] /\ job' \in [Tasks -> Job]
    BY <1>8, <2>3, <2>4, <2>5, <2>6 DEF HandleCut, Tables
  <2> QED BY <2>1, <2>7 DEF Tables
<1> QED BY <1>1, <1>2, <1>3, <1>4, <1>5, <1>6, <1>7, <1>8
        DEF SessionStep, SendStep, EndStep, HandleStep

\* So do the user's requests and the passing of time.
LEMMA UserKeepsTables ==
    ASSUME ProtocolInv, NEW t \in Tasks,
           Start(t) \/ Cancel(t) \/ Approve(t) \/ Expire(t) \/ BackoffEnds(t)
    PROVE  Tables'
<1> USE DEF ProtocolInv
<1>0. UNCHANGED <<cancelSent, strayed>>
  BY DEF Start, Cancel, Approve, Expire, BackoffEnds, TableKeeps
<1>1. CASE Start(t)
  <2>1. [NoJob EXCEPT !.status = "pending"] \in Job BY DEF NoJob, Job
  <2> QED BY <1>0, <1>1, <2>1 DEF Start, Tables, TaskStatus
<1>2. CASE Cancel(t)
  <2>1. \A j \in Job : \A x \in {"none", "pending", "leased", "completed", "failed", "cancelled"} :
            [j EXCEPT !.status = x] \in Job
    BY DEF Job
  <2>2. job[t].status \in {"none", "pending", "leased", "completed", "failed", "cancelled"}
    BY DEF Job, Tables
  <2>3. job' \in [Tasks -> Job]
    <3> DEFINE x == IF job[t].status = "pending" THEN "cancelled" ELSE job[t].status
    <3>1. job' = job \/ job' = [job EXCEPT ![t] = [job[t] EXCEPT !.status = x]]
      BY <1>2 DEF Cancel, Tables
    <3>2. x \in {"none", "pending", "leased", "completed", "failed", "cancelled"} BY <2>2
    <3> HIDE DEF x
    <3>3. [job[t] EXCEPT !.status = x] \in Job BY <2>1, <3>2 DEF Tables
    <3> QED BY <3>1, <3>3 DEF Tables
  <2>4. status' \in [Tasks -> TaskStatus] BY <1>2 DEF Cancel, Tables, TaskStatus
  <2>5. cancelReq' \in [Tasks -> BOOLEAN] /\ late' = late BY <1>2 DEF Cancel, Tables
  <2> QED BY <1>0, <2>3, <2>4, <2>5 DEF Tables
<1>3. CASE Approve(t)
  BY <1>0, <1>3 DEF Approve, Tables, TaskStatus
<1>4. CASE Expire(t)
  <2>1. \A j \in Job : [j EXCEPT !.expired = TRUE] \in Job BY DEF Job
  <2>2. job' = [job EXCEPT ![t] = [job[t] EXCEPT !.expired = TRUE]]
    BY <1>4 DEF Expire, Tables
  <2>3. job' \in [Tasks -> Job] BY <2>1, <2>2 DEF Tables
  <2>4. late' \in BOOLEAN BY <1>4 DEF Expire, Tables
  <2> QED BY <1>0, <1>4, <2>3, <2>4 DEF Tables, Expire
<1>5. CASE BackoffEnds(t)
  <2>1. \A j \in Job : [j EXCEPT !.wait = FALSE] \in Job BY DEF Job
  <2>2. job' = [job EXCEPT ![t] = [job[t] EXCEPT !.wait = FALSE]]
    BY <1>5 DEF BackoffEnds, Tables
  <2>3. job' \in [Tasks -> Job] BY <2>1, <2>2 DEF Tables
  <2> QED BY <1>0, <1>5, <2>3 DEF Tables, BackoffEnds
<1> QED BY <1>1, <1>2, <1>3, <1>4, <1>5

\* What Next lets a session do.
LEMMA SessionSteps ==
    \A s \in Conns :
        (\/ OpenStep(s) \/ HandleStep(s) \/ Dispatch(s) \/ SessionEnds(s)
         \/ \E n \in 1..Len(reports) : HandleCut(s, n))
            <=> SendStep(s) \/ OpenReconnect(s) \/ DispatchNothing(s) \/ EndStep(s)
BY DEF OpenStep, Dispatch, SendStep, EndStep

\* The end of a session, in whatever way, leaves the log and the runner alone.
LEMMA EndFacts ==
    ASSUME NEW s \in Conns, EndStep(s)
    PROVE  /\ Closes(s)
           /\ sess[s] = "opening" \/ Open(s)
           /\ MayEnd(s)
           /\ UNCHANGED <<cancelReq, log, toRunner, outbox, runner, strayed, late, counts>>
BY DEF EndStep, SessionEnds, HandleCut, Open, history

-----------------------------------------------------------------------------
(* The runner's threads                                                    *)

\* The server, the user and time do not touch the runner.
LEMMA OthersLeaveRunner ==
    /\ \A s \in Conns : SessionStep(s)
           => UNCHANGED <<runner, outbox>>
    /\ \A t \in Tasks : Start(t) \/ Cancel(t) \/ Approve(t) \/ Expire(t) \/ BackoffEnds(t)
           => UNCHANGED <<received, log, sess, cancelSent, wires, outbox, runner, effects, torn,
                          strayed>>
<1>1. \A s \in Conns : SessionStep(s)
           => UNCHANGED <<runner, outbox>>
  BY DEF SessionStep, SendStep, EndStep, OpenRegister, OpenReconnect, AckReconnect, HandleStep,
         Handle, DispatchCancel, DispatchAssign, DispatchNothing, Dispatches, SessionEnds, HandleCut
<1>2. \A t \in Tasks : Start(t) \/ Cancel(t) \/ Approve(t) \/ Expire(t) \/ BackoffEnds(t)
           => UNCHANGED <<received, log, sess, cancelSent, wires, outbox, runner, effects, torn,
                          strayed>>
  BY DEF Start, Cancel, Approve, Expire, BackoffEnds, TableKeeps
<1> QED BY <1>1, <1>2

\* The message the runner takes is one of the log.
LEMMA TakenMessage ==
    ASSUME ProtocolInv, NEW n \in 1..Len(log)
    PROVE  /\ log[n] \in Message
           /\ log[n].kind = "ack" => log[n] \in Acks
           /\ log[n].kind = "assign" => log[n] \in Assigns
           /\ log[n].kind = "cancel" => log[n] \in Cancels
BY DEF ProtocolInv, Log, Message, Marked, Acks, Assigns, Cancels

\* Every step of the runner leaves well-formed threads.
LEMMA RunnerKeepsThreads ==
    ASSUME ProtocolInv, RunnerStep \/ MainStep \/ Disconnect \/ Heartbeat \/ RunnerCrash
    PROVE  Threads'
<1> USE DEF ProtocolInv
<1>1. CASE Connect \/ Disconnect \/ Flush \/ Mark \/ Heartbeat
  BY <1>1 DEF Connect, Disconnect, Flush, Mark, Heartbeat, runner, Threads
<1>2. CASE ReceiveAck \/ ReceiveOpened
  BY <1>2 DEF ReceiveAck, ReceiveOpened, Takes, Threads
<1>3. CASE ReceiveAssign
  <2>1. UNCHANGED <<active, cache, mpc>> BY <1>3 DEF ReceiveAssign, Takes
  <2>2. PICK n \in 1..Len(log) :
            /\ Takes(n, {"assign"})
            /\ \/ queue' = queue
               \/ queue' = Append(queue, [task |-> log[n].task, cancel |-> log[n].cancel])
    BY <1>3 DEF ReceiveAssign
  <2>3. log[n] \in Assigns BY <2>2, TakenMessage DEF Takes
  <2>4. [task |-> log[n].task, cancel |-> log[n].cancel] \in Assignment
    BY <2>3 DEF Assigns, Assignment
  <2>5. queue' \in Seq(Assignment) /\ (queue # <<>> => queue' # <<>>)
    BY <2>2, <2>4, AppendFacts DEF Threads
  <2> QED BY <2>1, <2>5 DEF Threads
<1>4. CASE ReceiveCancel
  <2>1. UNCHANGED <<active, queue, mpc>> BY <1>4 DEF ReceiveCancel, Takes
  <2>2. cache' \in [Tasks -> {"none", "run", "cancel"}] BY <1>4 DEF ReceiveCancel, Threads
  <2> QED BY <2>1, <2>2 DEF Threads
<1>5. CASE NextTask
  <2>0. queue # <<>> BY <1>5 DEF NextTask, Threads
  <2>1. Head(queue) \in Assignment /\ Tail(queue) \in Seq(Assignment)
    BY <2>0, TailFacts DEF Threads
  <2>2. active' \in Tasks BY <1>5, <2>1 DEF NextTask, Assignment
  <2>3. queue' \in Seq(Assignment) /\ cache' = cache BY <1>5, <2>1 DEF NextTask
  <2>4. mpc' \in {"cache", "cache_cancelled"} BY <1>5 DEF NextTask
  <2> QED BY <2>2, <2>3, <2>4 DEF Threads
<1>6. CASE CacheTask \/ TakeTask
  BY <1>6 DEF CacheTask, TakeTask, Threads
<1>7. CASE RunProgress \/ RunEnds
  BY <1>7 DEF RunProgress, RunEnds, Threads
<1>8. CASE TaskFinished
  BY <1>8 DEF TaskFinished, Threads
<1>9. CASE RunnerCrash
  BY <1>9 DEF RunnerCrash, Threads
<1> QED BY <1>1, <1>2, <1>3, <1>4, <1>5, <1>6, <1>7, <1>8, <1>9 DEF RunnerStep, MainStep

-----------------------------------------------------------------------------
(* The outbox and the server's record of it                                *)

\* A new report is in the outbox and has had no effect.
LEMMA ReportsKeepsLedger ==
    ASSUME Ledger, NEW kind \in ReportKinds, NEW t \in Tasks, Reports(kind, t),
           UNCHANGED <<received, torn>>
    PROVE  /\ Ledger'
           /\ Len(reports') = Len(reports) + 1
<1> DEFINE r == [kind |-> kind, task |-> t]
<1>1. r \in Report BY DEF Report
<1>2. /\ reports' = Append(reports, r)
      /\ pending' = pending \cup {Len(reports) + 1}
      /\ effects' = Append(effects, 0)
  BY DEF Reports
<1> HIDE DEF r
<1>3. /\ reports' \in Seq(Report) /\ Len(reports') = Len(reports) + 1
  BY <1>1, <1>2, AppendFacts DEF Ledger
<1>4. /\ effects' \in Seq(Nat)
      /\ Len(effects') = Len(effects) + 1
      /\ \A i \in 1..Len(effects) : effects'[i] = effects[i]
      /\ effects'[Len(effects) + 1] = 0
  BY <1>2, AppendFacts DEF Ledger
<1>5. Len(reports) \in Nat /\ Len(effects) = Len(reports) BY DEF Ledger
<1>6. received' \subseteq 1..Len(reports) /\ received' \subseteq 1..Len(reports')
  BY <1>3, <1>5 DEF Ledger
<1>7. pending' \subseteq 1..Len(reports')
  <2>1. \A n \in pending : n \in 1..Len(reports) BY DEF Ledger
  <2>2. \A n \in pending' : n \in pending \/ n = Len(reports) + 1 BY <1>2
  <2>3. \A n \in pending' : n \in 1..(Len(reports) + 1) BY <1>5, <2>1, <2>2
  <2> QED BY <1>3, <2>3
<1>8. ASSUME NEW n \in 1..Len(reports')
      PROVE  /\ n \in pending' \/ n \in received'
             /\ effects'[n] = IF n \in received' /\ n \notin torn' THEN 1 ELSE 0
  <2>1. CASE n \in 1..Len(reports) BY <2>1, <1>2, <1>4, <1>5 DEF Ledger
  <2>2. CASE n = Len(reports) + 1 BY <2>2, <1>2, <1>4, <1>5, <1>6
  <2> QED BY <1>3, <1>5, <2>1, <2>2
<1> QED BY <1>3, <1>4, <1>5, <1>6, <1>7, <1>8 DEF Ledger

\* The reports the runner makes are about tasks it has.
LEMMA ReportSteps ==
    ASSUME ProtocolInv, ReceiveAssign \/ Heartbeat \/ RunProgress \/ RunEnds
    PROVE  \E kind \in ReportKinds, t \in Tasks : Reports(kind, t)
<1> USE DEF ProtocolInv
<1>1. CASE ReceiveAssign
  <2>1. PICK n \in 1..Len(log) : Takes(n, {"assign"}) /\ Reports("accepted", log[n].task)
    BY <1>1 DEF ReceiveAssign
  <2>2. log[n].task \in Tasks BY <2>1, TakenMessage DEF Takes, Assigns
  <2> QED BY <2>1, <2>2 DEF ReportKinds
<1>2. CASE Heartbeat
  BY <1>2 DEF Heartbeat, Threads, ReportKinds
<1>3. CASE RunProgress
  BY <1>3 DEF RunProgress, Threads, ReportKinds
<1>4. CASE RunEnds
  BY <1>4 DEF RunEnds, Threads, ReportKinds
<1> QED BY <1>1, <1>2, <1>3, <1>4

\* Report n, and no other, is acted upon once more.
EffectOf(n) ==
    /\ effects' \in Seq(Nat) /\ Len(effects') = Len(effects)
    /\ effects'[n] = 1
    /\ \A i \in 1..Len(effects) : i # n => effects'[i] = effects[i]

LEMMA EffectFacts ==
    ASSUME Ledger, NEW n \in 1..Len(reports), n \notin received,
           effects' = [effects EXCEPT ![n] = @ + 1]
    PROVE  EffectOf(n)
<1>1. n \in 1..Len(effects) /\ effects[n] = 0 BY DEF Ledger
<1>2. effects' = [effects EXCEPT ![n] = 1] BY <1>1 DEF Ledger
<1> QED BY <1>1, <1>2, ExceptFacts DEF EffectOf, Ledger

\* Every step keeps the outbox and the server's record of it in agreement.
LEMMA NextKeepsLedger ==
    ASSUME ProtocolInv, Next
    PROVE  Ledger'
<1> USE DEF ProtocolInv
<1>1. CASE ReceiveAssign \/ Heartbeat \/ RunProgress \/ RunEnds
  <2>1. UNCHANGED <<received, torn>> BY <1>1, RunnerLeavesTables DEF RunnerStep, MainStep
  <2> QED BY <1>1, <2>1, ReportSteps, ReportsKeepsLedger
<1>2. CASE ReceiveAck
  <2>1. PICK n \in 1..Len(log) : Takes(n, {"ack"}) /\ pending' = pending \ {log[n].ack}
    BY <1>2 DEF ReceiveAck, Acknowledge
  <2>2. log[n].ack \in received BY <2>1 DEF Takes, Log
  <2>3. UNCHANGED <<received, torn, reports, effects>> BY <1>2 DEF ReceiveAck, Takes
  <2> QED BY <2>1, <2>2, <2>3 DEF Ledger
<1>3. CASE Connect \/ ReceiveOpened \/ ReceiveCancel \/ Flush \/ Mark \/ TakeTask \/ NextTask
           \/ CacheTask \/ TaskFinished \/ Disconnect \/ RunnerCrash
  <2>1. UNCHANGED <<received, torn, outbox, effects>>
    BY <1>3 DEF Connect, ReceiveOpened, ReceiveCancel, Takes, Flush, Mark, TakeTask, NextTask,
       CacheTask, TaskFinished, MainKeeps, Disconnect, RunnerCrash, server, outbox, history
  <2> QED BY <2>1 DEF outbox, Ledger
<1>4. ASSUME NEW s \in Conns, NEW n \in 1..Len(reports), Handle(s, n) PROVE Ledger'
  <2>1. UNCHANGED <<reports, pending, torn>> /\ received' = received \cup {n}
    BY <1>4 DEF Handle, outbox
  <2>2. CASE n \in received
    BY <1>4, <2>1, <2>2 DEF Handle, IsNew, Ledger
  <2>3. CASE n \notin received
    <3>1. effects' = [effects EXCEPT ![n] = effects[n] + 1]
      BY <1>4, <2>3 DEF Handle, IsNew
    <3>2. EffectOf(n) BY <2>3, <3>1, EffectFacts
    <3>3. n \notin torn' BY <2>1, <2>3 DEF Ledger
    <3> QED BY <2>1, <3>2, <3>3 DEF EffectOf, Ledger
  <2> QED BY <2>2, <2>3
<1>5. ASSUME NEW s \in Conns,
             OpenStep(s) \/ Dispatch(s) \/ SessionEnds(s)
      PROVE  Ledger'
  <2>1. UNCHANGED <<received, torn, outbox, effects>>
    BY <1>5 DEF OpenStep, OpenRegister, OpenReconnect, AckReconnect, Dispatch, DispatchCancel,
       DispatchAssign, DispatchNothing, Dispatches, SessionEnds, history
  <2> QED BY <2>1 DEF outbox, Ledger
<1>6. ASSUME NEW t \in Tasks,
             Start(t) \/ Cancel(t) \/ Approve(t) \/ Expire(t) \/ BackoffEnds(t)
      PROVE Ledger'
  BY <1>6, OthersLeaveRunner DEF outbox, Ledger
<1>7. ASSUME NEW s \in Conns, NEW n \in 1..Len(reports), HandleCut(s, n) PROVE Ledger'
  <2>1. UNCHANGED <<reports, pending>> /\ received' = received \cup {n} /\ n \notin received
    BY <1>7 DEF HandleCut, IsNew, outbox
  <2>2. n \notin torn BY <2>1 DEF Ledger
  <2>3. CASE torn' = torn \cup {n} /\ effects' = effects
    BY <2>1, <2>2, <2>3 DEF Ledger
  <2>4. CASE torn' = torn /\ effects' = [effects EXCEPT ![n] = @ + 1]
    <3>1. EffectOf(n) BY <2>1, <2>4, EffectFacts
    <3> QED BY <2>1, <2>2, <2>4, <3>1 DEF EffectOf, Ledger
  <2> QED BY <1>7, <2>3, <2>4 DEF HandleCut
<1> QED BY <1>1, <1>2, <1>3, <1>4, <1>5, <1>6, <1>7 DEF Next, RunnerStep, MainStep, HandleStep

-----------------------------------------------------------------------------
(* The server's log                                                        *)

\* What is known of a message that is recorded: it is one of the protocol, and an
\* acknowledgement is for a report that was recorded.
LEMMA RecordsKeepsLog ==
    ASSUME Log, NEW s, NEW m \in Message, Records(s, m),
           m.kind = "ack" => m.ack \in received',
           received \subseteq received', UNCHANGED <<last, taken>>
    PROVE  /\ Log'
           /\ Len(log') = Len(log) + 1
<1>1. log' = Append(log, m) BY DEF Records
<1>2. /\ log' \in Seq(Message) /\ Len(log') = Len(log) + 1
      /\ \A i \in 1..Len(log) : log'[i] = log[i]
      /\ log'[Len(log) + 1] = m
  BY <1>1, AppendFacts DEF Log
<1>3. Len(log) \in Nat BY DEF Log
<1>4. ASSUME NEW n \in 1..Len(log'), log'[n].kind = "ack"
      PROVE  log'[n].ack \in received'
  <2>1. CASE n \in 1..Len(log) BY <1>2, <1>4, <2>1 DEF Log
  <2>2. CASE n = Len(log) + 1 BY <1>2, <1>4, <2>2
  <2> QED BY <1>2, <1>3, <2>1, <2>2
<1>5. last' \in 0..Len(log') /\ taken' \in 0..Len(log') BY <1>2, <1>3 DEF Log
<1> QED BY <1>2, <1>4, <1>5 DEF Log

\* A message that is marked keeps its place.
LEMMA MarksKeepsLog ==
    ASSUME Log, NEW n \in 1..Len(log), Marks(n), received' = received,
           taken' \in {0, taken}
    PROVE  /\ Log'
           /\ Len(log') = Len(log)
           /\ log'[n] = Marked
           /\ \A i \in 1..Len(log) : i # n => log'[i] = log[i]
<1>1. Marked \in Message /\ Marked.kind # "ack" BY DEF Message, Marked
<1>2. log' = [log EXCEPT ![n] = Marked] /\ last' \in {n, last} BY DEF Marks
<1> HIDE DEF Marked
<1>3. /\ log' \in Seq(Message) /\ Len(log') = Len(log)
      /\ log'[n] = Marked
      /\ \A i \in 1..Len(log) : i # n => log'[i] = log[i]
  BY <1>1, <1>2, ExceptFacts DEF Log
<1>4. Len(log) \in Nat BY DEF Log
<1>5. \A i \in 1..Len(log') : log'[i].kind = "ack" => log'[i].ack \in received'
  BY <1>1, <1>3 DEF Log
<1>6. last' \in 0..Len(log') /\ taken' \in 0..Len(log') BY <1>2, <1>3, <1>4 DEF Log
<1> QED BY <1>3, <1>5, <1>6 DEF Log

\* What the sessions send are messages of the protocol.
LEMMA SessionRecords ==
    ASSUME ProtocolInv, NEW s \in Conns,
           SendStep(s)
    PROVE  \E m \in Message :
               /\ Records(s, m)
               /\ m.kind = "ack" => m.ack \in received'
               /\ received \subseteq received'
<1> USE DEF ProtocolInv
<1>1. CASE OpenRegister(s)
  <2> DEFINE m == [kind |-> "registered"]
  <2>1. m \in Message /\ m.kind # "ack" BY DEF Message
  <2>2. Records(s, m) /\ received' = received BY <1>1 DEF OpenRegister, Sends
  <2> HIDE DEF m
  <2> QED BY <2>1, <2>2
<1>2. CASE AckReconnect(s)
  <2> DEFINE m == [kind |-> "reconnected"]
  <2>1. m \in Message /\ m.kind # "ack" BY DEF Message
  <2>2. Records(s, m) /\ received' = received BY <1>2 DEF AckReconnect, Sends
  <2> HIDE DEF m
  <2> QED BY <2>1, <2>2
<1>3. ASSUME NEW n \in 1..Len(reports), Handle(s, n)
      PROVE  \E m \in Message :
               /\ Records(s, m)
               /\ m.kind = "ack" => m.ack \in received'
               /\ received \subseteq received'
  <2> DEFINE m == [kind |-> "ack", ack |-> n]
  <2>1. n \in Nat BY DEF Ledger
  <2>2. m \in Message /\ m.ack = n BY <2>1 DEF Message, Acks
  <2>3. Records(s, m) /\ received' = received \cup {n} BY <1>3 DEF Handle, Sends
  <2> HIDE DEF m
  <2> QED BY <2>2, <2>3
<1>4. CASE DispatchCancel(s)
  <2>1. PICK t \in ToCancel(s) : Records(s, [kind |-> "cancel", task |-> t])
    BY <1>4 DEF DispatchCancel, Sends
  <2> DEFINE m == [kind |-> "cancel", task |-> t]
  <2>2. t \in Tasks BY DEF ToCancel, Active
  <2>3. m \in Message /\ m.kind # "ack" BY <2>2 DEF Message, Cancels
  <2>4. Records(s, m) /\ received' = received BY <1>4, <2>1 DEF DispatchCancel, Dispatches
  <2> HIDE DEF m
  <2> QED BY <2>3, <2>4
<1>5. CASE DispatchAssign(s)
  <2>1. PICK t \in ToAssign :
            Records(s, [kind |-> "assign", task |-> t, cancel |-> cancelReq[t]])
    BY <1>5 DEF DispatchAssign, Sends
  <2> DEFINE m == [kind |-> "assign", task |-> t, cancel |-> cancelReq[t]]
  <2>2. t \in Tasks /\ cancelReq[t] \in BOOLEAN BY DEF ToAssign, Tables
  <2>3. m \in Message /\ m.kind # "ack" BY <2>2 DEF Message, Assigns
  <2>4. Records(s, m) /\ received' = received BY <1>5, <2>1 DEF DispatchAssign, Dispatches
  <2> HIDE DEF m
  <2> QED BY <2>3, <2>4
<1> QED BY <1>1, <1>2, <1>3, <1>4, <1>5 DEF SendStep, HandleStep

\* Every step keeps the log.
LEMMA NextKeepsLog ==
    ASSUME ProtocolInv, Next
    PROVE  Log'
<1> USE DEF ProtocolInv
<1>1. CASE ReceiveAck \/ ReceiveCancel
  <2>1. PICK n \in 1..Len(log) : Marks(n) BY <1>1 DEF ReceiveAck, ReceiveCancel
  <2>2. UNCHANGED <<received, taken>> BY <1>1 DEF ReceiveAck, ReceiveCancel, Takes
  <2> QED BY <2>1, <2>2, MarksKeepsLog
<1>2. CASE ReceiveOpened \/ ReceiveAssign
  <2>1. PICK n \in 1..Len(log) : taken' = n /\ UNCHANGED <<log, last>>
    BY <1>2 DEF ReceiveOpened, ReceiveAssign, Keeps
  <2>2. received' = received BY <1>2, RunnerLeavesTables DEF RunnerStep
  <2> QED BY <2>1, <2>2 DEF Log
<1>3. CASE Mark
  <2>1. taken \in 1..Len(log) BY <1>3 DEF Mark, Link, Log
  <2>2. Marks(taken) /\ received' = received /\ taken' = 0 BY <1>3 DEF Mark
  <2> QED BY <2>1, <2>2, MarksKeepsLog
<1>4. CASE Connect \/ Flush \/ MainStep \/ Disconnect \/ Heartbeat
  <2>1. UNCHANGED <<log, received, last, taken>>
    BY <1>4 DEF Connect, Flush, MainStep, TakeTask, NextTask, CacheTask, RunProgress, RunEnds,
       TaskFinished, MainKeeps, Disconnect, Heartbeat, server, runner
  <2> QED BY <2>1 DEF Log
<1>5. CASE RunnerCrash
  <2>1. UNCHANGED <<log, received, last>> /\ taken' = 0 BY <1>5 DEF RunnerCrash, server
  <2>2. Len(log) \in Nat BY DEF Log
  <2> QED BY <2>1, <2>2 DEF Log
<1>6. ASSUME NEW s \in Conns, SendStep(s) PROVE Log'
  <2>1. UNCHANGED <<last, taken>> BY <1>6, OthersLeaveRunner DEF SessionStep, runner
  <2> QED BY <1>6, <2>1, SessionRecords, RecordsKeepsLog
<1>7. ASSUME NEW s \in Conns, OpenReconnect(s) \/ DispatchNothing(s) \/ EndStep(s) PROVE Log'
  <2>1. UNCHANGED <<log, last, taken>>
    BY <1>7, EndFacts DEF OpenReconnect, DispatchNothing, Dispatches, runner
  <2>2. received \subseteq received'
    BY <1>7 DEF OpenReconnect, DispatchNothing, Dispatches, EndStep, SessionEnds, HandleCut
  <2> QED BY <2>1, <2>2 DEF Log
<1>8. ASSUME NEW t \in Tasks,
             Start(t) \/ Cancel(t) \/ Approve(t) \/ Expire(t) \/ BackoffEnds(t)
      PROVE Log'
  BY <1>8, OthersLeaveRunner DEF runner, Log
<1> QED BY <1>1, <1>2, <1>3, <1>4, <1>5, <1>6, <1>7, <1>8, SessionSteps DEF Next, RunnerStep

-----------------------------------------------------------------------------
(* The wires                                                               *)

\* Neither side forgets that it numbered a message.
LEMMA Growth ==
    ASSUME ProtocolInv, Next
    PROVE  /\ Len(reports) \in Nat /\ Len(reports') \in Nat /\ Len(reports) <= Len(reports')
           /\ Len(log) \in Nat /\ Len(log') \in Nat /\ Len(log) <= Len(log')
<1> USE DEF ProtocolInv
<1>1. Len(reports) \in Nat /\ Len(log) \in Nat BY DEF Ledger, Log
<1>2. Len(reports') \in Nat /\ Len(log') \in Nat BY NextKeepsLedger, NextKeepsLog DEF Ledger, Log
<1>3. Len(reports) <= Len(reports')
  <2>1. CASE ReceiveAssign \/ Heartbeat \/ RunProgress \/ RunEnds
    <3>1. UNCHANGED <<received, torn>> BY <2>1, RunnerLeavesTables DEF RunnerStep, MainStep
    <3> QED BY <1>1, <1>2, <2>1, <3>1, ReportSteps, ReportsKeepsLedger
  <2>2. CASE reports' = reports BY <1>1, <2>2
  <2>3. Connect \/ ReceiveAck \/ ReceiveOpened \/ ReceiveCancel \/ Flush \/ Mark \/ TakeTask
        \/ NextTask \/ CacheTask \/ TaskFinished \/ Disconnect \/ RunnerCrash => reports' = reports
    BY DEF Connect, ReceiveAck, ReceiveOpened, ReceiveCancel, Flush, Mark, TakeTask, NextTask,
       CacheTask, TaskFinished, Disconnect, RunnerCrash, outbox
  <2>4. \A s \in Conns : SessionStep(s)
           => reports' = reports
    BY OthersLeaveRunner DEF outbox
  <2>5. \A t \in Tasks : Start(t) \/ Cancel(t) \/ Approve(t) \/ Expire(t) \/ BackoffEnds(t)
           => reports' = reports
    BY OthersLeaveRunner DEF outbox
  <2> QED BY <2>1, <2>2, <2>3, <2>4, <2>5, SessionSteps
          DEF Next, RunnerStep, MainStep, SessionStep
<1>4. Len(log) <= Len(log')
  <2>1. CASE ReceiveAck \/ ReceiveCancel \/ Mark
    <3>1. PICK n \in 1..Len(log) : Marks(n)
      BY <2>1 DEF ReceiveAck, ReceiveCancel, Mark, Link, Log
    <3>2. received' = received /\ taken' \in {0, taken}
      BY <2>1 DEF ReceiveAck, ReceiveCancel, Mark, Takes
    <3> QED BY <1>1, <3>1, <3>2, MarksKeepsLog
  <2>2. ASSUME NEW s \in Conns, SendStep(s) PROVE Len(log) <= Len(log')
    <3>1. UNCHANGED <<last, taken>> BY <2>2, OthersLeaveRunner DEF SessionStep, runner
    <3> QED BY <1>1, <2>2, <3>1, SessionRecords, RecordsKeepsLog
  <2>3. Connect \/ ReceiveOpened \/ ReceiveAssign \/ Flush \/ MainStep \/ Disconnect
        \/ Heartbeat \/ RunnerCrash => log' = log
    BY DEF Connect, ReceiveOpened, ReceiveAssign, Keeps, Flush, MainStep, TakeTask, NextTask,
       CacheTask, RunProgress, RunEnds, TaskFinished, MainKeeps, Disconnect, Heartbeat, RunnerCrash, server
  <2>4. \A s \in Conns : OpenReconnect(s) \/ DispatchNothing(s) \/ EndStep(s) => log' = log
    BY EndFacts DEF OpenReconnect, DispatchNothing
  <2>5. \A t \in Tasks : Start(t) \/ Cancel(t) \/ Approve(t) \/ Expire(t) \/ BackoffEnds(t)
           => log' = log
    BY OthersLeaveRunner
  <2>6. log' = log => Len(log) <= Len(log') BY <1>1
  <2> QED BY <2>1, <2>2, <2>3, <2>4, <2>5, <2>6, SessionSteps DEF Next, RunnerStep
<1> QED BY <1>1, <1>2, <1>3, <1>4

\* What is put on the wire to a session, or left there, are numbers of reports.
LEMMA ServerWireUpdate ==
    ASSUME ProtocolInv, Next, NEW s \in Conns, NEW q \in Seq(Int),
           \A i \in 1..Len(q) : q[i] \in Reconnect..Len(reports'),
           toServer' = [toServer EXCEPT ![s] = q]
    PROVE  ServerWire'
<1> USE DEF ProtocolInv
<1>1. toServer' \in [Conns -> Seq(Int)] BY DEF ServerWire
<1>2. ASSUME NEW r \in Conns, NEW i \in 1..Len(toServer'[r])
      PROVE  toServer'[r][i] \in Reconnect..Len(reports')
  <2>1. CASE r = s BY <2>1 DEF ServerWire
  <2>2. CASE r # s
    <3>1. toServer'[r] = toServer[r] BY <2>2 DEF ServerWire
    <3>2. toServer[r][i] \in Reconnect..Len(reports) BY <3>1 DEF ServerWire
    <3> QED BY <3>1, <3>2, Growth DEF Reconnect
  <2> QED BY <2>1, <2>2
<1> QED BY <1>1, <1>2 DEF ServerWire

\* So are those the runner transmits, whether or not the session is closed.
LEMMA TransmittedKeepsWire ==
    ASSUME ProtocolInv, Next, conn \in Conns, NEW q \in Seq(Int),
           \A i \in 1..Len(q) : q[i] \in Reconnect..Len(reports'),
           toServer' = Transmitted(q)
    PROVE  toServer' = toServer \/ ServerWire'
<1> USE DEF ProtocolInv
<1> SUFFICES ASSUME sess[conn] # "closed" PROVE ServerWire'
  BY DEF Transmitted
<1> DEFINE p == toServer[conn]
<1>1. p \in Seq(Int) /\ \A i \in 1..Len(p) : p[i] \in Reconnect..Len(reports)
  BY DEF ServerWire
<1>2. toServer' = [toServer EXCEPT ![conn] = p \o q] BY DEF Transmitted
<1> HIDE DEF p
<1>3. /\ p \o q \in Seq(Int) /\ Len(p \o q) = Len(p) + Len(q)
      /\ \A i \in 1..Len(p) : (p \o q)[i] = p[i]
      /\ \A i \in 1..Len(q) : (p \o q)[Len(p) + i] = q[i]
      /\ Len(p) \in Nat /\ Len(q) \in Nat
  BY <1>1, ConcatFacts
<1>4. ASSUME NEW i \in 1..Len(p \o q) PROVE (p \o q)[i] \in Reconnect..Len(reports')
  <2>1. CASE i \in 1..Len(p) BY <1>1, <1>3, <2>1, Growth DEF Reconnect
  <2>2. CASE i \notin 1..Len(p)
    <3>1. i - Len(p) \in 1..Len(q) /\ i = Len(p) + (i - Len(p)) BY <1>3, <2>2
    <3>2. (p \o q)[i] = q[i - Len(p)] BY <1>3, <3>1
    <3> QED BY <3>1, <3>2
  <2> QED BY <2>1, <2>2
<1> QED BY <1>2, <1>3, <1>4, ServerWireUpdate

\* Every step leaves openings and numbers of reports on the wires to the sessions.
LEMMA NextKeepsServerWire ==
    ASSUME ProtocolInv, Next
    PROVE  ServerWire'
<1> USE DEF ProtocolInv
<1>0. CASE toServer' = toServer
  <2>1. toServer' \in [Conns -> Seq(Int)] BY <1>0 DEF ServerWire
  <2>2. \A r \in Conns : \A i \in 1..Len(toServer'[r]) :
            toServer'[r][i] \in Reconnect..Len(reports')
    BY <1>0, Growth DEF ServerWire, Reconnect
  <2> QED BY <2>1, <2>2 DEF ServerWire
<1>1. CASE Connect
  <2> DEFINE s == counts.conns + 1
             q == <<IF registered THEN Reconnect ELSE Register>>
  <2>1. counts.conns \in 0..MaxConns /\ counts.conns < MaxConns /\ MaxConns \in Nat
    BY <1>1, ProtocolAssumption DEF Connect, Link, Counters
  <2>2. s \in Conns BY <2>1 DEF Conns
  <2>3. q \in Seq(Int) /\ Len(q) = 1 /\ q[1] \in {Reconnect, Register}
    BY DEF Reconnect, Register
  <2>4. toServer' = [toServer EXCEPT ![s] = q] BY <1>1 DEF Connect
  <2> HIDE DEF s, q
  <2>5. \A i \in 1..Len(q) : q[i] \in Reconnect..Len(reports')
    BY <2>3, Growth DEF Reconnect, Register
  <2> QED BY <2>2, <2>3, <2>4, <2>5, ServerWireUpdate
<1>2. CASE ReceiveAssign \/ Heartbeat \/ RunProgress \/ RunEnds
  <2>1. PICK kind \in ReportKinds, t \in Tasks : Reports(kind, t) BY <1>2, ReportSteps
  <2>2. UNCHANGED <<received, torn>> BY <1>2, RunnerLeavesTables DEF RunnerStep, MainStep
  <2>3. Len(reports') = Len(reports) + 1 BY <2>1, <2>2, ReportsKeepsLedger
  <2>4. CASE ready
    <3> DEFINE q == <<Len(reports) + 1>>
    <3>1. conn \in Conns BY <2>4 DEF Link, Counters, Conns, NoConn
    <3>2. q \in Seq(Int) /\ Len(q) = 1 /\ q[1] = Len(reports) + 1 BY Growth
    <3>3. toServer' = Transmitted(q) BY <2>1, <2>4 DEF Reports
    <3> HIDE DEF q
    <3>4. \A i \in 1..Len(q) : q[i] \in Reconnect..Len(reports')
      BY <2>3, <3>2, Growth DEF Reconnect
    <3> QED BY <1>0, <3>1, <3>2, <3>3, <3>4, TransmittedKeepsWire
  <2>5. CASE ~ready BY <1>0, <2>1, <2>5 DEF Reports
  <2> QED BY <2>4, <2>5
<1>3. CASE Flush
  <2>1. toServer' = Transmitted(InOrder(pending)) BY <1>3 DEF Flush
  <2>2. conn \in Conns BY <1>3 DEF Flush, Link, Counters, Conns, NoConn
  <2>3. pending \subseteq Nat /\ pending \subseteq 1..Len(reports) BY Growth DEF Ledger
  <2>4. IsFiniteSet(pending)
    <3>1. IsFiniteSet(1..Len(reports)) BY Growth, FS_Interval
    <3> QED BY <2>3, <3>1, FS_Subset
  <2> DEFINE q == InOrder(pending)
  <2>5. q \in Seq(Int) /\ \A i \in 1..Len(q) : q[i] \in pending
    BY <2>3, <2>4, InOrderType
  <2> HIDE DEF q
  <2>6. \A n \in pending : n \in Reconnect..Len(reports')
    BY <2>3, Growth DEF Reconnect
  <2>7. \A i \in 1..Len(q) : q[i] \in Reconnect..Len(reports') BY <2>5, <2>6
  <2> QED BY <1>0, <2>1, <2>2, <2>5, <2>7, TransmittedKeepsWire DEF q
<1>4. ASSUME NEW s \in Conns, OpenRegister(s) \/ OpenReconnect(s) \/ HandleStep(s)
      PROVE  ServerWire'
  <2>1. toServer[s] # <<>> /\ toServer' = [toServer EXCEPT ![s] = Tail(toServer[s])]
    BY <1>4 DEF OpenRegister, OpenReconnect, HandleStep, Handle, Arrives
  <2> DEFINE p == toServer[s]
             q == Tail(p)
  <2>2. p \in Seq(Int) /\ \A i \in 1..Len(p) : p[i] \in Reconnect..Len(reports)
    BY DEF ServerWire
  <2> HIDE DEF p
  <2>3. q \in Seq(Int) /\ Len(q) = Len(p) - 1 /\ Len(p) \in Nat
        /\ \A i \in 1..Len(q) : q[i] = p[i + 1]
    BY <2>1, <2>2, TailFacts DEF p
  <2>4. ASSUME NEW i \in 1..Len(q) PROVE q[i] \in Reconnect..Len(reports')
    <3> HIDE DEF q
    <3>1. i + 1 \in 1..Len(p) /\ q[i] = p[i + 1] BY <2>3
    <3>2. q[i] \in Reconnect..Len(reports) BY <2>2, <3>1
    <3> QED BY <3>2, Growth DEF Reconnect
  <2> QED BY <2>1, <2>3, <2>4, ServerWireUpdate DEF p
<1>5. ASSUME NEW s \in Conns, EndStep(s) PROVE ServerWire'
  <2>1. toServer' = [toServer EXCEPT ![s] = <<>>] BY <1>5, EndFacts DEF Closes
  <2> DEFINE q == <<>>
  <2>2. q \in Seq(Int) /\ Len(q) = 0 OBVIOUS
  <2>3. toServer' = [toServer EXCEPT ![s] = q] BY <2>1
  <2> HIDE DEF q
  <2>4. \A i \in 1..Len(q) : q[i] \in Reconnect..Len(reports') BY <2>2
  <2> QED BY <2>2, <2>3, <2>4, ServerWireUpdate
<1>6. ReceiveAck \/ ReceiveOpened \/ ReceiveCancel \/ Mark \/ TakeTask \/ NextTask \/ CacheTask
      \/ TaskFinished \/ Disconnect \/ RunnerCrash => toServer' = toServer
  BY DEF ReceiveAck, ReceiveOpened, ReceiveCancel, Mark, TakeTask, NextTask, CacheTask, TaskFinished,
     Disconnect, RunnerCrash, wires
<1>7. \A s \in Conns : Dispatch(s) \/ AckReconnect(s) => toServer' = toServer
  BY DEF Dispatch, DispatchCancel, DispatchAssign, DispatchNothing, Dispatches, AckReconnect
<1>8. \A t \in Tasks : Start(t) \/ Cancel(t) \/ Approve(t) \/ Expire(t) \/ BackoffEnds(t)
           => toServer' = toServer
  BY OthersLeaveRunner DEF wires
<1> QED BY <1>0, <1>1, <1>2, <1>3, <1>4, <1>5, <1>6, <1>7, <1>8
        DEF Next, RunnerStep, MainStep, OpenStep, EndStep

\* Such a step sends the last message of the log.
LEMMA SessionSends ==
    ASSUME NEW s \in Conns, SendStep(s)
    PROVE  \E m : Sends(s, m)
BY DEF SendStep, OpenRegister, AckReconnect, HandleStep, Handle, DispatchCancel, DispatchAssign

\* A Reconnect is answered with all that is not marked.
LEMMA ReplayedFacts ==
    ASSUME ProtocolInv
    PROVE  /\ Unmarked \in Seq(Int)
           /\ Len(Unmarked) = Len(log) - last
           /\ \A i \in 1..Len(Unmarked) : Unmarked[i] = last + i
<1> USE DEF ProtocolInv
<1> DEFINE n == Len(log) - last
<1>1. Len(log) \in Nat /\ last \in 0..Len(log) BY DEF Log
<1>2. n \in Nat BY <1>1
<1>3. Unmarked \in [1..n -> Int] /\ \A i \in 1..n : Unmarked[i] = last + i
  BY <1>1 DEF Unmarked
<1> HIDE DEF n
<1>4. Unmarked \in Seq(Int) /\ Len(Unmarked) = n BY <1>2, <1>3, FunctionIsSeq
<1> QED BY <1>3, <1>4 DEF n

\* What a session puts on the wire are numbers of the log.
LEMMA TransmitsKeepsWire ==
    ASSUME ProtocolInv, Next, NEW s \in Conns, NEW q \in Seq(Int), Transmits(s, q),
           \A i \in 1..Len(q) : q[i] \in 1..Len(log')
    PROVE  RunnerWire'
<1> USE DEF ProtocolInv
<1>1. \A i \in 1..Len(toRunner) : toRunner[i] \in 1..Len(log')
  BY Growth DEF RunnerWire
<1>2. CASE conn = s
  <2>1. toRunner' = toRunner \o q BY <1>2 DEF Transmits
  <2>2. toRunner \in Seq(Int) BY DEF RunnerWire
  <2>3. /\ toRunner' \in Seq(Int)
        /\ Len(toRunner') = Len(toRunner) + Len(q)
        /\ \A i \in 1..Len(toRunner) : toRunner'[i] = toRunner[i]
        /\ \A i \in 1..Len(q) : toRunner'[Len(toRunner) + i] = q[i]
        /\ Len(toRunner) \in Nat /\ Len(q) \in Nat
    BY <2>1, <2>2, ConcatFacts
  <2>4. ASSUME NEW i \in 1..Len(toRunner') PROVE toRunner'[i] \in 1..Len(log')
    <3>1. CASE i \in 1..Len(toRunner) BY <1>1, <2>3, <3>1
    <3>2. CASE i \notin 1..Len(toRunner)
      <4>1. i - Len(toRunner) \in 1..Len(q) /\ i = Len(toRunner) + (i - Len(toRunner))
        BY <2>3, <3>2
      <4>2. toRunner'[i] = q[i - Len(toRunner)] BY <2>3, <4>1
      <4> QED BY <4>1, <4>2
    <3> QED BY <3>1, <3>2
  <2> QED BY <2>3, <2>4 DEF RunnerWire
<1>3. CASE conn # s
  BY <1>1, <1>3 DEF Transmits, RunnerWire
<1> QED BY <1>2, <1>3

\* Every step leaves numbers of the log on the wire to the runner.
LEMMA NextKeepsRunnerWire ==
    ASSUME ProtocolInv, Next
    PROVE  RunnerWire'
<1> USE DEF ProtocolInv
<1>0. CASE toRunner' = toRunner
  BY <1>0, Growth DEF RunnerWire
<1>1. CASE Disconnect \/ RunnerCrash
  <2>1. toRunner' = <<>> BY <1>1 DEF Disconnect, RunnerCrash
  <2> QED BY <2>1 DEF RunnerWire
<1>2. CASE ReceiveAck \/ ReceiveOpened \/ ReceiveAssign \/ ReceiveCancel
  <2>1. toRunner # <<>> /\ toRunner' = Tail(toRunner)
    BY <1>2 DEF ReceiveAck, ReceiveOpened, ReceiveAssign, ReceiveCancel, Takes
  <2>2. toRunner \in Seq(Int) BY DEF RunnerWire
  <2>3. /\ toRunner' \in Seq(Int) /\ Len(toRunner') = Len(toRunner) - 1
        /\ Len(toRunner) \in Nat
        /\ \A i \in 1..Len(toRunner') : toRunner'[i] = toRunner[i + 1]
    BY <2>1, <2>2, TailFacts
  <2>4. ASSUME NEW i \in 1..Len(toRunner') PROVE toRunner'[i] \in 1..Len(log')
    <3>1. i + 1 \in 1..Len(toRunner) /\ toRunner'[i] = toRunner[i + 1] BY <2>3
    <3>2. toRunner[i + 1] \in 1..Len(log) BY <3>1 DEF RunnerWire
    <3> QED BY <3>1, <3>2, Growth
  <2> QED BY <2>3, <2>4 DEF RunnerWire
<1>3. ASSUME NEW s \in Conns, SendStep(s) PROVE RunnerWire'
  <2>1. PICK m : Sends(s, m) BY <1>3, SessionSends
  <2> DEFINE q == <<Len(log) + 1>>
  <2>2. Transmits(s, q) /\ log' = Append(log, m) BY <2>1 DEF Sends, Records
  <2>3. q \in Seq(Int) /\ Len(q) = 1 /\ q[1] = Len(log) + 1 BY Growth
  <2>4. Len(log') = Len(log) + 1 BY <2>2 DEF Log
  <2> HIDE DEF q
  <2>5. \A i \in 1..Len(q) : q[i] \in 1..Len(log') BY <2>3, <2>4, Growth
  <2> QED BY <2>2, <2>3, <2>5, TransmitsKeepsWire
<1>4. ASSUME NEW s \in Conns, OpenReconnect(s) PROVE RunnerWire'
  <2>1. Transmits(s, Unmarked) /\ log' = log BY <1>4 DEF OpenReconnect
  <2>2. last \in 0..Len(log) /\ Len(log) \in Nat BY DEF Log
  <2>3. \A i \in 1..Len(Unmarked) : Unmarked[i] \in 1..Len(log')
    BY <2>1, <2>2, ReplayedFacts
  <2> QED BY <2>1, <2>3, ReplayedFacts, TransmitsKeepsWire
<1>5. Connect \/ Flush \/ Mark \/ MainStep \/ Heartbeat => toRunner' = toRunner
  BY DEF Connect, Flush, Mark, MainStep, TakeTask, NextTask, CacheTask, RunProgress, RunEnds,
     TaskFinished, MainKeeps, Heartbeat, wires
<1>6. \A s \in Conns : DispatchNothing(s) \/ EndStep(s) => toRunner' = toRunner
  BY EndFacts DEF DispatchNothing
<1>7. \A t \in Tasks : Start(t) \/ Cancel(t) \/ Approve(t) \/ Expire(t) \/ BackoffEnds(t)
           => toRunner' = toRunner
  BY OthersLeaveRunner DEF wires
<1> QED BY <1>0, <1>1, <1>2, <1>3, <1>4, <1>5, <1>6, <1>7, SessionSteps DEF Next, RunnerStep

-----------------------------------------------------------------------------
(* The connection and its session                                          *)

\* A connection that is not open yet is counted by Fresh.
LEMMA FreshFacts ==
    ASSUME ProtocolInv
    PROVE  /\ IsFiniteSet(Fresh) /\ Cardinality(Fresh) \in Nat
           /\ \A s \in Fresh : /\ IsFiniteSet(Fresh \ {s})
                              /\ Cardinality(Fresh \ {s}) = Cardinality(Fresh) - 1
                              /\ Cardinality(Fresh) > 0
<1>1. IsFiniteSet(Conns) BY FS_Interval, ProtocolAssumption DEF Conns
<1>2. IsFiniteSet(Fresh) BY <1>1, FS_Subset DEF Fresh
<1>3. Cardinality(Fresh) \in Nat BY <1>2, FS_CardinalityType
<1>4. ASSUME NEW s \in Fresh
      PROVE  /\ IsFiniteSet(Fresh \ {s})
             /\ Cardinality(Fresh \ {s}) = Cardinality(Fresh) - 1
             /\ Cardinality(Fresh) > 0
  <2>1. IsFiniteSet(Fresh \ {s}) /\ Cardinality(Fresh \ {s}) = Cardinality(Fresh) - 1
    BY <1>2, FS_RemoveElement
  <2>2. Cardinality(Fresh \ {s}) \in Nat BY <2>1, FS_CardinalityType
  <2> QED BY <1>3, <2>1, <2>2
<1> QED BY <1>2, <1>3, <1>4

\* The connections and the registrations are counted, each by one action.
LEMMA CountsFacts ==
    ASSUME ProtocolInv, Next
    PROVE  /\ counts' \in Counters
           /\ Connect => counts'.conns = counts.conns + 1 /\ counts'.registers = counts.registers
           /\ \A s \in Conns : OpenRegister(s) =>
                  counts'.conns = counts.conns /\ counts'.registers = counts.registers + 1
           /\ \/ Connect
              \/ \E s \in Conns : OpenRegister(s)
              \/ counts'.conns = counts.conns /\ counts'.registers = counts.registers
<1> USE DEF ProtocolInv
<1>0. counts \in Counters BY DEF Link
<1>1. CASE Connect
  <2>1. /\ counts' \in Counters
        /\ counts'.conns = counts.conns + 1 /\ counts'.registers = counts.registers
    BY <1>0, <1>1, ProtocolAssumption DEF Connect, Counts, Counters
  <2>2. \A s \in Conns : ~OpenRegister(s)
    <3>1. conn = NoConn /\ conn' = counts.conns + 1 BY <1>1 DEF Connect
    <3>2. \A s \in Conns : OpenRegister(s) => conn' = conn BY DEF OpenRegister, runner
    <3> QED BY <1>0, <3>1, <3>2 DEF NoConn, Counters
  <2> QED BY <1>1, <2>1, <2>2
<1>2. ASSUME NEW s \in Conns, OpenRegister(s)
      PROVE  /\ counts' \in Counters
             /\ counts'.conns = counts.conns /\ counts'.registers = counts.registers + 1
  <2>1. s \in Fresh BY <1>2 DEF OpenRegister, Fresh
  <2>2. counts.registers \in Nat BY <1>0 DEF Counters
  <2>3. counts.registers + 1 <= MaxConns
    <3>1. Cardinality(Fresh) \in Nat /\ Cardinality(Fresh) > 0 BY <2>1, FreshFacts
    <3>2. counts.registers + Cardinality(Fresh) <= MaxConns /\ MaxConns \in Nat
      BY ProtocolAssumption DEF Opening
    <3> QED BY <2>2, <3>1, <3>2
  <2> QED BY <1>0, <1>2, <2>2, <2>3, ProtocolAssumption DEF OpenRegister, Counts, Counters
<1>3. ASSUME Heartbeat \/ RunnerCrash
      PROVE  /\ counts' \in Counters
             /\ counts'.conns = counts.conns /\ counts'.registers = counts.registers
  <2>1. CASE Heartbeat
    <3>1. counts.beats < MaxBeats /\ counts' = [counts EXCEPT !["beats"] = @ + 1]
      BY <2>1 DEF Heartbeat, Counts
    <3> QED BY <1>0, <3>1, ProtocolAssumption DEF Counters
  <2>2. CASE RunnerCrash
    <3>1. counts.crashes < MaxCrashes /\ counts' = [counts EXCEPT !["crashes"] = @ + 1]
      BY <2>2 DEF RunnerCrash, Counts
    <3> QED BY <1>0, <3>1, ProtocolAssumption DEF Counters
  <2> QED BY <1>3, <2>1, <2>2
<1>4. ASSUME NEW t \in Tasks, Start(t) \/ Cancel(t) \/ Expire(t)
      PROVE  /\ counts' \in Counters
             /\ counts'.conns = counts.conns /\ counts'.registers = counts.registers
  <2>1. CASE Start(t) BY <1>0, <2>1, ProtocolAssumption DEF Start, Counts, Counters
  <2>2. CASE Cancel(t) BY <1>0, <2>2, ProtocolAssumption DEF Cancel, Counts, Counters
  <2>3. CASE Expire(t) BY <1>0, <2>3, ProtocolAssumption DEF Expire, Counts, Counters
  <2> QED BY <1>4, <2>1, <2>2, <2>3
<1>5. ReceiveAck \/ ReceiveOpened \/ ReceiveAssign \/ ReceiveCancel \/ Flush \/ Mark
      \/ MainStep \/ Disconnect => counts' = counts
  BY DEF ReceiveAck, ReceiveOpened, ReceiveAssign, ReceiveCancel, Takes, Flush, Mark, MainStep,
     TakeTask, NextTask, CacheTask, RunProgress, RunEnds, TaskFinished, MainKeeps, Disconnect
<1>6. \A s \in Conns :
          OpenReconnect(s) \/ AckReconnect(s) \/ HandleStep(s) \/ Dispatch(s) \/ EndStep(s)
              => counts' = counts
  BY EndFacts DEF OpenReconnect, AckReconnect, HandleStep, Handle, Dispatch, DispatchCancel,
     DispatchAssign, DispatchNothing, Dispatches
<1>7. \A t \in Tasks : Approve(t) \/ BackoffEnds(t) => counts' = counts
  BY DEF Approve, BackoffEnds
<1>8. \A s \in Conns : Connect => ~OpenRegister(s)
  <2>1. Connect => conn = NoConn /\ conn' = counts.conns + 1 BY DEF Connect
  <2>2. \A s \in Conns : OpenRegister(s) => conn' = conn BY DEF OpenRegister, runner
  <2> QED BY <1>0, <2>1, <2>2 DEF NoConn, Counters
<1> QED BY <1>0, <1>1, <1>2, <1>3, <1>4, <1>5, <1>6, <1>7, <1>8
        DEF Next, RunnerStep, OpenStep, EndStep

\* The connection, its session and the wire to the runner.
LinkVars == <<sess, conn, registered, ready, wpc, taken, toRunner>>

\* The main thread, the heartbeat, the user and time leave them alone.
LEMMA LinkFrame ==
    /\ MainStep \/ Heartbeat => UNCHANGED LinkVars
    /\ \A t \in Tasks : Start(t) \/ Cancel(t) \/ Approve(t) \/ Expire(t) \/ BackoffEnds(t)
           => UNCHANGED LinkVars
<1>1. MainStep => UNCHANGED LinkVars
  BY DEF MainStep, TakeTask, NextTask, CacheTask, RunProgress, RunEnds, TaskFinished, MainKeeps, server,
     LinkVars
<1>2. Heartbeat => UNCHANGED LinkVars
  BY DEF Heartbeat, server, runner, LinkVars
<1>3. \A t \in Tasks : Start(t) \/ Cancel(t) \/ Approve(t) \/ Expire(t) \/ BackoffEnds(t)
           => UNCHANGED LinkVars
  BY OthersLeaveRunner DEF runner, wires, LinkVars
<1> QED BY <1>1, <1>2, <1>3

\* Every step keeps the runner's connection the newest one.
LEMMA NextKeepsLink ==
    ASSUME ProtocolInv, Next
    PROVE  Link'
<1> USE DEF ProtocolInv
<1>0. counts \in Counters /\ counts' \in Counters BY CountsFacts DEF Link
<1>a. /\ counts.conns \in 0..MaxConns /\ counts'.conns \in 0..MaxConns
      /\ MaxConns \in Nat /\ Conns = 1..MaxConns /\ NoConn = 0
  BY <1>0, ProtocolAssumption DEF Counters, Conns, NoConn
<1>1. CASE MainStep \/ Heartbeat
           \/ \E t \in Tasks : Start(t) \/ Cancel(t) \/ Approve(t) \/ Expire(t) \/ BackoffEnds(t)
  <2>1. UNCHANGED LinkVars BY <1>1, LinkFrame
  <2>2. counts'.conns = counts.conns
    <3>1. conn' = conn /\ sess' = sess BY <2>1 DEF LinkVars
    <3>2. ~Connect BY <1>a, <3>1 DEF Connect
    <3>3. \A s \in Conns : ~OpenRegister(s) BY <3>1 DEF OpenRegister, Link
    <3> QED BY <3>2, <3>3, CountsFacts
  <2> QED BY <1>0, <2>1, <2>2 DEF Link, LinkVars
<1>2. CASE Connect
  <2> DEFINE s == counts.conns + 1
  <2>1. s \in Conns /\ s # 0 /\ conn' = s /\ counts'.conns = s
    BY <1>a, <1>2, CountsFacts DEF Connect
  <2>2. sess' = [sess EXCEPT ![s] = "opening"] BY <1>2 DEF Connect
  <2>3. UNCHANGED <<registered, ready, wpc, taken, toRunner>> BY <1>2 DEF Connect
  <2>4. sess' \in [Conns -> {"none", "opening", "replayed", "dispatch", "receive", "closed"}]
    BY <2>2 DEF Link
  <2>5. \A r \in Conns : sess'[r] = "none" <=> r > counts'.conns
    <3> HIDE DEF s
    <3>1. TAKE r \in Conns
    <3>2. CASE r = s BY <1>a, <2>1, <2>2, <3>2 DEF Link
    <3>3. CASE r # s
      <4>1. sess'[r] = sess[r] BY <2>2, <3>3 DEF Link
      <4>2. r > counts.conns <=> r > s BY <1>a, <3>3 DEF s
      <4> QED BY <2>1, <4>1, <4>2 DEF Link
    <3> QED BY <3>2, <3>3
  <2>6. ~ready /\ wpc = "receive" /\ toRunner = <<>> BY <1>2 DEF Connect, Link
  <2> QED BY <1>0, <1>a, <2>1, <2>3, <2>4, <2>5, <2>6 DEF Link
<1>3. CASE Disconnect \/ RunnerCrash
  <2>1. /\ conn' = NoConn /\ ready' = FALSE /\ wpc' = "receive" /\ taken' = 0 /\ toRunner' = <<>>
        /\ UNCHANGED <<sess, registered>>
    BY <1>3 DEF Disconnect, RunnerCrash, server, Link
  <2>2. counts'.conns = counts.conns
    BY <1>0, <1>3 DEF Disconnect, RunnerCrash, Counts, Counters
  <2> QED BY <1>0, <2>1, <2>2 DEF Link
<1>4. CASE ReceiveAck \/ ReceiveCancel \/ ReceiveOpened \/ ReceiveAssign \/ Flush \/ Mark
  <2>1. UNCHANGED <<sess, conn, counts>>
    BY <1>4 DEF ReceiveAck, ReceiveCancel, ReceiveOpened, ReceiveAssign, Takes, Flush, Mark, server
  <2>2. conn # NoConn /\ sess[conn] # "opening"
    BY <1>4 DEF ReceiveAck, ReceiveCancel, ReceiveOpened, ReceiveAssign, Takes, Flush, Mark, Link
  <2>3. conn' # NoConn /\ sess'[conn'] # "opening" BY <2>1, <2>2
  <2>4. /\ wpc' \in {"receive", "flush", "mark"}
        /\ taken' = 0 <=> wpc' = "receive"
    <3>1. CASE ReceiveAck \/ ReceiveCancel BY <3>1 DEF ReceiveAck, ReceiveCancel, Link
    <3>2. CASE ReceiveOpened
      <4>1. wpc' = "flush" /\ \E n \in 1..Len(log) : taken' = n
        BY <3>2 DEF ReceiveOpened, Keeps
      <4> QED BY <4>1
    <3>3. CASE ReceiveAssign
      <4>1. wpc' = "mark" /\ \E n \in 1..Len(log) : taken' = n
        BY <3>3 DEF ReceiveAssign, Keeps
      <4> QED BY <4>1
    <3>4. CASE Flush BY <3>4 DEF Flush, Link
    <3>5. CASE Mark BY <3>5 DEF Mark
    <3> QED BY <1>4, <3>1, <3>2, <3>3, <3>4, <3>5
  <2>5. registered' \in BOOLEAN
    BY <1>4 DEF ReceiveAck, ReceiveCancel, ReceiveOpened, ReceiveAssign, Flush, Mark, Link
  <2>6. ready' \in BOOLEAN
    BY <1>4 DEF ReceiveAck, ReceiveCancel, ReceiveOpened, ReceiveAssign, Flush, Mark, Link
  <2> QED BY <1>0, <2>1, <2>3, <2>4, <2>5, <2>6 DEF Link
<1>5. ASSUME NEW s \in Conns, SessionStep(s) PROVE Link'
  <2>1. UNCHANGED <<conn, registered, ready, wpc, taken>> BY <1>5, OthersLeaveRunner DEF runner
  <2>2. PICK x \in {"replayed", "dispatch", "receive", "closed"} : sess' = [sess EXCEPT ![s] = x]
    BY <1>5, EndFacts DEF SessionStep, SendStep, OpenRegister, OpenReconnect, AckReconnect,
       HandleStep, Handle, DispatchCancel, DispatchAssign, DispatchNothing, Dispatches, Closes
  <2>3. sess[s] # "none"
    BY <1>5, EndFacts DEF SessionStep, SendStep, OpenRegister, OpenReconnect, AckReconnect,
       HandleStep, Handle, DispatchCancel, DispatchAssign, DispatchNothing, Dispatches, Open
  <2>4. counts'.conns = counts.conns
    <3>1. ~Connect BY <1>a, <2>1 DEF Connect
    <3> QED BY <3>1, CountsFacts
  <2>5. sess' \in [Conns -> {"none", "opening", "replayed", "dispatch", "receive", "closed"}]
    BY <2>2 DEF Link
  <2>6. \A r \in Conns : sess'[r] = "none" <=> r > counts'.conns
    BY <2>2, <2>3, <2>4 DEF Link
  <2>7. conn # NoConn => conn \in Conns BY <1>a DEF Link
  <2>8. conn # NoConn /\ sess[conn] # "opening" => sess'[conn] # "opening"
    BY <2>2, <2>7 DEF Link
  <2>9. toRunner' # <<>> => conn # NoConn /\ sess'[conn] # "opening"
    <3>1. CASE conn = s BY <1>a, <2>2, <3>1 DEF Link
    <3>2. CASE conn # s
      <4>1. toRunner' = toRunner
        BY <1>5, <3>2, EndFacts DEF SessionStep, SendStep, OpenRegister, OpenReconnect,
           AckReconnect, HandleStep, Handle, DispatchCancel, DispatchAssign, DispatchNothing,
           Sends, Transmits
      <4> QED BY <2>8, <4>1 DEF Link
    <3> QED BY <3>1, <3>2
  <2>10. ready \/ wpc # "receive" => conn # NoConn /\ sess'[conn] # "opening" BY <2>8 DEF Link
  <2> QED BY <1>0, <2>1, <2>4, <2>5, <2>6, <2>9, <2>10 DEF Link
<1> QED BY <1>1, <1>2, <1>3, <1>4, <1>5, SessionSteps DEF Next, RunnerStep, SessionStep

\* What a step makes of the sessions: one of them moves, or none.
LEMMA SessionMoves ==
    ASSUME ProtocolInv, Next
    PROVE  \/ UNCHANGED sess /\ ~Connect
           \/ Connect
           \/ \E s \in Conns : OpenRegister(s) \/ OpenReconnect(s)
           \/ \E s \in Conns, x \in {"dispatch", "receive"} :
                 /\ AckReconnect(s) \/ HandleStep(s) \/ Dispatch(s)
                 /\ Open(s) /\ sess' = [sess EXCEPT ![s] = x]
           \/ \E s \in Conns : EndStep(s)
<1>1. \A s \in Conns : AckReconnect(s) \/ HandleStep(s) \/ Dispatch(s) =>
          \E x \in {"dispatch", "receive"} : Open(s) /\ sess' = [sess EXCEPT ![s] = x]
  BY DEF AckReconnect, HandleStep, Handle, Dispatch, DispatchCancel, DispatchAssign,
     DispatchNothing, Dispatches, Open
<1>2. ReceiveAck \/ ReceiveCancel \/ ReceiveOpened \/ ReceiveAssign \/ Flush \/ Mark \/ Disconnect
        \/ RunnerCrash => UNCHANGED sess
  BY DEF ReceiveAck, ReceiveCancel, ReceiveOpened, ReceiveAssign, Takes, Flush, Mark, Disconnect,
     RunnerCrash, server
<1>3. MainStep \/ Heartbeat \/
        (\E t \in Tasks : Start(t) \/ Cancel(t) \/ Approve(t) \/ Expire(t) \/ BackoffEnds(t))
        => UNCHANGED sess
  BY LinkFrame DEF LinkVars
<1> QED BY <1>1, <1>2, <1>3 DEF Next, RunnerStep, OpenStep, EndStep

\* The registrations and the connections that can still register are bounded.
LEMMA RegistersBounded ==
    ASSUME ProtocolInv, Next
    PROVE  counts'.registers + Cardinality(Fresh') <= MaxConns
<1> USE DEF ProtocolInv
<1>0. /\ counts.registers \in Nat /\ counts'.registers \in Nat /\ MaxConns \in Nat
      /\ counts.conns \in Nat /\ Cardinality(Fresh) \in Nat
      /\ counts.registers + Cardinality(Fresh) <= MaxConns
  <2>1. counts \in Counters /\ counts' \in Counters BY CountsFacts DEF Link
  <2>2. /\ counts.registers \in Nat /\ counts'.registers \in Nat /\ MaxConns \in Nat
        /\ counts.conns \in Nat
    BY <2>1, ProtocolAssumption DEF Counters
  <2> QED BY <2>2, FreshFacts DEF Opening
<1>1. CASE UNCHANGED sess /\ ~Connect
  <2>1. \A s \in Conns : ~OpenRegister(s) BY <1>1 DEF OpenRegister, Link
  <2>2. counts'.registers = counts.registers BY <1>1, <2>1, CountsFacts
  <2>3. Fresh' = Fresh BY <1>1 DEF Fresh
  <2> QED BY <1>0, <2>2, <2>3
<1>2. CASE Connect
  <2> DEFINE s == counts.conns + 1
  <2>1. sess' = [sess EXCEPT ![s] = "opening"] BY <1>2 DEF Connect
  <2>2. s \in Conns => sess[s] = "none" BY <1>0 DEF Link
  <2> HIDE DEF s
  <2>3. Fresh' = Fresh BY <2>1, <2>2 DEF Fresh, Link
  <2> QED BY <1>0, <1>2, <2>3, CountsFacts
<1>3. ASSUME NEW s \in Conns, OpenRegister(s) \/ OpenReconnect(s)
      PROVE  counts'.registers + Cardinality(Fresh') <= MaxConns
  <2>1. sess[s] = "opening" /\ \E x \in {"replayed", "dispatch"} : sess' = [sess EXCEPT ![s] = x]
    BY <1>3 DEF OpenRegister, OpenReconnect
  <2>2. s \in Fresh /\ Fresh' = Fresh \ {s} BY <2>1 DEF Fresh, Link
  <2>3. Cardinality(Fresh') = Cardinality(Fresh) - 1 BY <2>2, FreshFacts
  <2>4. counts'.registers \in {counts.registers, counts.registers + 1} BY CountsFacts
  <2> QED BY <1>0, <2>3, <2>4
<1>4. ASSUME NEW s \in Conns, NEW x \in {"dispatch", "receive"},
             AckReconnect(s) \/ HandleStep(s) \/ Dispatch(s), Open(s),
             sess' = [sess EXCEPT ![s] = x]
      PROVE  counts'.registers + Cardinality(Fresh') <= MaxConns
  <2>1. Fresh' = Fresh BY <1>4 DEF Fresh, Link, Open
  <2>2. counts' = counts
    BY <1>4 DEF AckReconnect, HandleStep, Handle, Dispatch, DispatchCancel, DispatchAssign,
       DispatchNothing, Dispatches
  <2> QED BY <1>0, <2>1, <2>2
<1>5. ASSUME NEW s \in Conns, EndStep(s)
      PROVE  counts'.registers + Cardinality(Fresh') <= MaxConns
  <2>1. sess' = [sess EXCEPT ![s] = "closed"] /\ counts' = counts BY <1>5, EndFacts DEF Closes
  <2>2. CASE s \in Fresh
    <3>1. Fresh' = Fresh \ {s} BY <2>1 DEF Fresh, Link
    <3>2. Cardinality(Fresh') = Cardinality(Fresh) - 1 BY <2>2, <3>1, FreshFacts
    <3> QED BY <1>0, <2>1, <3>2
  <2>3. CASE s \notin Fresh
    <3>1. Fresh' = Fresh BY <2>1, <2>3 DEF Fresh, Link
    <3> QED BY <1>0, <2>1, <3>1
  <2> QED BY <2>2, <2>3
<1> QED BY <1>1, <1>2, <1>3, <1>4, <1>5, SessionMoves

\* The wire of a connection that is opening carries its opening only.
LEMMA OpeningWire ==
    ASSUME ProtocolInv, Next, NEW r \in Conns, sess'[r] = "opening"
    PROVE  \/ toServer'[r] = <<Register>>
           \/ toServer'[r] = <<Reconnect>> /\ counts'.registers > 0
<1> USE DEF ProtocolInv
<1>0. counts.registers \in Nat /\ counts'.registers \in Nat /\ counts.registers <= counts'.registers
  BY CountsFacts, SMTT(30) DEF Link, Counters
<1>1. ASSUME sess[r] = "opening", toServer'[r] = toServer[r]
      PROVE  \/ toServer'[r] = <<Register>>
             \/ toServer'[r] = <<Reconnect>> /\ counts'.registers > 0
  BY <1>0, <1>1 DEF Opening
<1>2. CASE Connect
  <2> DEFINE s == counts.conns + 1
  <2>1. /\ toServer' = [toServer EXCEPT ![s] = <<IF registered THEN Reconnect ELSE Register>>]
        /\ sess' = [sess EXCEPT ![s] = "opening"]
    BY <1>2 DEF Connect
  <2> HIDE DEF s
  <2>2. CASE r = s
    <3>1. toServer'[r] = <<IF registered THEN Reconnect ELSE Register>>
      BY <2>1, <2>2 DEF ServerWire
    <3>2. registered => counts'.registers > 0 BY <1>0 DEF Opening
    <3>3. CASE registered BY <3>1, <3>2, <3>3
    <3>4. CASE ~registered BY <3>1, <3>4
    <3> QED BY <3>3, <3>4
  <2>3. CASE r # s
    <3>1. sess[r] = "opening" /\ toServer'[r] = toServer[r] BY <2>1, <2>3 DEF ServerWire, Link
    <3> QED BY <1>1, <3>1
  <2> QED BY <2>2, <2>3
<1>3. CASE ReceiveAssign \/ Heartbeat \/ RunProgress \/ RunEnds
  <2>1. sess' = sess
    BY <1>3, LinkFrame DEF ReceiveAssign, Takes, MainStep, LinkVars
  <2>2. PICK kind \in ReportKinds, t \in Tasks : Reports(kind, t) BY <1>3, ReportSteps
  <2>3. ready => conn # r BY <2>1 DEF Link
  <2>4. toServer'[r] = toServer[r] BY <2>2, <2>3 DEF Reports, Transmitted, ServerWire
  <2> QED BY <1>1, <2>1, <2>4
<1>4. CASE Flush
  <2>1. sess' = sess BY <1>4 DEF Flush, server
  <2>2. conn # r BY <1>4, <2>1 DEF Flush, Link
  <2>3. toServer'[r] = toServer[r] BY <1>4, <2>2 DEF Flush, Transmitted, ServerWire
  <2> QED BY <1>1, <2>1, <2>3
<1>5. ASSUME NEW s \in Conns, OpenRegister(s) \/ OpenReconnect(s) \/ HandleStep(s)
      PROVE  sess[r] = "opening" /\ toServer'[r] = toServer[r]
  <2>1. /\ \E x \in {"replayed", "dispatch"} : sess' = [sess EXCEPT ![s] = x]
        /\ toServer' = [toServer EXCEPT ![s] = Tail(toServer[s])]
    BY <1>5 DEF OpenRegister, OpenReconnect, HandleStep, Handle, Arrives
  <2>2. r # s BY <2>1 DEF Link
  <2> QED BY <2>1, <2>2 DEF Link, ServerWire
<1>6. ASSUME NEW s \in Conns, Dispatch(s) \/ AckReconnect(s)
      PROVE  sess[r] = "opening" /\ toServer'[r] = toServer[r]
  <2>1. /\ \E x \in {"dispatch", "receive"} : sess' = [sess EXCEPT ![s] = x]
        /\ toServer' = toServer
    BY <1>6 DEF Dispatch, DispatchCancel, DispatchAssign, DispatchNothing, Dispatches, AckReconnect
  <2> QED BY <2>1 DEF Link
<1>7. ASSUME NEW s \in Conns, EndStep(s)
      PROVE  sess[r] = "opening" /\ toServer'[r] = toServer[r]
  <2>1. sess' = [sess EXCEPT ![s] = "closed"] /\ toServer' = [toServer EXCEPT ![s] = <<>>]
    BY <1>7, EndFacts DEF Closes
  <2>2. r # s BY <2>1 DEF Link
  <2> QED BY <2>1, <2>2 DEF Link, ServerWire
<1>8. ReceiveAck \/ ReceiveOpened \/ ReceiveCancel \/ Mark \/ TakeTask \/ NextTask \/ CacheTask
      \/ TaskFinished \/ Disconnect \/ RunnerCrash => UNCHANGED <<sess, toServer>>
  BY DEF ReceiveAck, ReceiveOpened, ReceiveCancel, Takes, Mark, TakeTask, NextTask, CacheTask,
     TaskFinished, MainKeeps, Disconnect, RunnerCrash, wires, server
<1>9. \A t \in Tasks : Start(t) \/ Cancel(t) \/ Approve(t) \/ Expire(t) \/ BackoffEnds(t)
           => UNCHANGED <<sess, toServer>>
  BY OthersLeaveRunner DEF wires
<1> QED BY <1>1, <1>2, <1>3, <1>4, <1>5, <1>6, <1>7, <1>8, <1>9
        DEF Next, RunnerStep, MainStep, OpenStep, EndStep

\* Every step keeps the order of registration, log and sessions.
LEMMA NextKeepsOpening ==
    ASSUME ProtocolInv, Next
    PROVE  Opening'
<1> USE DEF ProtocolInv
<1>0. counts.registers \in Nat /\ counts'.registers \in Nat /\ counts.registers <= counts'.registers
  <2>1. counts \in Counters /\ counts' \in Counters BY CountsFacts DEF Link
  <2>2. counts.registers \in 0..MaxConns /\ counts'.registers \in 0..MaxConns
    BY <2>1 DEF Counters
  <2>3. counts'.registers = counts.registers + 1 \/ counts'.registers = counts.registers
    BY CountsFacts
  <2> QED BY <2>2, <2>3, ProtocolAssumption
<1>1. ASSUME registered' \/ log' # <<>> \/ (\E s \in Conns : Open(s)')
      PROVE  counts'.registers > 0
  <2>1. CASE registered \/ log # <<>> \/ (\E s \in Conns : Open(s))
    BY <1>0, <2>1 DEF Opening
  <2>2. CASE ~registered /\ log = <<>> /\ \A s \in Conns : ~Open(s)
    <3>1. ~(ReceiveAck \/ ReceiveCancel \/ ReceiveOpened \/ ReceiveAssign)
      <4>1. 1..Len(log) = {} BY <2>2
      <4> QED BY <4>1 DEF ReceiveAck, ReceiveCancel, ReceiveOpened, ReceiveAssign
    <3>2. ~Flush /\ ~Mark
      <4>1. taken = 0 /\ wpc = "receive" BY <2>2 DEF Log, Link
      <4> QED BY <4>1 DEF Flush, Mark
    <3>3. \A s \in Conns : ~HandleStep(s) /\ ~Dispatch(s) /\ ~AckReconnect(s)
      BY <2>2 DEF HandleStep, Handle, Dispatch, DispatchCancel, DispatchAssign, DispatchNothing,
         Dispatches, AckReconnect, Open
    <3>4. ASSUME NEW s \in Conns, OpenReconnect(s) PROVE counts'.registers > 0
      <4>1. sess[s] = "opening" /\ Head(toServer[s]) = Reconnect
        BY <3>4 DEF OpenReconnect, Arrives
      <4>2. toServer[s] # <<Register>> BY <4>1 DEF Register, Reconnect
      <4> QED BY <1>0, <4>1, <4>2 DEF Opening
    <3>5. \A s \in Conns : OpenRegister(s) => counts'.registers > 0 BY <1>0, CountsFacts
    <3>6. ASSUME \/ Connect \/ Disconnect \/ RunnerCrash
                 \/ MainStep \/ Heartbeat
                 \/ \E s \in Conns : EndStep(s)
                 \/ \E t \in Tasks : Start(t) \/ Cancel(t) \/ Approve(t) \/ Expire(t) \/ BackoffEnds(t)
          PROVE  FALSE
      <4>1. log' = log /\ registered' = registered
        BY <3>6, OthersLeaveRunner, EndFacts
           DEF Connect, Disconnect, RunnerCrash, MainStep, TakeTask, NextTask, CacheTask,
           RunProgress, RunEnds, TaskFinished, MainKeeps, Heartbeat, server, runner
      <4>2. \A s \in Conns : ~Open(s)'
        <5>1. CASE sess' = sess BY <2>2, <5>1 DEF Open
        <5>2. CASE Connect BY <2>2, <5>2 DEF Connect, Open, Link
        <5>3. ASSUME NEW r \in Conns, EndStep(r) PROVE \A s \in Conns : ~Open(s)'
          BY <2>2, <5>3, EndFacts DEF Closes, Open, Link
        <5>4. Disconnect \/ RunnerCrash => sess' = sess BY DEF Disconnect, RunnerCrash, server
        <5> QED BY <3>6, <5>1, <5>2, <5>3, <5>4, LinkFrame DEF LinkVars
      <4> QED BY <1>1, <2>2, <4>1, <4>2
    <3> QED BY <3>1, <3>2, <3>3, <3>4, <3>5, <3>6 DEF Next, RunnerStep, OpenStep, EndStep
  <2> QED BY <2>1, <2>2
<1>2. counts'.registers + Cardinality(Fresh') <= MaxConns BY RegistersBounded
<1>3. \A s \in Conns : sess'[s] = "opening" =>
          \/ toServer'[s] = <<Register>>
          \/ toServer'[s] = <<Reconnect>> /\ counts'.registers > 0
  BY OpeningWire
<1> QED BY <1>1, <1>2, <1>3 DEF Opening

-----------------------------------------------------------------------------
(* The replay                                                              *)

\* Recording a message makes no gap.
LEMMA RecordsKeepsNoGap ==
    ASSUME ProtocolInv, NoGap, NEW s, NEW m, Records(s, m), last' = last
    PROVE  /\ NoGap'
           /\ Len(log') = Len(log) + 1
<1> USE DEF ProtocolInv
<1>1. log' = Append(log, m) /\ log \in Seq(Message) BY DEF Records, Log
<1>2. Len(log') = Len(log) + 1 /\ \A i \in 1..Len(log) : log'[i] = log[i] BY <1>1
<1>3. last \in 0..Len(log) /\ Len(log) \in Nat BY DEF Log
<1> QED BY <1>2, <1>3 DEF NoGap

\* What is sent beside an open connection of the runner strays.
LEMMA BesideStrays ==
    ASSUME ProtocolInv, NEW s \in Conns, NEW m, Records(s, m), sess[s] # "none",
           conn # NoConn, conn # s, Open(conn)
    PROVE  strayed'
<1> USE DEF ProtocolInv
<1>1. conn \in Conns /\ conn = counts.conns /\ counts.conns \in Nat
  BY ProtocolAssumption DEF Link, Counters, Conns, NoConn
<1>2. s \in Nat /\ s <= counts.conns BY <1>1, ProtocolAssumption DEF Link, Conns
<1>3. conn > s BY <1>1, <1>2
<1> QED BY <1>1, <1>3 DEF Records

\* The rest of what is on its way to the runner.
Follow(q, n) == \A i \in 1..Len(q) : q[i] = n + i

\* Where the runner is with the messages of its connection.
LEMMA NextTaken ==
    ASSUME ProtocolInv, NEW n \in 1..Len(log), NEW kinds, Takes(n, kinds),
           counts.registers <= 1, ~strayed
    PROVE  /\ n = last + 1 /\ taken = 0
           /\ Follow(toRunner', n)
           /\ Len(toRunner) \in Nat \ {0} /\ Len(toRunner') = Len(toRunner) - 1
           /\ Open(conn) => last + Len(toRunner) = Len(log)
<1> USE DEF ProtocolInv
<1>1. wpc = "receive" /\ toRunner # <<>> /\ n = Head(toRunner) /\ toRunner' = Tail(toRunner)
  BY DEF Takes
<1>2. conn # NoConn /\ taken = 0 /\ Busy = 0 BY <1>1 DEF Link, Busy
<1>3. Len(log) \in Nat /\ last \in Nat BY DEF Log
<1>4. toRunner \in Seq(Int) BY DEF RunnerWire
<1>5. /\ Len(toRunner') = Len(toRunner) - 1
      /\ Len(toRunner) \in Nat \ {0}
      /\ n = toRunner[1]
      /\ \A i \in 1..Len(toRunner') : toRunner'[i] = toRunner[i + 1]
  BY <1>1, <1>4, TailFacts
<1>6. /\ \A i \in 1..Len(toRunner) : toRunner[i] = last + i
      /\ Open(conn) => last + Len(toRunner) = Len(log)
  BY <1>2, <1>3, <1>5 DEF Replay
<1>7. n = last + 1 BY <1>5, <1>6
<1>8. ASSUME NEW i \in 1..Len(toRunner') PROVE toRunner'[i] = n + i
  <2>1. i + 1 \in 1..Len(toRunner) BY <1>5
  <2>2. toRunner'[i] = last + (i + 1) BY <1>5, <1>6, <2>1
  <2> QED BY <1>3, <1>7, <2>2
<1> QED BY <1>2, <1>5, <1>6, <1>7, <1>8 DEF Follow

\* Marking the next message makes no gap.
LEMMA MarksKeepsNoGap ==
    ASSUME ProtocolInv, NoGap, NEW n \in 1..Len(log), n = last + 1, Marks(n),
           received' = received, taken' \in {0, taken}
    PROVE  NoGap' /\ last' = n /\ Len(log') = Len(log)
<1> USE DEF ProtocolInv
<1>1. /\ Len(log') = Len(log) /\ log'[n] = Marked
      /\ \A i \in 1..Len(log) : i # n => log'[i] = log[i]
  BY MarksKeepsLog
<1>2. last \in Nat /\ Len(log) \in Nat BY DEF Log
<1>3. last' = n BY <1>2 DEF Marks
<1>4. ASSUME NEW i \in 1..last' PROVE log'[i] = Marked
  <2>1. CASE i = n BY <1>1, <2>1
  <2>2. CASE i # n
    <3>1. i \in 1..last /\ i \in 1..Len(log) BY <1>2, <1>3, <2>2
    <3> QED BY <1>1, <2>2, <3>1 DEF NoGap
  <2> QED BY <2>1, <2>2
<1> QED BY <1>1, <1>3, <1>4 DEF NoGap

\* What Replay says of the connection.
InOnePiece ==
    /\ NoGap
    /\ conn # NoConn =>
          /\ taken # 0 => taken = last + 1
          /\ \A i \in 1..Len(toRunner) : toRunner[i] = last + Busy + i
          /\ Open(conn) => last + Busy + Len(toRunner) = Len(log)

\* Sending on the runner's connection, or beside it, keeps it in one piece.
LEMMA SendKeepsReplay ==
    ASSUME ProtocolInv, Next, NEW s \in Conns, SendStep(s),
           counts.registers <= 1, counts'.registers <= 1, ~strayed, ~strayed'
    PROVE  InOnePiece'
<1> USE DEF ProtocolInv
<1>1. UNCHANGED <<last, taken, conn>> BY OthersLeaveRunner DEF SessionStep, runner
<1>2. PICK m : Sends(s, m) BY SessionSends
<1>3. NoGap BY DEF Replay
<1>4. NoGap' /\ Len(log') = Len(log) + 1 BY <1>1, <1>2, <1>3, RecordsKeepsNoGap DEF Sends
<1>5. Busy' = Busy /\ Busy \in {0, 1} BY <1>1 DEF Busy
<1>6. /\ Len(log) \in Nat /\ last \in 0..Len(log)
      /\ toRunner \in Seq(Int) /\ Len(toRunner) \in Nat
  BY DEF Log, RunnerWire
<1>7. sess[s] \in {"opening", "replayed", "dispatch", "receive"}
  BY DEF SendStep, OpenRegister, AckReconnect, HandleStep, Handle, DispatchCancel, DispatchAssign,
     Dispatches
<1>8. CASE conn # s
  <2>1. toRunner' = toRunner BY <1>2, <1>8 DEF Sends, Transmits
  <2>2. conn # NoConn => ~Open(conn) BY <1>2, <1>7, <1>8, BesideStrays DEF Sends
  <2>3. conn # NoConn => sess'[conn] = sess[conn]
    <3>1. \E x : sess' = [sess EXCEPT ![s] = x]
      BY DEF SendStep, OpenRegister, AckReconnect, HandleStep, Handle, DispatchCancel,
         DispatchAssign, Dispatches
    <3> QED BY <1>8, <3>1 DEF Link
  <2>4. conn # NoConn => ~Open(conn)' BY <1>1, <2>2, <2>3 DEF Open
  <2> QED BY <1>1, <1>4, <1>5, <2>1, <2>4 DEF InOnePiece, Replay
<1>9. CASE conn = s
  <2> DEFINE q == <<Len(log) + 1>>
  <2>1. toRunner' = toRunner \o q BY <1>2, <1>9 DEF Sends, Transmits
  <2>2. q \in Seq(Int) /\ Len(q) = 1 /\ q[1] = Len(log) + 1 BY <1>6
  <2> HIDE DEF q
  <2>3. /\ Len(toRunner') = Len(toRunner) + Len(q)
        /\ \A i \in 1..Len(toRunner) : toRunner'[i] = toRunner[i]
        /\ \A i \in 1..Len(q) : toRunner'[Len(toRunner) + i] = q[i]
    <3>1. toRunner \in Seq(Int) /\ q \in Seq(Int) BY <1>6, <2>2
    <3>2. /\ Len(toRunner \o q) = Len(toRunner) + Len(q)
          /\ \A i \in 1..Len(toRunner) : (toRunner \o q)[i] = toRunner[i]
          /\ \A i \in 1..Len(q) : (toRunner \o q)[Len(toRunner) + i] = q[i]
      BY <3>1, ConcatFacts
    <3> QED BY <2>1, <3>2, Zenon
  <2>4. Len(toRunner') = Len(toRunner) + 1 /\ toRunner'[Len(toRunner) + 1] = Len(log) + 1
    <3>1. 1 \in 1..Len(q) BY <2>2
    <3> QED BY <2>2, <2>3, <3>1
  <2>5. conn # NoConn BY <1>9, ProtocolAssumption DEF Conns, NoConn
  <2>6. last + Busy + Len(toRunner) = Len(log)
    <3>1. CASE Open(s) BY <1>9, <2>5, <3>1 DEF Replay
    <3>2. CASE ~Open(s)
      <4>1. OpenRegister(s)
        BY <3>2 DEF SendStep, AckReconnect, HandleStep, Handle, DispatchCancel, DispatchAssign,
           Dispatches, Open
      <4>2. counts.registers = 0
        <5>1. counts.registers \in Nat /\ counts'.registers = counts.registers + 1
          BY <4>1, CountsFacts DEF Link, Counters
        <5> QED BY <5>1
      <4>3. log = <<>> BY <4>2 DEF Opening
      <4>4. taken = 0 /\ toRunner = <<>>
        BY <1>9, <2>5, <4>1 DEF OpenRegister, Link
      <4>5. Len(log) = 0 /\ last = 0 /\ Len(toRunner) = 0 /\ Busy = 0
        BY <1>6, <4>3, <4>4 DEF Busy
      <4> QED BY <4>5
    <3> QED BY <3>1, <3>2
  <2>7. \A i \in 1..Len(toRunner') : toRunner'[i] = last + Busy + i
    <3>1. \A i \in 1..Len(toRunner) : toRunner[i] = last + Busy + i BY <2>5 DEF Replay
    <3>2. last + Busy + (Len(toRunner) + 1) = Len(log) + 1 BY <1>5, <1>6, <2>6
    <3>3. TAKE i \in 1..Len(toRunner')
    <3>4. CASE i \in 1..Len(toRunner) BY <2>3, <3>1, <3>4
    <3>5. CASE i = Len(toRunner) + 1 BY <2>4, <3>2, <3>5
    <3> QED BY <1>6, <2>4, <3>4, <3>5
  <2>8. last + Busy + Len(toRunner') = Len(log') BY <1>4, <1>5, <1>6, <2>4, <2>6
  <2>9. taken # 0 => taken = last + 1 BY <2>5 DEF Replay
  <2> QED BY <1>1, <1>4, <1>5, <2>7, <2>8, <2>9 DEF InOnePiece
<1> QED BY <1>8, <1>9

\* Every step keeps what is marked, handled and on its way in one piece.
LEMMA NextKeepsReplay ==
    ASSUME ProtocolInv, Next
    PROVE  Replay'
<1> USE DEF ProtocolInv
<1> SUFFICES ASSUME counts'.registers <= 1, ~strayed'
             PROVE  InOnePiece'
  BY DEF Replay, InOnePiece
<1>0. counts.registers \in Nat /\ counts'.registers \in Nat /\ counts.registers <= counts'.registers
  BY CountsFacts, SMTT(30) DEF Link, Counters
<1>a. ~strayed
  <2>1. \A s \in Conns : SessionStep(s) => (strayed => strayed')
    BY EndFacts DEF SessionStep, SendStep, OpenRegister, OpenReconnect, AckReconnect, HandleStep,
       Handle, DispatchCancel, DispatchAssign, DispatchNothing, Sends, Records, history
  <2> QED BY <2>1, RunnerLeavesTables, OthersLeaveRunner, SessionSteps DEF Next, SessionStep
<1>b. counts.registers <= 1 BY <1>0
<1>c. InOnePiece BY <1>a, <1>b DEF Replay, InOnePiece
<1>d. /\ Len(log) \in Nat /\ last \in 0..Len(log) /\ taken \in 0..Len(log)
      /\ toRunner \in Seq(Int) /\ Len(toRunner) \in Nat
  BY DEF Log, RunnerWire
<1>1. ASSUME UNCHANGED <<log, last, taken, toRunner, conn>>,
             conn # NoConn /\ Open(conn)' => Open(conn)
      PROVE  InOnePiece'
  BY <1>1, <1>c DEF InOnePiece, NoGap, Busy
<1>2. CASE MainStep \/ Heartbeat \/ Flush
           \/ \E t \in Tasks : Start(t) \/ Cancel(t) \/ Approve(t) \/ Expire(t) \/ BackoffEnds(t)
  <2>1. UNCHANGED <<log, last, taken, toRunner, conn, sess>>
    BY <1>2, OthersLeaveRunner DEF MainStep, TakeTask, NextTask, CacheTask, RunProgress, RunEnds,
       TaskFinished, MainKeeps, Heartbeat, Flush, server, runner, wires
  <2>2. Open(conn)' => Open(conn) BY <2>1 DEF Open
  <2> QED BY <1>1, <2>1, <2>2
<1>3. ASSUME NEW s \in Conns, DispatchNothing(s) \/ EndStep(s) PROVE InOnePiece'
  <2>1. UNCHANGED <<log, last, taken, toRunner, conn>>
    BY <1>3, EndFacts DEF DispatchNothing, Dispatches, runner
  <2>2. CASE DispatchNothing(s)
    <3>1. Open(conn)' => Open(conn) BY <2>1, <2>2 DEF DispatchNothing, Dispatches, Open, Link
    <3> QED BY <1>1, <2>1, <3>1
  <2>3. CASE EndStep(s)
    <3>1. conn # NoConn => conn \in Conns
      BY ProtocolAssumption DEF Link, Counters, Conns, NoConn
    <3>2. conn # NoConn /\ Open(conn)' => Open(conn)
      BY <2>1, <2>3, <3>1, EndFacts DEF Closes, Open, Link
    <3> QED BY <1>1, <2>1, <3>2
  <2> QED BY <1>3, <2>2, <2>3
<1>4. CASE Connect
  <2>1. UNCHANGED <<log, last, taken, toRunner>> /\ conn' = counts.conns + 1 BY <1>4 DEF Connect
  <2>2. sess' = [sess EXCEPT ![conn'] = "opening"] BY <1>4, <2>1 DEF Connect
  <2>3. counts.conns \in 0..MaxConns /\ counts.conns < MaxConns /\ MaxConns \in Nat
    BY <1>4, ProtocolAssumption DEF Connect, Link, Counters
  <2>4. conn' \in Conns BY <2>1, <2>3 DEF Conns
  <2>5. ~Open(conn)' BY <2>2, <2>4 DEF Open, Link
  <2>6. taken = 0 /\ toRunner = <<>> BY <1>4 DEF Connect, Link
  <2> QED BY <1>c, <2>1, <2>5, <2>6 DEF InOnePiece, NoGap
<1>5. CASE Disconnect \/ RunnerCrash
  <2>1. UNCHANGED <<log, last>> /\ conn' = NoConn BY <1>5 DEF Disconnect, RunnerCrash, server
  <2> QED BY <1>c, <2>1 DEF InOnePiece, NoGap
<1>6. CASE ReceiveAck \/ ReceiveCancel
  <2>1. PICK n \in 1..Len(log) : /\ Takes(n, {"ack"}) \/ Takes(n, {"cancel"})
                                 /\ Marks(n) /\ received' = received /\ taken' = taken
    BY <1>6 DEF ReceiveAck, ReceiveCancel, Takes
  <2>2. UNCHANGED <<conn, sess>> BY <2>1 DEF Takes
  <2>3. /\ n = last + 1 /\ taken = 0 /\ Follow(toRunner', n)
        /\ Len(toRunner') = Len(toRunner) - 1
        /\ Open(conn) => last + Len(toRunner) = Len(log)
    BY <1>a, <1>b, <2>1, NextTaken
  <2>4. NoGap' /\ last' = n /\ Len(log') = Len(log)
    BY <1>c, <2>1, <2>3, MarksKeepsNoGap DEF InOnePiece
  <2>5. Busy' = 0 BY <2>1, <2>3 DEF Busy
  <2>6. \A i \in 1..Len(toRunner') : toRunner'[i] = last' + Busy' + i
    BY <2>3, <2>4, <2>5 DEF Follow
  <2>7. Open(conn)' => last' + Busy' + Len(toRunner') = Len(log')
    <3>1. Open(conn)' => Open(conn) BY <2>2 DEF Open
    <3>2. last \in Nat BY <1>d
    <3> QED BY <1>d, <2>3, <2>4, <2>5, <3>1, <3>2
  <2> QED BY <2>1, <2>3, <2>4, <2>6, <2>7 DEF InOnePiece
<1>7. CASE ReceiveOpened \/ ReceiveAssign
  <2>1. PICK n \in 1..Len(log) :
            /\ Takes(n, {"registered", "reconnected"}) \/ Takes(n, {"assign"})
            /\ taken' = n /\ UNCHANGED <<log, last>>
    BY <1>7 DEF ReceiveOpened, ReceiveAssign, Keeps
  <2>2. UNCHANGED <<conn, sess>> BY <2>1 DEF Takes
  <2>3. /\ n = last + 1 /\ Follow(toRunner', n)
        /\ Len(toRunner') = Len(toRunner) - 1
        /\ Open(conn) => last + Len(toRunner) = Len(log)
    BY <1>a, <1>b, <2>1, NextTaken
  <2>4. NoGap' BY <1>c, <2>1 DEF InOnePiece, NoGap
  <2>5. Busy' = 1 /\ n \in Nat /\ last \in Nat BY <1>d, <2>1 DEF Busy
  <2>6. last' + Busy' = n BY <2>1, <2>3, <2>5
  <2>7. \A i \in 1..Len(toRunner') : toRunner'[i] = last' + Busy' + i
    BY <2>3, <2>6 DEF Follow
  <2>8. Open(conn)' => last' + Busy' + Len(toRunner') = Len(log')
    <3>1. Open(conn)' => Open(conn) BY <2>2 DEF Open
    <3> QED BY <1>d, <2>1, <2>3, <2>5, <2>6, <3>1
  <2> QED BY <2>1, <2>3, <2>4, <2>7, <2>8 DEF InOnePiece
<1>8. CASE Mark
  <2>1. /\ Marks(taken) /\ received' = received /\ taken' = 0
        /\ UNCHANGED <<toRunner, conn, sess>>
    BY <1>8 DEF Mark, wires
  <2>2. taken # 0 /\ conn # NoConn /\ Busy = 1 BY <1>8 DEF Mark, Link, Busy
  <2>3. taken = last + 1 /\ taken \in 1..Len(log) BY <1>c, <1>d, <2>2 DEF InOnePiece
  <2>4. NoGap' /\ last' = taken /\ Len(log') = Len(log)
    BY <1>c, <2>1, <2>3, MarksKeepsNoGap DEF InOnePiece
  <2>5. last' + Busy' = last + Busy
    <3>1. Busy' = 0 BY <2>1 DEF Busy
    <3> QED BY <1>d, <2>2, <2>3, <2>4, <3>1
  <2>6. Open(conn)' <=> Open(conn) BY <2>1 DEF Open
  <2> QED BY <1>c, <2>1, <2>2, <2>4, <2>5, <2>6 DEF InOnePiece
<1>9. ASSUME NEW s \in Conns, SendStep(s) PROVE InOnePiece'
  BY <1>9, <1>a, <1>b, SendKeepsReplay
<1>10. ASSUME NEW s \in Conns, OpenReconnect(s) PROVE InOnePiece'
  <2>1. UNCHANGED <<log, last, taken, conn>> /\ sess' = [sess EXCEPT ![s] = "replayed"]
    BY <1>10 DEF OpenReconnect, runner
  <2>2. NoGap' BY <1>c, <2>1 DEF InOnePiece, NoGap
  <2>3. CASE conn # s
    <3>1. toRunner' = toRunner BY <1>10, <2>3 DEF OpenReconnect, Transmits
    <3>2. Open(conn)' => Open(conn) BY <2>1, <2>3 DEF Open, Link
    <3> QED BY <1>1, <2>1, <3>1, <3>2
  <2>4. CASE conn = s
    <3>1. taken = 0 /\ toRunner = <<>> BY <1>10, <2>4 DEF OpenReconnect, Link
    <3>2. toRunner' = <<>> \o Unmarked BY <1>10, <2>4, <3>1 DEF OpenReconnect, Transmits
    <3>3. toRunner' = Unmarked BY <3>2, ReplayedFacts
    <3>4. Busy' = 0 BY <2>1, <3>1 DEF Busy
    <3>5. \A i \in 1..Len(toRunner') : toRunner'[i] = last' + Busy' + i
      BY <1>d, <2>1, <3>3, <3>4, ReplayedFacts
    <3>6. last' + Busy' + Len(toRunner') = Len(log')
      BY <1>d, <2>1, <3>3, <3>4, ReplayedFacts
    <3> QED BY <2>1, <2>2, <3>1, <3>5, <3>6 DEF InOnePiece
  <2> QED BY <2>3, <2>4
<1> QED BY <1>2, <1>3, <1>4, <1>5, <1>6, <1>7, <1>8, <1>9, <1>10, SessionSteps
        DEF Next, RunnerStep

-----------------------------------------------------------------------------
(* The invariant, and what follows from it                                 *)

\* It holds before the first connection.
LEMMA InitProtocolInv == Init => ProtocolInv
<1> SUFFICES ASSUME Init PROVE ProtocolInv
  OBVIOUS
<1>1. Tables
  <2>1. NoJob \in Job BY DEF NoJob, Job
  <2> QED BY <2>1 DEF Init, Tables, TaskStatus
<1>2. Threads BY DEF Init, Threads
<1>3. Ledger BY DEF Init, Ledger
<1>4. Log BY DEF Init, Log
<1>5. ServerWire BY DEF Init, ServerWire
<1>6. RunnerWire BY DEF Init, RunnerWire
<1>7. counts \in Counters /\ counts.conns = 0 /\ counts.registers = 0
  BY ProtocolAssumption DEF Init, Counters
<1>8. Link
  <2>1. \A s \in Conns : sess[s] = "none" /\ s > 0
    BY ProtocolAssumption DEF Init, Conns
  <2> QED BY <1>7, <2>1 DEF Init, Link, NoConn
<1>9. Opening
  <2>1. Fresh = Conns BY DEF Init, Fresh
  <2>2. Cardinality(Conns) = MaxConns BY FS_Interval, ProtocolAssumption DEF Conns
  <2> QED BY <1>7, <2>1, <2>2, ProtocolAssumption DEF Init, Opening, Open
<1>10. Replay BY DEF Init, Replay, NoGap
<1> QED BY <1>1, <1>2, <1>3, <1>4, <1>5, <1>6, <1>8, <1>9, <1>10 DEF ProtocolInv

\* Every step of the protocol keeps it.
LEMMA NextKeepsProtocolInv == ProtocolInv /\ [Next]_vars => ProtocolInv'
<1>1. ASSUME ProtocolInv, Next PROVE ProtocolInv'
  <2>1. Tables'
    BY <1>1, SessionKeepsTables, UserKeepsTables, RunnerLeavesTables, SessionSteps
    DEF Next, ProtocolInv, Tables, SessionStep
  <2>2. Threads'
    BY <1>1, RunnerKeepsThreads, OthersLeaveRunner, SessionSteps
    DEF Next, ProtocolInv, Threads, runner, SessionStep
  <2> QED BY <1>1, <2>1, <2>2, NextKeepsLedger, NextKeepsLog, NextKeepsServerWire,
             NextKeepsRunnerWire, NextKeepsLink, NextKeepsOpening, NextKeepsReplay
          DEF ProtocolInv
<1>2. ASSUME ProtocolInv, UNCHANGED vars PROVE ProtocolInv'
  <2> USE <1>2 DEF ProtocolInv, vars, server, wires, outbox, runner, history
  <2>1. Tables' /\ Threads' BY DEF Tables, Threads
  <2>2. Ledger' /\ Log' BY DEF Ledger, Log
  <2>3. ServerWire' /\ RunnerWire' BY DEF ServerWire, RunnerWire
  <2>4. Link' BY DEF Link
  <2>5. Opening' BY DEF Opening, Open, Fresh
  <2>6. Replay' BY DEF Replay, Open, NoGap, Busy
  <2> QED BY <2>1, <2>2, <2>3, <2>4, <2>5, <2>6
<1> QED BY <1>1, <1>2

\* So it holds in every reachable state.
LEMMA SpecProtocolInv == Spec => []ProtocolInv
<1>1. Init => ProtocolInv BY InitProtocolInv
<1>2. ProtocolInv /\ [Next]_vars => ProtocolInv' BY NextKeepsProtocolInv
<1> QED BY <1>1, <1>2, PTL DEF Spec

\* All tables, message stores, wires and threads keep their types, for any number of
\* tasks, connections, restarts and messages.
THEOREM ProtocolTypes == Spec => []TypeOK
<1>1. ProtocolInv => TypeOK
  <2> SUFFICES ASSUME ProtocolInv PROVE TypeOK
    OBVIOUS
  <2> USE DEF ProtocolInv
  <2>1. \A n \in 1..Len(log) :
            log[n].kind \in {"registered", "reconnected", "ack", "assign", "cancel", "marked"}
    BY DEF Log, Message, Marked, Acks, Assigns, Cancels
  <2>2. conn \in {NoConn} \cup Conns
    BY ProtocolAssumption DEF Link, Counters, Conns, NoConn
  <2>3. \A i \in 1..Len(queue) : queue[i] \in [task : Tasks, cancel : BOOLEAN]
    <3>1. \A i \in 1..Len(queue) : queue[i] \in Assignment BY DEF Threads
    <3> QED BY <3>1, Zenon DEF Assignment
  <2> QED BY <2>1, <2>2, <2>3 DEF TypeOK, Tables, Threads, Ledger, Log, ServerWire, RunnerWire, Link
<1> QED BY <1>1, SpecProtocolInv, PTL

\* ProtocolState.pending and record_runner_message together: over any number of breaks,
\* restarts and overlapping sessions, a report leaves the runner's outbox only after the
\* server has acted upon it, or was cut short behind its record.
THEOREM ReportsAreNotLost == Spec => []NothingLost
<1>1. ProtocolInv => NothingLost
  <2> SUFFICES ASSUME ProtocolInv, NEW n \in 1..Len(reports)
               PROVE  n \in pending \/ effects[n] > 0 \/ n \in torn
    BY DEF NothingLost
  <2>1. /\ n \in pending \/ n \in received
        /\ effects[n] = IF n \in received /\ n \notin torn THEN 1 ELSE 0
    BY DEF ProtocolInv, Ledger
  <2> QED BY <2>1
<1> QED BY <1>1, SpecProtocolInv, PTL

\* The server acts upon no report twice, and upon none again whose handler was cut short,
\* although it is sent again on every connection until it is acknowledged.
THEOREM ReportsActOnce == Spec => []AtMostOnce
<1>1. ProtocolInv => AtMostOnce
  <2> SUFFICES ASSUME ProtocolInv, NEW n \in 1..Len(reports)
               PROVE  effects[n] <= IF n \in torn THEN 0 ELSE 1
    BY DEF AtMostOnce
  <2>1. effects[n] = IF n \in received /\ n \notin torn THEN 1 ELSE 0
    BY DEF ProtocolInv, Ledger
  <2> QED BY <2>1
<1> QED BY <1>1, SpecProtocolInv, PTL

\* list_runner_messages and mark_server_message together: every message of the server up
\* to last_server_seq was handled by the runner, and what comes later is replayed, as
\* long as the runner registers once and no old session sends beside a new one.
THEOREM ReplayLeavesNoGap == Spec => []ReplayIsComplete
<1>1. ProtocolInv => ReplayIsComplete BY DEF ProtocolInv, Replay, ReplayIsComplete
<1> QED BY <1>1, SpecProtocolInv, PTL

=============================================================================
