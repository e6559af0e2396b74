------------------------- MODULE Permissions_proofs -------------------------
(***************************************************************************)
(* Proofs about Permissions: for any number of requests, owners, leases    *)
(* and faults, a task that waits can be decided, and a denial ends it.     *)
(*                                                                         *)
(* The invariant follows the one thread of activity a task has: its job is *)
(* pending; or an assignment is under way; or the runner works, and what   *)
(* it says is in flight; or it has asked, and its request is open or being *)
(* decided.  No two of them overlap as long as no lease is lost, no        *)
(* handler is cut short and no result overtakes its handler.               *)
(***************************************************************************)
EXTENDS Permissions, TLAPS

\* The rows and threads belong together, whatever goes wrong.
Rows ==
    /\ job.status = "pending" \/ job.due => job.attempts < MaxLeases
    /\ \A r \in Requests : r > asked => perm[r] = "none"
    /\ gw.pc \in {"first", "second"} => gw.msg \in Messages
    /\ gw.todo \subseteq {r \in Requests : perm[r] \in Decided}
    /\ gw.pc = "mark" => gw.current \in {r \in Requests : perm[r] \in Decided}
    /\ run \in {Stopped, Working} \cup {[at |-> "waiting", request |-> r] : r \in Requests}

Deciding(d) == dec[d].pc # "idle"

\* Every decision that is carried out is the one its row holds, and is carried
\* out once.
Decisions ==
    /\ \A d \in Deciders :
           IF Deciding(d)
           THEN /\ dec[d].request \in Requests /\ dec[d].answer \in Decided
                /\ perm[dec[d].request] = dec[d].answer
           ELSE dec[d] = NotDeciding
    /\ \A d, e \in Deciders :
           Deciding(d) /\ Deciding(e) /\ dec[d].request = dec[e].request => d = e
    /\ \A i \in 1..Len(mail) :
           mail[i] # Assignment => perm[mail[i].request] = mail[i].answer

Handling == gw.pc \in {"first", "second"}
Asks(m)  == m.kind = "ask"

\* A request that is in flight has no row yet, and is in flight once.
Asked ==
    /\ \A i \in 1..Len(inbox) : Asks(inbox[i]) =>
           inbox[i].request \in 1..asked /\ perm[inbox[i].request] = "none"
    /\ Handling /\ Asks(gw.msg) =>
           gw.msg.request \in 1..asked /\ perm[gw.msg.request] = "none"
    /\ \A i, j \in 1..Len(inbox) :
           Asks(inbox[i]) /\ Asks(inbox[j]) /\ inbox[i].request = inbox[j].request => i = j
    /\ Handling /\ Asks(gw.msg) =>
           \A i \in 1..Len(inbox) : Asks(inbox[i]) => inbox[i].request # gw.msg.request

\* A handler that is about to close a job has taken the task out of waiting.
Closing == gw.pc = "second" /\ gw.msg.kind \in {"completed", "failed"}
              => task # "wait_permission"

Calm == ~lapsed /\ ~torn /\ ~overtaken

Pends(r)    == perm[r] = "pending" \/ Finishing(r)
NothingPends == \A r \in Requests : ~Pends(r)
InFlight    == inbox # <<>> \/ Handling
Assigning   == gw.pc = "assign" \/ \E i \in 1..Len(mail) : mail[i] = Assignment

\* The last thing the runner says before it waits or stops.
Final(m) == m.kind \in {"ask", "completed", "failed"}
Last(m)  == /\ Asks(m) => /\ m.request = asked /\ perm[asked] = "none"
                          /\ run \in {Stopped, [at |-> "waiting", request |-> asked]}
            /\ ~Asks(m) => run = Stopped

\* A job that is not leased has no run, no message and no request under way.
WithoutLease ==
    ~Leased =>
        /\ ~InFlight /\ ~Assigning /\ NothingPends
        /\ run # Working
        /\ job.status = "pending" => run = Stopped
        /\ \A r \in Requests : run.request = r => perm[r] = "denied"

\* An assignment is made once, to a runner that does nothing.
WhileAssigning ==
    Assigning =>
        /\ run = Stopped /\ ~InFlight /\ NothingPends
        /\ gw.pc = "assign" => \A i \in 1..Len(mail) : mail[i] # Assignment
        /\ \A i, j \in 1..Len(mail) : mail[i] = Assignment /\ mail[j] = Assignment => i = j

\* Nothing is open while the runner speaks, and after its last word it is silent.
WhileInFlight ==
    /\ InFlight \/ run = Working => NothingPends
    /\ \A i \in 1..Len(inbox) : Final(inbox[i]) => i = Len(inbox) /\ Last(inbox[i])
    /\ Handling /\ Final(gw.msg) => inbox = <<>> /\ Last(gw.msg)

\* Only the newest request is open, and an answer is sent after it was carried out.
WhileWaiting ==
    /\ \A r \in Requests : run.request = r \/ Pends(r) => r = asked
    /\ \A i \in 1..Len(mail) : mail[i] # Assignment => ~Finishing(mail[i].request)

\* A denial that is carried out has ended task and job.
Denials ==
    /\ \A d \in Deciders : dec[d].pc = "job" /\ dec[d].answer = "denied" => task = "failed"
    /\ \A r \in Requests : perm[r] = "denied" /\ ~Finishing(r)
           => task = "failed" /\ job.status = "failed"

OneAtATime == WithoutLease /\ WhileAssigning /\ WhileInFlight /\ WhileWaiting /\ Denials

PermissionInv ==
    /\ TypeOK /\ Rows /\ Decisions /\ Asked /\ Closing /\ WaitingCanBeDecided
    /\ Calm => OneAtATime

-----------------------------------------------------------------------------
(* What the operators yield                                                *)

JobRow == [status : {"pending", "leased", "completed", "failed"},
           attempts : 0..MaxLeases, due : BOOLEAN]

\* The bounds are numbers.
LEMMA Bounds ==
    /\ MaxRequests \in Nat /\ MaxAttempts \in Nat /\ MaxLeases \in Nat
    /\ MaxReports \in Nat /\ MaxFaults \in Nat
    /\ MaxAttempts <= MaxLeases /\ MaxLeases > 0
    /\ \A r \in Requests : r \in Nat \ {0}
    /\ NoRequest = 0
BY PermissionConstants DEF Requests, NoRequest

\* complete_job, renew_job, fail_job and recover_expired_jobs leave a row of the table.
LEMMA JobFacts ==
    ASSUME TypeOK, NEW s \in {"completed", "failed"}
    PROVE  /\ job \in JobRow
           /\ Pending(job) \in JobRow /\ Pending(job).status = "pending" /\ ~Pending(job).due
           /\ Pending(job).attempts = job.attempts
           /\ Renewed \in JobRow /\ Renewed.status = job.status /\ Renewed.attempts = job.attempts
           /\ Renewed.due => job.due
           /\ Completed(s) \in JobRow /\ Completed(s).attempts = job.attempts
           /\ Completed(s).due => job.due
           /\ Leased => Completed(s).status = s /\ ~Completed(s).due
           /\ ~Leased => Completed(s) = job
<1>1. job \in JobRow BY DEF TypeOK, JobRow
<1>2. /\ Pending(job) \in JobRow /\ Pending(job).status = "pending"
      /\ Pending(job).due = FALSE
      /\ Pending(job).attempts = job.attempts
  BY <1>1 DEF Pending, JobRow
<1>3. CASE Leased
  <2>1. Renewed = [job EXCEPT !.due = FALSE] /\ Completed(s) = [job EXCEPT !.status = s, !.due = FALSE]
    BY <1>3 DEF Renewed, Completed
  <2>2. /\ Renewed \in JobRow /\ Renewed.status = job.status /\ Renewed.attempts = job.attempts
        /\ Renewed.due = FALSE
    BY <1>1, <2>1 DEF JobRow
  <2>3. /\ Completed(s) \in JobRow /\ Completed(s).attempts = job.attempts
        /\ Completed(s).status = s /\ Completed(s).due = FALSE
    BY <1>1, <2>1 DEF JobRow
  <2> QED BY <1>1, <1>2, <1>3, <2>2, <2>3
<1>4. CASE ~Leased
  BY <1>1, <1>2, <1>4 DEF Renewed, Completed
<1> QED BY <1>3, <1>4

\* Recovery touches only a job whose lease ran out.
LEMMA RecoveredFacts ==
    ASSUME TypeOK
    PROVE  /\ RecoveredJob \in JobRow /\ RecoveredJob.attempts = job.attempts
           /\ ~RecoveredJob.due
           /\ job.due => RecoveredJob.status = "pending" /\ RecoveredTask = "queued"
           /\ ~job.due => RecoveredJob = job /\ RecoveredTask = task
<1>1. CASE job.due BY <1>1, JobFacts DEF RecoveredJob, RecoveredTask
<1>2. CASE ~job.due BY <1>2, JobFacts DEF RecoveredJob, RecoveredTask
<1> QED BY <1>1, <1>2

Pcs == {"down", "recover", "list", "send", "mark", "active", "lease", "assign",
        "receive", "first", "second", "ack"}

\* A gateway that turns to the next thing keeps nothing of the last.
LEMMA AtFacts ==
    ASSUME NEW pc \in Pcs
    PROVE  /\ At(pc) \in Gateway /\ At(pc).pc = pc /\ At(pc).todo = {}
           /\ \A S \in SUBSET Requests :
                 /\ [At(pc) EXCEPT !.todo = S] \in Gateway
                 /\ [At(pc) EXCEPT !.todo = S].pc = pc /\ [At(pc) EXCEPT !.todo = S].todo = S
           /\ \A m \in Messages :
                 /\ [At(pc) EXCEPT !.msg = m] \in Gateway
                 /\ [At(pc) EXCEPT !.msg = m].pc = pc /\ [At(pc) EXCEPT !.msg = m].todo = {}
                 /\ [At(pc) EXCEPT !.msg = m].msg = m
BY DEF At, Gateway, Pcs

\* The messages and their order.
LEMMA AppendFacts ==
    ASSUME NEW S, NEW q \in Seq(S), NEW e \in S
    PROVE  /\ Append(q, e) \in Seq(S)
           /\ Len(Append(q, e)) = Len(q) + 1
           /\ \A i \in 1..Len(q) : Append(q, e)[i] = q[i]
           /\ Append(q, e)[Len(q) + 1] = e
           /\ Append(q, e) # <<>>
OBVIOUS

\* What Head and Tail make of a sequence that is not empty.
LEMMA TailFacts ==
    ASSUME NEW S, NEW q \in Seq(S), q # <<>>
    PROVE  /\ Tail(q) \in Seq(S)
           /\ Len(Tail(q)) = Len(q) - 1
           /\ Len(q) \in Nat \ {0}
           /\ Head(q) = q[1]
           /\ Head(q) \in S
           /\ \A i \in 1..Len(Tail(q)) : Tail(q)[i] = q[i + 1]
OBVIOUS

\* A report and a request are messages, a decision and an assignment are mail.
LEMMA MessageFacts ==
    /\ \A k \in Kinds : /\ Report(k) \in Messages /\ Report(k).kind = k
    /\ \A r \in Requests : /\ Message("ask", r) \in Messages
                           /\ Message("ask", r).kind = "ask"
                           /\ Message("ask", r).request = r
    /\ \A r \in Requests, a \in Decided :
           /\ Result(r, a) \in Results /\ Result(r, a) # Assignment
           /\ Result(r, a).request = r /\ Result(r, a).answer = a
    /\ \A x \in Results : x # Assignment
BY Bounds DEF Report, Message, Messages, Kinds, Result, Results, Assignment, NoRequest

-----------------------------------------------------------------------------
(* Types and rows                                                          *)

Statuses == Active \cup {"queued", "failed", "waiting_approval"}

\* Who leaves the job and the task alone.
LEMMA JobFrame ==
    ASSUME Next
    PROVE  \/ UNCHANGED <<job, task>>
           \/ LeaseRunsOut \/ RecoverExpired \/ Lease \/ Assign \/ HandleFirst \/ HandleSecond
           \/ \E d \in Deciders : WriteStatus(d) \/ WriteJob(d)
BY DEF Next, SessionStep, DeciderStep, RunnerReads, Connect, ListUnsent, MarkSent, CheckActive,
   SendResult, Receive, Acknowledge, Resolve, ReadAssign, ReadResult, Ask, Progress, EndTask,
   RestartRunner, RestartServer, tables

\* Every step leaves a job and a status the tables can hold, and a job that can be
\* leased again has attempts left.
LEMMA NextKeepsJob ==
    ASSUME PermissionInv, Next
    PROVE  /\ task' \in Statuses /\ job' \in JobRow
           /\ job'.due => job'.status = "leased"
           /\ job'.status = "pending" \/ job'.due => job'.attempts < MaxLeases
<1> USE DEF PermissionInv
<1>0. /\ task \in Statuses /\ job \in JobRow
      /\ job.due => job.status = "leased"
      /\ job.status = "pending" \/ job.due => job.attempts < MaxLeases
  BY DEF TypeOK, Rows, Statuses, JobRow
<1>1. CASE UNCHANGED <<job, task>> BY <1>0, <1>1
<1>2. CASE LeaseRunsOut
  <2>1. /\ job' = [job EXCEPT !.due = TRUE] /\ task' = task
        /\ job.status = "leased" /\ job.attempts < MaxLeases
    BY <1>2 DEF LeaseRunsOut, Leased
  <2>2. /\ job' \in JobRow /\ job'.status = "leased" /\ job'.attempts = job.attempts
    BY <1>0, <2>1 DEF JobRow
  <2> QED BY <1>0, <2>1, <2>2
<1>3. CASE RecoverExpired
  <2>1. job' = RecoveredJob /\ task' = RecoveredTask BY <1>3 DEF RecoverExpired
  <2>2. CASE job.due
    BY <1>0, <2>1, <2>2, RecoveredFacts DEF Statuses
  <2>3. CASE ~job.due
    BY <1>0, <2>1, <2>3, RecoveredFacts
  <2> QED BY <2>2, <2>3
<1>4. CASE Lease
  <2>1. task' = RecoveredTask BY <1>4 DEF Lease
  <2>2. task' \in Statuses BY <1>0, <2>1, RecoveredFacts DEF Statuses
  <2>3. /\ RecoveredJob \in JobRow /\ ~RecoveredJob.due
        /\ RecoveredJob.status = "pending" => RecoveredJob.attempts < MaxLeases
    BY <1>0, RecoveredFacts
  <2>4. CASE RecoveredJob.status = "pending"
    <3>1. job' = [RecoveredJob EXCEPT !.status = "leased", !.attempts = @ + 1]
      BY <1>4, <2>4 DEF Lease
    <3>2. RecoveredJob.attempts + 1 \in 0..MaxLeases BY <2>3, <2>4, Bounds DEF JobRow
    <3>3. \A j \in JobRow, a \in 0..MaxLeases :
              LET k == [j EXCEPT !.status = "leased", !.attempts = a] IN
              k \in JobRow /\ k.status = "leased" /\ k.due = j.due
      BY DEF JobRow
    <3>4. job' = [RecoveredJob EXCEPT !.status = "leased", !.attempts = RecoveredJob.attempts + 1]
      BY <2>3, <3>1 DEF JobRow
    <3>5. job' \in JobRow /\ job'.status = "leased" /\ job'.due = RecoveredJob.due
      BY <2>3, <3>2, <3>3, <3>4
    <3> QED BY <2>2, <2>3, <3>5
  <2>5. CASE RecoveredJob.status # "pending"
    <3>1. job' = RecoveredJob BY <1>4, <2>5 DEF Lease
    <3> QED BY <2>2, <2>3, <2>5, <3>1
  <2> QED BY <2>4, <2>5
<1>5. CASE Assign
  BY <1>0, <1>5 DEF Assign, Statuses, Active
<1>6. CASE HandleFirst
  <2>1. job' = Renewed \/ job' = job BY <1>6 DEF HandleFirst
  <2>2. task' \in {"wait_permission", "waiting_approval", "failed", task}
    <3>1. CASE gw.msg.kind = "ask" BY <1>6, <3>1, Zenon DEF HandleFirst
    <3>2. CASE gw.msg.kind = "completed" BY <1>6, <3>2, Zenon DEF HandleFirst
    <3>3. CASE gw.msg.kind = "failed" BY <1>6, <3>3, Zenon DEF HandleFirst
    <3>4. CASE gw.msg.kind \notin {"ask", "completed", "failed"}
      BY <1>6, <3>4, Zenon DEF HandleFirst
    <3> QED BY <3>1, <3>2, <3>3, <3>4
  <2>3. task' \in Statuses BY <1>0, <2>2 DEF Statuses, Active
  <2>4. CASE job' = job BY <1>0, <2>3, <2>4
  <2>5. CASE job' = Renewed BY <1>0, <2>3, <2>5, JobFacts
  <2> QED BY <2>1, <2>4, <2>5
<1>7. CASE HandleSecond
  <2>1. \/ job' = job
        \/ job' = Completed("completed")
        \/ job' = Completed("failed")
        \/ job' = Pending(job) /\ Retries
    <3>1. CASE gw.msg.kind = "completed" BY <1>7, <3>1, Zenon DEF HandleSecond
    <3>2. CASE gw.msg.kind = "failed"
      <4>1. job' = IF Retries THEN Pending(job) ELSE Completed("failed")
        BY <1>7, <3>2, Zenon DEF HandleSecond
      <4> QED BY <4>1
    <3>3. CASE gw.msg.kind \notin {"completed", "failed"} BY <1>7, <3>3, Zenon DEF HandleSecond
    <3> QED BY <3>1, <3>2, <3>3
  <2>2. task' \in {"accepted", "running", "queued", task}
    <3>1. CASE gw.msg.kind = "accepted" BY <1>7, <3>1, Zenon DEF HandleSecond
    <3>2. CASE gw.msg.kind = "progress" BY <1>7, <3>2, Zenon DEF HandleSecond
    <3>3. CASE gw.msg.kind = "failed" /\ Retries BY <1>7, <3>3, Zenon DEF HandleSecond
    <3>4. CASE gw.msg.kind \notin {"accepted", "progress"} /\ ~(gw.msg.kind = "failed" /\ Retries)
      BY <1>7, <3>4, Zenon DEF HandleSecond
    <3> QED BY <3>1, <3>2, <3>3, <3>4
  <2>3. task' \in Statuses BY <1>0, <2>2 DEF Statuses, Active
  <2>4. CASE job' = job BY <1>0, <2>3, <2>4
  <2>5. ASSUME NEW s \in {"completed", "failed"}, job' = Completed(s)
        PROVE  /\ job' \in JobRow /\ (job'.due => job'.status = "leased")
               /\ (job'.status = "pending" \/ job'.due => job'.attempts < MaxLeases)
    <3>1. CASE Leased BY <1>0, <2>5, <3>1, JobFacts
    <3>2. CASE ~Leased BY <1>0, <2>5, <3>2, JobFacts
    <3> QED BY <3>1, <3>2
  <2>6. CASE job' = Pending(job) /\ Retries
    <3>1. job.attempts < MaxLeases
      BY <1>0, <2>6, Bounds DEF Retries, JobRow
    <3> QED BY <1>0, <2>3, <2>6, <3>1, JobFacts
  <2> QED BY <2>1, <2>3, <2>4, <2>5, <2>6
<1>8. ASSUME NEW d \in Deciders, WriteStatus(d)
      PROVE  task' \in Statuses /\ job' = job
  BY <1>8 DEF WriteStatus, Statuses, Active
<1>9. ASSUME NEW d \in Deciders, WriteJob(d)
      PROVE  /\ task' \in Statuses /\ job' \in JobRow
             /\ job'.due => job'.status = "leased"
             /\ job'.status = "pending" \/ job'.due => job'.attempts < MaxLeases
  <2>1. (job' = Renewed \/ job' = Completed("failed")) /\ task' = task BY <1>9 DEF WriteJob
  <2>2. CASE job' = Renewed BY <1>0, <2>1, <2>2, JobFacts
  <2>3. CASE job' = Completed("failed")
    <3>1. CASE Leased BY <1>0, <2>1, <2>3, <3>1, JobFacts
    <3>2. CASE ~Leased BY <1>0, <2>1, <2>3, <3>2, JobFacts
    <3> QED BY <3>1, <3>2
  <2> QED BY <2>1, <2>2, <2>3
<1> QED BY <1>0, <1>1, <1>2, <1>3, <1>4, <1>5, <1>6, <1>7, <1>8, <1>9, JobFrame

\* Who leaves the permission requests alone.
LEMMA PermFrame ==
    ASSUME Next
    PROVE  \/ UNCHANGED <<perm, sent, dec>>
           \/ MarkSent /\ UNCHANGED <<perm, dec>>
           \/ HandleSecond /\ UNCHANGED <<sent, dec>>
           \/ \E d \in Deciders, r \in Requests, answer \in Decided : Resolve(d, r, answer)
           \/ \E d \in Deciders : DeciderStep(d) /\ UNCHANGED <<perm, sent>>
           \/ RestartServer /\ UNCHANGED <<perm, sent>>
BY DEF Next, SessionStep, DeciderStep, RunnerReads, LeaseRunsOut, Connect, RecoverExpired, ListUnsent,
   MarkSent, CheckActive, Lease, Assign, SendResult, Receive, HandleFirst, HandleSecond, Acknowledge,
   WriteStatus, WriteJob, ReadAssign, ReadResult, Ask, Progress, EndTask, RestartRunner,
   RestartServer, tables

\* A row is created once and decided once: what is decided stays decided.
LEMMA PermGrows ==
    ASSUME PermissionInv, Next
    PROVE  /\ perm' \in [Requests -> Decided \cup {"none", "pending"}]
           /\ \A r \in Requests : perm[r] \in Decided => perm'[r] = perm[r]
           /\ \A r \in Requests : perm'[r] = "none" => perm[r] = "none"
<1> USE DEF PermissionInv
<1>0. perm \in [Requests -> Decided \cup {"none", "pending"}] /\ "pending" \notin Decided
      /\ "none" \notin Decided
  BY DEF TypeOK, Decided
<1>1. CASE UNCHANGED perm BY <1>0, <1>1
<1>2. CASE HandleSecond
  <2>1. perm' = perm \/ perm' = Created(gw.msg.request) BY <1>2 DEF HandleSecond
  <2> QED BY <1>0, <2>1 DEF Created
<1>3. ASSUME NEW d \in Deciders, NEW r \in Requests, NEW answer \in Decided, Resolve(d, r, answer)
      PROVE  /\ perm' \in [Requests -> Decided \cup {"none", "pending"}]
             /\ \A q \in Requests : perm[q] \in Decided => perm'[q] = perm[q]
             /\ \A q \in Requests : perm'[q] = "none" => perm[q] = "none"
  BY <1>0, <1>3 DEF Resolve, Open
<1> QED BY <1>1, <1>2, <1>3, PermFrame

\* Every step leaves rows and handlers well formed.
LEMMA NextKeepsPerm ==
    ASSUME PermissionInv, Next
    PROVE  /\ sent' \subseteq {r \in Requests : perm'[r] \in Decided}
           /\ dec' \in [Deciders -> Decision]
<1> USE DEF PermissionInv
<1>0. /\ sent \subseteq {r \in Requests : perm[r] \in Decided} /\ dec \in [Deciders -> Decision]
      /\ NotDeciding \in Decision
  BY DEF TypeOK, NotDeciding, Decision
<1>1. CASE UNCHANGED <<sent, dec>> BY <1>0, <1>1, PermGrows
<1>2. CASE MarkSent
  <2>1. sent' = sent \cup {gw.current} /\ UNCHANGED <<dec, perm>> BY <1>2 DEF MarkSent
  <2>2. gw.current \in {r \in Requests : perm[r] \in Decided} BY <1>2 DEF MarkSent, Rows
  <2> QED BY <1>0, <2>1, <2>2
<1>3. ASSUME NEW d \in Deciders, NEW r \in Requests, NEW answer \in Decided, Resolve(d, r, answer)
      PROVE  /\ sent' \subseteq {q \in Requests : perm'[q] \in Decided}
             /\ dec' \in [Deciders -> Decision]
  <2>1. [pc |-> "status", request |-> r, answer |-> answer] \in Decision BY DEF Decision
  <2>2. dec' \in [Deciders -> Decision] BY <1>0, <1>3, <2>1 DEF Resolve
  <2>3. sent' \subseteq sent BY <1>3 DEF Resolve
  <2> QED BY <1>0, <2>2, <2>3, PermGrows
<1>4. ASSUME NEW d \in Deciders, DeciderStep(d), UNCHANGED <<perm, sent>>
      PROVE  /\ sent' \subseteq {q \in Requests : perm'[q] \in Decided}
             /\ dec' \in [Deciders -> Decision]
  <2>1. \/ dec' = [dec EXCEPT ![d] = NotDeciding]
        \/ dec' = [dec EXCEPT ![d] = [dec[d] EXCEPT !.pc = "job"]]
    BY <1>0, <1>4 DEF DeciderStep, WriteStatus, WriteJob
  <2>2. [dec[d] EXCEPT !.pc = "job"] \in Decision BY <1>0 DEF Decision
  <2> QED BY <1>0, <1>4, <2>1, <2>2
<1>5. CASE RestartServer /\ UNCHANGED <<perm, sent>>
  <2>1. dec' = [d \in Deciders |-> NotDeciding] BY <1>5 DEF RestartServer
  <2> QED BY <1>0, <1>5, <2>1
<1> QED BY <1>1, <1>2, <1>3, <1>4, <1>5, PermFrame

\* Where the gateway goes.
LEMMA GatewayMoves ==
    ASSUME PermissionInv, Next
    PROVE  \/ UNCHANGED gw
           \/ \E pc \in Pcs \ {"first", "second", "mark"} : gw' = At(pc)
           \/ ListUnsent /\ Unsent # {} /\ gw' = [At("send") EXCEPT !.todo = Unsent]
           \/ \E r \in Requests : SendResult(r) /\ gw' = [gw EXCEPT !.pc = "mark", !.current = r]
           \/ MarkSent /\ gw' = [At("send") EXCEPT !.todo = gw.todo \ {gw.current}]
           \/ Receive /\ inbox # <<>> /\ gw' = [At("first") EXCEPT !.msg = Head(inbox)]
                      /\ inbox' = Tail(inbox)
           \/ HandleFirst /\ gw' = [gw EXCEPT !.pc = "second"]
<1>1. SessionStep => \/ \E pc \in Pcs \ {"first", "second", "mark"} : gw' = At(pc)
                     \/ ListUnsent /\ Unsent # {} /\ gw' = [At("send") EXCEPT !.todo = Unsent]
                     \/ \E r \in Requests : SendResult(r) /\ gw' = [gw EXCEPT !.pc = "mark", !.current = r]
                     \/ MarkSent /\ gw' = [At("send") EXCEPT !.todo = gw.todo \ {gw.current}]
                     \/ Receive /\ inbox # <<>> /\ gw' = [At("first") EXCEPT !.msg = Head(inbox)]
                                /\ inbox' = Tail(inbox)
                     \/ HandleFirst /\ gw' = [gw EXCEPT !.pc = "second"]
  <2>1. Connect \/ RecoverExpired \/ CheckActive \/ Lease \/ Assign \/ HandleSecond \/ Acknowledge
          => \E pc \in Pcs \ {"first", "second", "mark"} : gw' = At(pc)
    BY DEF Connect, RecoverExpired, CheckActive, Lease, Assign, HandleSecond, Acknowledge, Breaks, Pcs
  <2>2. ListUnsent => \/ gw' = At("active")
                      \/ Unsent # {} /\ gw' = [At("send") EXCEPT !.todo = Unsent]
    BY DEF ListUnsent
  <2>3. MarkSent => \/ gw' = At("active")
                    \/ gw' = [At("send") EXCEPT !.todo = gw.todo \ {gw.current}]
    BY DEF MarkSent
  <2>4. \A r \in Requests : SendResult(r) =>
            gw' = At("down") \/ gw' = [gw EXCEPT !.pc = "mark", !.current = r]
    BY DEF SendResult, Breaks
  <2>5. Receive => \/ gw' = At("recover") \/ gw' = At("down")
                   \/ /\ inbox # <<>> /\ gw' = [At("first") EXCEPT !.msg = Head(inbox)]
                      /\ inbox' = Tail(inbox)
    BY DEF Receive, Breaks
  <2>6. HandleFirst => gw' = [gw EXCEPT !.pc = "second"] BY DEF HandleFirst
  <2>7. {"active", "down", "recover"} \subseteq Pcs \ {"first", "second", "mark"} BY DEF Pcs
  <2> HIDE DEF SessionStep
  <2> QED BY <2>1, <2>2, <2>3, <2>4, <2>5, <2>6, <2>7, Zenon DEF SessionStep
<1>2. RestartServer => gw' = At("down") BY DEF RestartServer
<1>3. LeaseRunsOut \/ RunnerReads \/ Ask \/ Progress \/ RestartRunner => UNCHANGED gw
  BY DEF LeaseRunsOut, RunnerReads, ReadAssign, ReadResult, Ask, Progress, RestartRunner
<1>4. \A o : EndTask(o) => UNCHANGED gw BY DEF EndTask
<1>5. \A d, r, a : Resolve(d, r, a) \/ DeciderStep(d) => UNCHANGED gw
  BY DEF Resolve, DeciderStep, WriteStatus, WriteJob
<1>6. "down" \in Pcs \ {"first", "second", "mark"} BY DEF Pcs
<1> QED BY <1>1, <1>2, <1>3, <1>4, <1>5, <1>6 DEF Next

\* The gateway keeps its type, and what it sends and marks is decided.
LEMMA NextKeepsGateway ==
    ASSUME PermissionInv, Next
    PROVE  /\ gw' \in Gateway
           /\ gw'.pc \in {"first", "second"} => gw'.msg \in Messages
           /\ gw'.todo \subseteq {r \in Requests : perm'[r] \in Decided}
           /\ gw'.pc = "mark" => gw'.current \in {r \in Requests : perm'[r] \in Decided}
<1> USE DEF PermissionInv
<1>0. gw \in Gateway BY DEF TypeOK
<1>1. CASE UNCHANGED gw BY <1>0, <1>1, PermGrows DEF Rows
<1>2. ASSUME NEW pc \in Pcs \ {"first", "second", "mark"}, gw' = At(pc)
      PROVE  /\ gw' \in Gateway /\ gw'.todo = {}
             /\ gw'.pc \notin {"first", "second", "mark"}
  BY <1>2, AtFacts
<1>3. ASSUME NEW S \in SUBSET {r \in Requests : perm[r] \in Decided}, gw' = [At("send") EXCEPT !.todo = S]
      PROVE  /\ gw' \in Gateway /\ gw'.todo = S /\ gw'.pc = "send"
  BY <1>3, AtFacts DEF Pcs
<1>4. Unsent \in SUBSET {r \in Requests : perm[r] \in Decided} BY DEF Unsent
<1>5. gw.todo \ {gw.current} \in SUBSET {r \in Requests : perm[r] \in Decided} BY DEF Rows
<1>6. ASSUME NEW r \in Requests, SendResult(r), gw' = [gw EXCEPT !.pc = "mark", !.current = r]
      PROVE  /\ gw' \in Gateway /\ gw'.todo = gw.todo /\ gw'.pc = "mark" /\ gw'.current = r
             /\ perm[r] \in Decided
  <2>1. gw' \in Gateway /\ gw'.todo = gw.todo /\ gw'.pc = "mark" /\ gw'.current = r
    BY <1>0, <1>6 DEF Gateway
  <2>2. perm[r] \in Decided BY <1>6 DEF SendResult, Rows
  <2> QED BY <2>1, <2>2
<1>7. ASSUME inbox # <<>>, gw' = [At("first") EXCEPT !.msg = Head(inbox)]
      PROVE  gw' \in Gateway /\ gw'.todo = {} /\ gw'.pc = "first" /\ gw'.msg \in Messages
  <2>1. Head(inbox) \in Messages BY <1>7, TailFacts DEF TypeOK
  <2> QED BY <1>7, <2>1, AtFacts DEF Pcs
<1>8. ASSUME HandleFirst, gw' = [gw EXCEPT !.pc = "second"]
      PROVE  gw' \in Gateway /\ gw'.todo = gw.todo /\ gw'.pc = "second" /\ gw'.msg \in Messages
  <2>1. gw' \in Gateway /\ gw'.todo = gw.todo /\ gw'.pc = "second" /\ gw'.msg = gw.msg
    BY <1>0, <1>8 DEF Gateway
  <2>2. gw.msg \in Messages BY <1>8 DEF HandleFirst, Rows
  <2> QED BY <2>1, <2>2
<1>9. \A S \in SUBSET {r \in Requests : perm[r] \in Decided} :
          S \subseteq {r \in Requests : perm'[r] \in Decided}
  BY PermGrows
<1>10. gw.todo \in SUBSET {r \in Requests : perm[r] \in Decided} BY DEF Rows
<1>11. CASE \E pc \in Pcs \ {"first", "second", "mark"} : gw' = At(pc) BY <1>2, <1>11
<1>12. CASE gw' = [At("send") EXCEPT !.todo = Unsent] BY <1>3, <1>4, <1>9, <1>12
<1>13. CASE gw' = [At("send") EXCEPT !.todo = gw.todo \ {gw.current}] BY <1>3, <1>5, <1>9, <1>13
<1>14. CASE \E r \in Requests : SendResult(r) /\ gw' = [gw EXCEPT !.pc = "mark", !.current = r]
  BY <1>6, <1>9, <1>10, <1>14, PermGrows
<1>15. CASE inbox # <<>> /\ gw' = [At("first") EXCEPT !.msg = Head(inbox)] BY <1>7, <1>15
<1>16. CASE HandleFirst /\ gw' = [gw EXCEPT !.pc = "second"] BY <1>8, <1>9, <1>10, <1>16
<1> QED BY <1>1, <1>11, <1>12, <1>13, <1>14, <1>15, <1>16, GatewayMoves

\* What happens to the runner's messages.
LEMMA MessageMoves ==
    ASSUME PermissionInv, Next
    PROVE  \/ UNCHANGED <<inbox, asked>>
           \/ /\ UNCHANGED <<asked, run, mail, perm, dec>>
              /\ gw.pc = "receive" /\ inbox # <<>> /\ inbox' = Tail(inbox)
              /\ gw' = [At("first") EXCEPT !.msg = Head(inbox)]
           \/ \E k \in Kinds \ {"ask"} :
                 UNCHANGED <<asked, gw, perm, dec>> /\ inbox' = Append(inbox, Report(k))
           \/ Ask
<1>1. Receive => \/ UNCHANGED <<inbox, asked>>
                 \/ /\ UNCHANGED <<asked, run, mail, perm, dec>>
                    /\ gw.pc = "receive" /\ inbox # <<>> /\ inbox' = Tail(inbox)
                    /\ gw' = [At("first") EXCEPT !.msg = Head(inbox)]
  BY DEF Receive, tables
<1>2. ReadAssign \/ Progress \/ (\E o \in {"completed", "failed"} : EndTask(o)) =>
          \E k \in Kinds \ {"ask"} :
              UNCHANGED <<asked, gw, perm, dec>> /\ inbox' = Append(inbox, Report(k))
  BY DEF ReadAssign, Progress, EndTask, Says, Kinds, tables
<1>3. Connect \/ RecoverExpired \/ ListUnsent \/ MarkSent \/ CheckActive \/ Lease \/ Assign
      \/ HandleFirst \/ HandleSecond \/ Acknowledge \/ LeaseRunsOut \/ ReadResult \/ RestartRunner
      \/ RestartServer => UNCHANGED <<inbox, asked>>
  BY DEF Connect, RecoverExpired, ListUnsent, MarkSent, CheckActive, Lease, Assign, HandleFirst,
     HandleSecond, Acknowledge, LeaseRunsOut, ReadResult, RestartRunner, RestartServer, runner
<1>4. \A r, d, a : SendResult(r) \/ DeciderStep(d) \/ Resolve(d, r, a) => UNCHANGED <<inbox, asked>>
  BY DEF SendResult, DeciderStep, WriteStatus, WriteJob, Resolve, runner
<1> QED BY <1>1, <1>2, <1>3, <1>4 DEF Next, SessionStep, RunnerReads

\* Requests have fresh numbers.
LEMMA AskFacts ==
    ASSUME PermissionInv, Ask
    PROVE  /\ asked \in Nat /\ asked' = asked + 1 /\ asked' \in Requests
           /\ run = Working /\ run' = [at |-> "waiting", request |-> asked']
           /\ inbox' = Append(inbox, Message("ask", asked'))
           /\ UNCHANGED <<tables, gw, dec, mail, reports, faults, history>>
           /\ perm[asked'] = "none"
<1> USE DEF PermissionInv
<1>1. asked \in 0..MaxRequests /\ asked < MaxRequests /\ asked' = asked + 1
  BY DEF Ask, TypeOK
<1>2. asked \in Nat /\ asked' \in Requests BY <1>1, Bounds DEF Requests
<1>3. perm[asked'] = "none" BY <1>1, <1>2 DEF Rows
<1> QED BY <1>1, <1>2, <1>3 DEF Ask, Says

Waits == {[at |-> "waiting", request |-> r] : r \in Requests}

\* Every step leaves the runner and its messages well formed.
LEMMA NextKeepsRunner ==
    ASSUME PermissionInv, Next
    PROVE  /\ run' \in {Stopped, Working} \cup Waits
           /\ inbox' \in Seq(Messages) /\ asked' \in 0..MaxRequests
           /\ \A r \in Requests : r > asked' => perm'[r] = "none"
<1> USE DEF PermissionInv
<1>0. run \in {Stopped, Working} \cup Waits /\ inbox \in Seq(Messages) /\ asked \in 0..MaxRequests
  BY DEF Rows, TypeOK, Waits
<1>1. run' \in {Stopped, Working} \cup Waits
  <2>1. CASE ReadAssign BY <1>0, <2>1 DEF ReadAssign
  <2>2. CASE ReadResult
    <3>1. run' \in {run, Working, Stopped} BY <2>2 DEF ReadResult
    <3> QED BY <1>0, <3>1
  <2>3. CASE Ask BY <2>3, AskFacts DEF Waits
  <2>4. CASE \E o \in {"completed", "failed"} : EndTask(o) BY <2>4 DEF EndTask
  <2>5. CASE RestartRunner BY <2>5 DEF RestartRunner
  <2>6. CASE SessionStep \/ LeaseRunsOut \/ Progress \/ RestartServer
    BY <1>0, <2>6 DEF SessionStep, Connect, RecoverExpired, ListUnsent, MarkSent, CheckActive, Lease,
       Assign, SendResult, Receive, HandleFirst, HandleSecond, Acknowledge, LeaseRunsOut, Progress,
       RestartServer, runner
  <2>7. \A d, r, a : DeciderStep(d) \/ Resolve(d, r, a) => UNCHANGED run
    BY DEF DeciderStep, WriteStatus, WriteJob, Resolve, runner
  <2> QED BY <1>0, <2>1, <2>2, <2>3, <2>4, <2>5, <2>6, <2>7 DEF Next, RunnerReads
<1>2. inbox' \in Seq(Messages) /\ asked' \in 0..MaxRequests /\ asked <= asked'
  <2>1. CASE UNCHANGED <<inbox, asked>> BY <1>0, <2>1, Bounds
  <2>2. CASE inbox # <<>> /\ inbox' = Tail(inbox) /\ UNCHANGED asked
    BY <1>0, <2>2, TailFacts, Bounds
  <2>3. CASE \E k \in Kinds \ {"ask"} : UNCHANGED asked /\ inbox' = Append(inbox, Report(k))
    BY <1>0, <2>3, AppendFacts, MessageFacts, Bounds
  <2>4. CASE Ask
    <3>1. Message("ask", asked') \in Messages BY <2>4, AskFacts, MessageFacts
    <3>2. inbox' \in Seq(Messages) BY <1>0, <2>4, <3>1, AskFacts, AppendFacts
    <3>3. asked' \in 0..MaxRequests /\ asked <= asked' BY <2>4, AskFacts, Bounds DEF Requests
    <3> QED BY <3>2, <3>3
  <2> QED BY <2>1, <2>2, <2>3, <2>4, MessageMoves
<1>3. \A r \in Requests : r > asked' => perm'[r] = "none"
  <2>0. \A r \in Requests : r > asked' => r > asked BY <1>0, <1>2, Bounds
  <2>1. CASE UNCHANGED perm BY <2>0, <2>1 DEF Rows
  <2>2. CASE HandleSecond
    <3>1. perm' = perm \/ (gw.msg.kind = "ask" /\ perm' = Created(gw.msg.request))
      BY <2>2 DEF HandleSecond
    <3>2. gw.msg.kind = "ask" => gw.msg.request \in 1..asked
      BY <2>2 DEF HandleSecond, Asked, Handling, Asks
    <3>3. \A r \in Requests : r > asked' /\ gw.msg.kind = "ask" => r # gw.msg.request
      BY <1>0, <2>0, <3>2, Bounds
    <3> QED BY <2>0, <3>1, <3>3 DEF Rows, Created, TypeOK
  <2>3. ASSUME NEW d \in Deciders, NEW q \in Requests, NEW a \in Decided, Resolve(d, q, a)
        PROVE  \A r \in Requests : r > asked' => perm'[r] = "none"
    <3>1. perm[q] = "pending" /\ perm' = [perm EXCEPT ![q] = a] BY <2>3 DEF Resolve, Open
    <3> QED BY <2>0, <3>1 DEF Rows, TypeOK
  <2> QED BY <2>1, <2>2, <2>3, PermFrame
<1> QED BY <1>1, <1>2, <1>3

\* Every step leaves only decisions and assignments in the mail, and the decisions are
\* those of the rows.
LEMMA NextKeepsMail ==
    ASSUME PermissionInv, Next
    PROVE  /\ mail' \in Seq(Results \cup {Assignment})
           /\ \A i \in 1..Len(mail') :
                  mail'[i] # Assignment => perm'[mail'[i].request] = mail'[i].answer
<1> USE DEF PermissionInv
<1>0. /\ mail \in Seq(Results \cup {Assignment}) /\ Len(mail) \in Nat
      /\ \A i \in 1..Len(mail) :
             mail[i] # Assignment => perm'[mail[i].request] = mail[i].answer
  <2>1. mail \in Seq(Results \cup {Assignment}) BY DEF TypeOK
  <2>2. ASSUME NEW i \in 1..Len(mail), mail[i] # Assignment
        PROVE  perm'[mail[i].request] = mail[i].answer
    <3>1. mail[i] \in Results BY <2>1, <2>2
    <3>2. mail[i].request \in Requests /\ mail[i].answer \in Decided BY <3>1 DEF Results
    <3>3. perm[mail[i].request] = mail[i].answer BY <2>2 DEF Decisions
    <3> QED BY <3>2, <3>3, PermGrows
  <2> QED BY <2>1, <2>2
<1>1. CASE UNCHANGED mail BY <1>0, <1>1
<1>2. CASE ReadAssign \/ ReadResult
  <2>1. mail # <<>> /\ mail' = Tail(mail) BY <1>2 DEF ReadAssign, ReadResult
  <2>2. /\ mail' \in Seq(Results \cup {Assignment})
        /\ Len(mail') = Len(mail) - 1 /\ \A i \in 1..Len(mail') : mail'[i] = mail[i + 1]
    BY <1>0, <2>1, TailFacts
  <2>3. \A i \in 1..Len(mail') : i + 1 \in 1..Len(mail) BY <1>0, <2>2
  <2> QED BY <1>0, <2>2, <2>3
<1>3. ASSUME NEW r \in Requests, SendResult(r)
      PROVE  /\ mail' \in Seq(Results \cup {Assignment})
             /\ \A i \in 1..Len(mail') :
                    mail'[i] # Assignment => perm'[mail'[i].request] = mail'[i].answer
  <2>1. mail' = Append(mail, Result(r, perm[r])) BY <1>3 DEF SendResult
  <2>2. perm[r] \in Decided BY <1>3 DEF SendResult, Rows
  <2> DEFINE e == Result(r, perm[r])
  <2>3. e \in Results /\ e.request = r /\ e.answer = perm[r] BY <2>2, MessageFacts
  <2>4. perm'[e.request] = e.answer BY <2>2, <2>3, PermGrows
  <2> HIDE DEF e
  <2>5. /\ mail' \in Seq(Results \cup {Assignment}) /\ Len(mail') = Len(mail) + 1
        /\ \A i \in 1..Len(mail) : mail'[i] = mail[i]
        /\ mail'[Len(mail) + 1] = e
    BY <1>0, <2>1, <2>3, AppendFacts DEF e
  <2>6. \A i \in 1..Len(mail') : i \in 1..Len(mail) \/ i = Len(mail) + 1 BY <1>0, <2>5
  <2> QED BY <1>0, <2>4, <2>5, <2>6
<1>4. CASE Assign
  <2>1. mail' = Append(mail, Assignment) BY <1>4 DEF Assign
  <2>2. /\ mail' \in Seq(Results \cup {Assignment}) /\ Len(mail') = Len(mail) + 1
        /\ \A i \in 1..Len(mail) : mail'[i] = mail[i]
        /\ mail'[Len(mail) + 1] = Assignment
    BY <1>0, <2>1, AppendFacts
  <2>3. \A i \in 1..Len(mail') : i \in 1..Len(mail) \/ i = Len(mail) + 1 BY <1>0, <2>2
  <2> QED BY <1>0, <2>2, <2>3
<1>5. Connect \/ RecoverExpired \/ ListUnsent \/ MarkSent \/ CheckActive \/ Lease \/ Receive
      \/ HandleFirst \/ HandleSecond \/ Acknowledge \/ LeaseRunsOut \/ Ask \/ Progress
      \/ RestartRunner \/ RestartServer => UNCHANGED mail
  BY DEF Connect, RecoverExpired, ListUnsent, MarkSent, CheckActive, Lease, Receive, HandleFirst,
     HandleSecond, Acknowledge, LeaseRunsOut, Ask, Progress, RestartRunner, RestartServer, runner
<1>6. \A d, r, a, o : DeciderStep(d) \/ Resolve(d, r, a) \/ EndTask(o) => UNCHANGED mail
  BY DEF DeciderStep, WriteStatus, WriteJob, Resolve, EndTask, runner
<1> QED BY <1>1, <1>2, <1>3, <1>4, <1>5, <1>6 DEF Next, SessionStep, RunnerReads

\* Counters stay within their bounds, histories are Booleans.
LEMMA NextKeepsCounters ==
    ASSUME PermissionInv, Next
    PROVE  /\ reports' \in 0..MaxReports /\ faults' \in 0..MaxFaults
           /\ lapsed' \in BOOLEAN /\ overtaken' \in BOOLEAN /\ torn' \in BOOLEAN
<1> USE DEF PermissionInv
<1>0. /\ reports \in 0..MaxReports /\ faults \in 0..MaxFaults
      /\ lapsed \in BOOLEAN /\ overtaken \in BOOLEAN /\ torn \in BOOLEAN
  BY DEF TypeOK
<1>1. reports' \in 0..MaxReports
  <2>1. CASE Progress BY <1>0, <2>1, Bounds DEF Progress
  <2>2. CASE UNCHANGED reports BY <1>0, <2>2
  <2>3. SessionStep \/ LeaseRunsOut \/ RunnerReads \/ Ask \/ RestartRunner \/ RestartServer
          => UNCHANGED reports
    BY DEF SessionStep, Connect, RecoverExpired, ListUnsent, MarkSent, CheckActive, Lease,
       Assign, SendResult, Receive, HandleFirst, HandleSecond, Acknowledge, LeaseRunsOut,
       RunnerReads, ReadAssign, ReadResult, Ask, RestartRunner, RestartServer, runner
  <2>4. \A d, r, a, o : DeciderStep(d) \/ Resolve(d, r, a) \/ EndTask(o) => UNCHANGED reports
    BY DEF DeciderStep, WriteStatus, WriteJob, Resolve, EndTask, runner
  <2> QED BY <2>1, <2>2, <2>3, <2>4 DEF Next
<1>2. faults' \in 0..MaxFaults
  <2>1. CASE faults < MaxFaults /\ faults' = faults + 1 BY <1>0, <2>1, Bounds
  <2>2. CASE UNCHANGED faults BY <1>0, <2>2
  <2>3. SessionStep \/ LeaseRunsOut \/ RunnerReads \/ Ask \/ Progress \/ RestartRunner \/ RestartServer
          => UNCHANGED faults \/ (faults < MaxFaults /\ faults' = faults + 1)
    BY DEF SessionStep, Connect, RecoverExpired, ListUnsent, MarkSent, CheckActive, Lease,
       Assign, SendResult, Receive, HandleFirst, HandleSecond, Acknowledge, Breaks, LeaseRunsOut,
       RunnerReads, ReadAssign, ReadResult, Ask, Progress, RestartRunner, RestartServer
  <2>4. \A d, r, a, o : DeciderStep(d) \/ Resolve(d, r, a) \/ EndTask(o) => UNCHANGED faults
    BY DEF DeciderStep, WriteStatus, WriteJob, Resolve, EndTask
  <2> QED BY <2>1, <2>2, <2>3, <2>4 DEF Next
<1>3. lapsed' \in BOOLEAN /\ overtaken' \in BOOLEAN /\ torn' \in BOOLEAN
  <2>1. SessionStep => lapsed' \in BOOLEAN /\ overtaken' \in BOOLEAN /\ torn' \in BOOLEAN
    BY <1>0 DEF SessionStep, Connect, RecoverExpired, ListUnsent, MarkSent, CheckActive, Lease,
       Assign, SendResult, Receive, HandleFirst, HandleSecond, Acknowledge, history
  <2>2. RestartServer => lapsed' \in BOOLEAN /\ overtaken' \in BOOLEAN /\ torn' \in BOOLEAN
    BY <1>0 DEF RestartServer
  <2>3. LeaseRunsOut \/ RunnerReads \/ Ask \/ Progress \/ RestartRunner => UNCHANGED history
    BY DEF LeaseRunsOut, RunnerReads, ReadAssign, ReadResult, Ask, Progress, RestartRunner
  <2>4. \A d, r, a, o : DeciderStep(d) \/ Resolve(d, r, a) \/ EndTask(o) => UNCHANGED history
    BY DEF DeciderStep, WriteStatus, WriteJob, Resolve, EndTask
  <2> QED BY <1>0, <2>1, <2>2, <2>3, <2>4 DEF Next, history
<1> QED BY <1>1, <1>2, <1>3

\* Every step keeps the types and what holds of the rows in any case.
LEMMA NextKeepsRows ==
    ASSUME PermissionInv, Next
    PROVE  TypeOK' /\ Rows'
<1>1. run' \in [at : {"idle", "working", "waiting"}, request : Requests \cup {NoRequest}]
  BY NextKeepsRunner DEF Stopped, Working, Waits
<1>2. TypeOK'
  BY <1>1, NextKeepsJob, PermGrows, NextKeepsPerm, NextKeepsGateway, NextKeepsRunner, NextKeepsMail,
     NextKeepsCounters
  DEF TypeOK, Statuses, JobRow
<1>3. Rows'
  BY NextKeepsJob, NextKeepsGateway, NextKeepsRunner DEF Rows, Waits
<1> QED BY <1>2, <1>3

-----------------------------------------------------------------------------
(* Decisions and requests                                                  *)

\* Every step keeps the handlers and the rows they work for in agreement.
LEMMA NextKeepsDecisions ==
    ASSUME PermissionInv, Next
    PROVE  Decisions'
<1> USE DEF PermissionInv
<1> DEFINE One(d)  == IF Deciding(d)
                      THEN /\ dec[d].request \in Requests /\ dec[d].answer \in Decided
                           /\ perm[dec[d].request] = dec[d].answer
                      ELSE dec[d] = NotDeciding
           Once    == \A d, e \in Deciders :
                          Deciding(d) /\ Deciding(e) /\ dec[d].request = dec[e].request => d = e
<1> SUFFICES (\A d \in Deciders : One(d)') /\ Once'
  BY NextKeepsMail DEF Decisions
<1>0. /\ \A d \in Deciders : One(d)
      /\ Once
      /\ dec \in [Deciders -> Decision]
      /\ perm \in [Requests -> Decided \cup {"none", "pending"}]
      /\ NotDeciding.pc = "idle"
  BY DEF Decisions, TypeOK, NotDeciding
<1>1. ASSUME NEW d \in Deciders, dec'[d] = dec[d] PROVE One(d)'
  BY <1>0, <1>1, PermGrows DEF Deciding
<1>2. CASE UNCHANGED dec
  BY <1>0, <1>1, <1>2 DEF Deciding
<1>3. ASSUME NEW d \in Deciders, NEW r \in Requests, NEW answer \in Decided, Resolve(d, r, answer)
      PROVE  (\A e \in Deciders : One(e)') /\ Once'
  <2>1. /\ dec[d].pc = "idle" /\ perm[r] = "pending" /\ perm' = [perm EXCEPT ![r] = answer]
        /\ dec' = [dec EXCEPT ![d] = [pc |-> "status", request |-> r, answer |-> answer]]
    BY <1>3 DEF Resolve, Open
  <2>2. /\ dec'[d].pc = "status" /\ dec'[d].request = r /\ dec'[d].answer = answer
        /\ perm'[r] = answer
    BY <1>0, <2>1
  <2>3. \A e \in Deciders : e # d => dec'[e] = dec[e] BY <1>0, <2>1
  <2>4. One(d)' BY <2>2 DEF Deciding
  <2>5. \A e \in Deciders : e # d /\ Deciding(e) => dec[e].request # r
    BY <1>0, <2>1 DEF Decided
  <2>6. Once' BY <1>0, <2>2, <2>3, <2>5 DEF Deciding
  <2> QED BY <1>1, <2>3, <2>4, <2>6
<1>4. ASSUME NEW d \in Deciders, DeciderStep(d), UNCHANGED perm
      PROVE  (\A e \in Deciders : One(e)') /\ Once'
  <2>1. \A e \in Deciders : e # d => dec'[e] = dec[e]
    BY <1>0, <1>4 DEF DeciderStep, WriteStatus, WriteJob
  <2>2. CASE WriteStatus(d)
    <3>1. dec[d].pc = "status" /\ dec' = [dec EXCEPT ![d].pc = "job"] BY <2>2 DEF WriteStatus
    <3>2. /\ dec'[d].pc = "job" /\ dec'[d].request = dec[d].request /\ dec'[d].answer = dec[d].answer
      BY <1>0, <3>1 DEF Decision
    <3>3. One(d)' BY <1>0, <1>4, <3>1, <3>2 DEF Deciding
    <3>4. Once' BY <1>0, <2>1, <3>1, <3>2 DEF Deciding
    <3> QED BY <1>1, <2>1, <3>3, <3>4
  <2>3. CASE WriteJob(d)
    <3>1. dec'[d] = NotDeciding BY <1>0, <2>3 DEF WriteJob
    <3>2. One(d)' BY <1>0, <3>1 DEF Deciding
    <3>3. Once' BY <1>0, <2>1, <3>1 DEF Deciding
    <3> QED BY <1>1, <2>1, <3>2, <3>3
  <2> QED BY <1>4, <2>2, <2>3 DEF DeciderStep
<1>5. CASE RestartServer
  <2>1. \A d \in Deciders : dec'[d] = NotDeciding BY <1>5 DEF RestartServer
  <2> QED BY <1>0, <2>1 DEF Deciding
<1> QED BY <1>2, <1>3, <1>4, <1>5, PermFrame

\* Every step keeps the requests in flight apart from each other and from the rows.
LEMMA NextKeepsAsked ==
    ASSUME PermissionInv, Next
    PROVE  Asked'
<1> USE DEF PermissionInv
<1>0. /\ inbox \in Seq(Messages) /\ Len(inbox) \in Nat /\ asked \in Nat
      /\ perm \in [Requests -> Decided \cup {"none", "pending"}]
      /\ \A r \in 1..asked : r \in Requests
  BY Bounds DEF TypeOK, Requests
<1>1. ASSUME NEW d \in Deciders, NEW r \in Requests, NEW answer \in Decided, Resolve(d, r, answer)
      PROVE  \A q : perm[q] = "none" => perm'[q] = "none"
  BY <1>0, <1>1 DEF Resolve, Open
<1>2. CASE HandleSecond
  <2>1. UNCHANGED <<inbox, asked>> /\ gw.pc = "second" /\ gw' = At("ack")
    BY <1>2 DEF HandleSecond, runner
  <2>2. ~Handling' BY <2>1, AtFacts DEF Handling, Pcs
  <2>3. perm' = perm \/ (Asks(gw.msg) /\ perm' = Created(gw.msg.request))
    BY <1>2 DEF HandleSecond, Asks
  <2>4. \A i \in 1..Len(inbox) : Asks(inbox[i]) =>
            inbox[i].request \in 1..asked /\ perm'[inbox[i].request] = "none"
    BY <1>0, <2>1, <2>3 DEF Asked, Created, Handling
  <2> QED BY <2>1, <2>2, <2>4 DEF Asked, Asks
<1>3. CASE UNCHANGED <<inbox, asked>> /\ ~HandleSecond
  <2>1. \A q : perm[q] = "none" => perm'[q] = "none" BY <1>1, <1>3, PermFrame
  <2>2. Handling' => Handling /\ gw'.msg = gw.msg
    <3>1. CASE UNCHANGED gw BY <3>1 DEF Handling
    <3>2. CASE HandleFirst
      BY <3>2 DEF HandleFirst, Handling, TypeOK, Gateway
    <3>3. CASE gw'.pc \notin {"first", "second"} BY <3>3 DEF Handling
    <3>4. \A pc \in Pcs \ {"first", "second", "mark"} : gw' = At(pc) => gw'.pc \notin {"first", "second"}
      BY AtFacts
    <3>5. \A S \in SUBSET Requests : gw' = [At("send") EXCEPT !.todo = S] => gw'.pc = "send"
      BY AtFacts DEF Pcs
    <3>6. Unsent \in SUBSET Requests /\ gw.todo \ {gw.current} \in SUBSET Requests
      BY DEF Unsent, TypeOK, Gateway
    <3>7. \A r \in Requests : gw' = [gw EXCEPT !.pc = "mark", !.current = r] => gw'.pc = "mark"
      BY DEF TypeOK, Gateway
    <3>8. inbox # <<>> => inbox' # Tail(inbox)
      BY <1>0, <1>3, TailFacts
    <3> QED BY <3>1, <3>2, <3>3, <3>4, <3>5, <3>6, <3>7, <3>8, GatewayMoves
  <2> QED BY <1>3, <2>1, <2>2 DEF Asked, Asks
<1>4. CASE /\ UNCHANGED <<asked, perm>> /\ inbox # <<>> /\ inbox' = Tail(inbox)
           /\ gw' = [At("first") EXCEPT !.msg = Head(inbox)]
  <2>1. /\ Len(inbox') = Len(inbox) - 1 /\ Head(inbox) = inbox[1] /\ Head(inbox) \in Messages
        /\ \A i \in 1..Len(inbox') : inbox'[i] = inbox[i + 1]
        /\ Len(inbox) \in Nat \ {0}
    BY <1>0, <1>4, TailFacts
  <2>2. gw'.msg = inbox[1] BY <1>4, <2>1, AtFacts DEF Pcs
  <2>3. 1 \in 1..Len(inbox) /\ \A i \in 1..Len(inbox') : i + 1 \in 1..Len(inbox) /\ i + 1 # 1
    BY <2>1
  <2>4. \A i, j \in 1..Len(inbox') : i + 1 = j + 1 => i = j OBVIOUS
  <2> QED BY <1>4, <2>1, <2>2, <2>3, <2>4 DEF Asked, Asks
<1>5. ASSUME NEW k \in Kinds \ {"ask"}, UNCHANGED <<asked, gw, perm>>, inbox' = Append(inbox, Report(k))
      PROVE  Asked'
  <2>1. Report(k) \in Messages /\ Report(k).kind # "ask" BY MessageFacts
  <2>2. /\ Len(inbox') = Len(inbox) + 1
        /\ \A i \in 1..Len(inbox) : inbox'[i] = inbox[i]
        /\ inbox'[Len(inbox) + 1] = Report(k)
    BY <1>0, <1>5, <2>1, AppendFacts
  <2>3. \A i \in 1..Len(inbox') : i \in 1..Len(inbox) \/ (i = Len(inbox) + 1 /\ ~Asks(inbox'[i]))
    BY <1>0, <2>1, <2>2 DEF Asks
  <2> QED BY <1>5, <2>2, <2>3 DEF Asked, Asks, Handling
<1>6. CASE Ask
  <2> DEFINE m == Message("ask", asked')
  <2>1. m \in Messages /\ m.kind = "ask" /\ m.request = asked' BY <1>6, AskFacts, MessageFacts
  <2>2. inbox' = Append(inbox, m) /\ UNCHANGED <<perm, gw>> BY <1>6, AskFacts DEF tables
  <2> HIDE DEF m
  <2>3. /\ Len(inbox') = Len(inbox) + 1
        /\ \A i \in 1..Len(inbox) : inbox'[i] = inbox[i]
        /\ inbox'[Len(inbox) + 1] = m
    BY <1>0, <2>1, <2>2, AppendFacts
  <2>4. \A i \in 1..Len(inbox') : i \in 1..Len(inbox) \/ i = Len(inbox) + 1 BY <1>0, <2>3
  <2>5. /\ asked' = asked + 1 /\ perm[asked'] = "none"
        /\ \A x \in 1..asked : x \in 1..asked' /\ x # asked'
    BY <1>0, <1>6, AskFacts
  <2>6. asked' \in 1..asked' BY <1>0, <2>5
  <2>7. \A i \in 1..Len(inbox') : Asks(inbox'[i]) =>
            inbox'[i].request \in 1..asked' /\ perm'[inbox'[i].request] = "none"
    BY <2>1, <2>2, <2>3, <2>4, <2>5, <2>6 DEF Asked, Asks
  <2>8. \A i, j \in 1..Len(inbox') :
            Asks(inbox'[i]) /\ Asks(inbox'[j]) /\ inbox'[i].request = inbox'[j].request => i = j
    BY <2>1, <2>3, <2>4, <2>5 DEF Asked, Asks
  <2>9. Handling' /\ Asks(gw'.msg) =>
            /\ gw'.msg.request \in 1..asked' /\ perm'[gw'.msg.request] = "none"
            /\ \A i \in 1..Len(inbox') : Asks(inbox'[i]) => inbox'[i].request # gw'.msg.request
    BY <2>1, <2>2, <2>3, <2>4, <2>5 DEF Asked, Asks, Handling
  <2> QED BY <2>7, <2>8, <2>9 DEF Asked, Asks
<1> QED BY <1>2, <1>3, <1>4, <1>5, <1>6, MessageMoves

\* What _handle writes to the task, by kind of message.
LEMMA HandledTask ==
    /\ HandleFirst => task' = IF gw.msg.kind = "ask" THEN "wait_permission"
                             ELSE IF gw.msg.kind = "completed" THEN "waiting_approval"
                             ELSE IF gw.msg.kind = "failed" THEN "failed" ELSE task
    /\ HandleSecond => task' = IF gw.msg.kind = "accepted" THEN "accepted"
                              ELSE IF gw.msg.kind = "progress" THEN "running"
                              ELSE IF gw.msg.kind = "failed" /\ Retries THEN "queued" ELSE task
    /\ HandleSecond => job' = IF gw.msg.kind = "completed" THEN Completed("completed")
                             ELSE IF gw.msg.kind = "failed"
                                  THEN IF Retries THEN Pending(job) ELSE Completed("failed")
                             ELSE job
<1>1. ASSUME HandleFirst
      PROVE  task' = IF gw.msg.kind = "ask" THEN "wait_permission"
                     ELSE IF gw.msg.kind = "completed" THEN "waiting_approval"
                     ELSE IF gw.msg.kind = "failed" THEN "failed" ELSE task
  <2>1. CASE gw.msg.kind = "ask" BY <1>1, <2>1, Zenon DEF HandleFirst
  <2>2. CASE gw.msg.kind = "completed" BY <1>1, <2>2, Zenon DEF HandleFirst
  <2>3. CASE gw.msg.kind = "failed" BY <1>1, <2>3, Zenon DEF HandleFirst
  <2>4. CASE gw.msg.kind \notin {"ask", "completed", "failed"} BY <1>1, <2>4, Zenon DEF HandleFirst
  <2> QED BY <2>1, <2>2, <2>3, <2>4
<1>2. ASSUME HandleSecond
      PROVE  task' = IF gw.msg.kind = "accepted" THEN "accepted"
                     ELSE IF gw.msg.kind = "progress" THEN "running"
                     ELSE IF gw.msg.kind = "failed" /\ Retries THEN "queued" ELSE task
  <2>1. CASE gw.msg.kind = "accepted" BY <1>2, <2>1, Zenon DEF HandleSecond
  <2>2. CASE gw.msg.kind = "progress" BY <1>2, <2>2, Zenon DEF HandleSecond
  <2>3. CASE gw.msg.kind = "failed" /\ Retries BY <1>2, <2>3, Zenon DEF HandleSecond
  <2>4. CASE gw.msg.kind \notin {"accepted", "progress"} /\ ~(gw.msg.kind = "failed" /\ Retries)
    BY <1>2, <2>4, Zenon DEF HandleSecond
  <2> QED BY <2>1, <2>2, <2>3, <2>4
<1>3. ASSUME HandleSecond
      PROVE  job' = IF gw.msg.kind = "completed" THEN Completed("completed")
                    ELSE IF gw.msg.kind = "failed"
                         THEN IF Retries THEN Pending(job) ELSE Completed("failed")
                    ELSE job
  <2>1. CASE gw.msg.kind = "completed" BY <1>3, <2>1, Zenon DEF HandleSecond
  <2>2. CASE gw.msg.kind = "failed" BY <1>3, <2>2, Zenon DEF HandleSecond
  <2>3. CASE gw.msg.kind \notin {"completed", "failed"} BY <1>3, <2>3, Zenon DEF HandleSecond
  <2> QED BY <2>1, <2>2, <2>3
<1> QED BY <1>1, <1>2, <1>3

\* Every step keeps a handler that closes a job ahead of the requests.
LEMMA NextKeepsClosing ==
    ASSUME PermissionInv, Next
    PROVE  Closing'
<1> USE DEF PermissionInv
<1>0. gw \in Gateway BY DEF TypeOK
<1>1. CASE HandleFirst
  <2>1. gw'.msg = gw.msg BY <1>0, <1>1 DEF HandleFirst, Gateway
  <2> QED BY <1>1, <2>1, HandledTask DEF Closing
<1>2. CASE UNCHANGED gw
  <2>1. gw.pc = "second" => task' \in {task, "running", "failed"}
    <3>1. \A d : WriteStatus(d) => task' \in {"running", "failed"} BY DEF WriteStatus
    <3>2. \A d : WriteJob(d) => task' = task BY DEF WriteJob
    <3>3. LeaseRunsOut => task' = task BY DEF LeaseRunsOut
    <3>4. RecoverExpired \/ Lease \/ Assign \/ HandleFirst => gw.pc # "second"
      BY DEF RecoverExpired, Lease, Assign, HandleFirst
    <3>5. ~HandleSecond
      <4>1. HandleSecond => gw'.pc = "ack" /\ gw.pc = "second" BY AtFacts DEF HandleSecond, Pcs
      <4> QED BY <1>2, <4>1
    <3> QED BY <3>1, <3>2, <3>3, <3>4, <3>5, JobFrame
  <2> QED BY <1>2, <2>1 DEF Closing
<1>3. CASE gw'.pc # "second" BY <1>3 DEF Closing
<1>4. \A pc \in Pcs \ {"first", "second", "mark"} : gw' = At(pc) => gw'.pc # "second"
  BY AtFacts
<1>5. \A S \in SUBSET Requests : gw' = [At("send") EXCEPT !.todo = S] => gw'.pc # "second"
  BY AtFacts DEF Pcs
<1>6. Unsent \in SUBSET Requests /\ gw.todo \ {gw.current} \in SUBSET Requests
  BY <1>0 DEF Unsent, Gateway
<1>7. \A r \in Requests : gw' = [gw EXCEPT !.pc = "mark", !.current = r] => gw'.pc # "second"
  BY <1>0 DEF Gateway
<1>8. inbox # <<>> /\ gw' = [At("first") EXCEPT !.msg = Head(inbox)] => gw'.pc # "second"
  BY AtFacts, TailFacts DEF Pcs, TypeOK
<1> QED BY <1>1, <1>2, <1>3, <1>4, <1>5, <1>6, <1>7, <1>8, GatewayMoves

\* Every step keeps somebody for a task that waits.
LEMMA NextKeepsWaiting ==
    ASSUME PermissionInv, Next
    PROVE  WaitingCanBeDecided'
<1> USE DEF PermissionInv
<1> SUFFICES ASSUME task' = "wait_permission", gw'.pc # "second", ~torn'
             PROVE  \/ \E r \in Requests : perm'[r] = "pending"
                    \/ \E d \in Deciders : dec'[d].pc = "status"
  BY DEF WaitingCanBeDecided
<1>0. /\ perm \in [Requests -> Decided \cup {"none", "pending"}]
      /\ dec \in [Deciders -> Decision]
  BY DEF TypeOK
<1>1. ~torn
  <2>1. torn => torn'
    BY DEF Next, SessionStep, Connect, RecoverExpired, ListUnsent, MarkSent, CheckActive, Lease,
       Assign, SendResult, Receive, HandleFirst, HandleSecond, Acknowledge, DeciderStep, WriteStatus,
       WriteJob, Resolve, LeaseRunsOut, RunnerReads, ReadAssign, ReadResult, Ask, Progress, EndTask,
       RestartRunner, RestartServer, history
  <2> QED BY <2>1
<1>2. CASE HandleFirst
  <2>1. gw'.pc = "second" BY <1>2 DEF HandleFirst, TypeOK, Gateway
  <2> QED BY <2>1
<1>3. CASE HandleSecond
  <2>1. gw.msg \in Messages /\ gw.pc = "second" BY <1>3 DEF HandleSecond, Rows
  <2>2. gw.msg.kind \in Kinds BY <2>1 DEF Messages
  <2>3. gw.msg.kind \notin {"accepted", "progress"} BY <1>3, HandledTask
  <2>4. gw.msg.kind \notin {"completed", "failed"} BY <1>3, <2>1, HandledTask DEF Closing
  <2>5. gw.msg.kind = "ask" BY <2>2, <2>3, <2>4 DEF Kinds
  <2>6. gw.msg.request \in 1..asked /\ perm[gw.msg.request] = "none"
    BY <2>1, <2>5 DEF Asked, Handling, Asks
  <2>7. gw.msg.request \in Requests BY <2>6, Bounds DEF TypeOK, Requests
  <2>8. perm' = [perm EXCEPT ![gw.msg.request] = "pending"]
    BY <1>3, <2>5, <2>6 DEF HandleSecond, Created
  <2> QED BY <1>0, <2>7, <2>8
<1>4. ASSUME ~HandleFirst, ~HandleSecond PROVE task = "wait_permission" /\ gw.pc # "second"
  <2>1. task = "wait_permission"
    <3>1. \A d : WriteStatus(d) => task' # "wait_permission" BY DEF WriteStatus
    <3>2. \A d : WriteJob(d) => task' = task BY DEF WriteJob
    <3>3. RecoverExpired \/ Lease => task' \in {"queued", task}
      BY DEF RecoverExpired, Lease, RecoveredTask
    <3>4. Assign => task' = "assigned" BY DEF Assign
    <3>5. LeaseRunsOut => task' = task BY DEF LeaseRunsOut
    <3> QED BY <1>4, <3>1, <3>2, <3>3, <3>4, <3>5, JobFrame
  <2>2. SessionStep => gw.pc # "second"
    BY <1>4 DEF SessionStep, Connect, RecoverExpired, ListUnsent, MarkSent, CheckActive, Lease,
       Assign, SendResult, Receive, Acknowledge
  <2>3. RestartServer => gw.pc # "second" BY DEF RestartServer
  <2>4. LeaseRunsOut \/ RunnerReads \/ Ask \/ Progress \/ RestartRunner => UNCHANGED gw
    BY DEF LeaseRunsOut, RunnerReads, ReadAssign, ReadResult, Ask, Progress, RestartRunner
  <2>5. \A d, r, a, o : DeciderStep(d) \/ Resolve(d, r, a) \/ EndTask(o) => UNCHANGED gw
    BY DEF DeciderStep, WriteStatus, WriteJob, Resolve, EndTask
  <2> QED BY <2>1, <2>2, <2>3, <2>4, <2>5 DEF Next
<1>5. CASE ~HandleFirst /\ ~HandleSecond
  <2>1. \/ \E r \in Requests : perm[r] = "pending"
        \/ \E d \in Deciders : dec[d].pc = "status"
    BY <1>1, <1>4, <1>5 DEF WaitingCanBeDecided
  <2>2. CASE UNCHANGED <<perm, dec>> BY <2>1, <2>2
  <2>3. ASSUME NEW d \in Deciders, NEW r \in Requests, NEW a \in Decided, Resolve(d, r, a)
        PROVE  dec'[d].pc = "status"
    BY <1>0, <2>3 DEF Resolve
  <2>4. \A d \in Deciders : ~WriteStatus(d) BY DEF WriteStatus
  <2>5. ASSUME NEW d \in Deciders, WriteJob(d), UNCHANGED perm
        PROVE  \/ \E r \in Requests : perm'[r] = "pending"
               \/ \E e \in Deciders : dec'[e].pc = "status"
    <3>1. \A e \in Deciders : dec[e].pc = "status" => dec'[e].pc = "status"
      BY <1>0, <2>5 DEF WriteJob
    <3> QED BY <2>1, <2>5, <3>1
  <2>6. CASE RestartServer /\ UNCHANGED perm
    <3>1. \A d \in Deciders : dec[d] = NotDeciding BY <2>6 DEF RestartServer
    <3>2. \A d \in Deciders : dec[d].pc # "status" BY <3>1 DEF NotDeciding
    <3> QED BY <2>1, <2>6, <3>2
  <2> QED BY <1>5, <2>2, <2>3, <2>4, <2>5, <2>6, PermFrame DEF DeciderStep
<1> QED BY <1>2, <1>3, <1>5

-----------------------------------------------------------------------------
(* One thing at a time                                                     *)

\* What was lost, cut short or overtaken stays so.
LEMMA CalmBefore ==
    ASSUME PermissionInv, Next, Calm'
    PROVE  Calm
<1>1. SessionStep \/ RestartServer =>
          (torn => torn') /\ (lapsed => lapsed') /\ (overtaken => overtaken')
  <2>1. Connect \/ ListUnsent \/ MarkSent \/ CheckActive \/ Receive \/ HandleFirst \/ HandleSecond
        \/ Acknowledge => UNCHANGED history
    BY DEF Connect, ListUnsent, MarkSent, CheckActive, Receive, HandleFirst, HandleSecond, Acknowledge
  <2>2. RecoverExpired \/ Lease => (lapsed => lapsed') /\ UNCHANGED <<torn, overtaken>>
    BY DEF RecoverExpired, Lease
  <2>3. Assign => UNCHANGED <<lapsed, torn, overtaken>> BY DEF Assign
  <2>4. \A r : SendResult(r) => (overtaken => overtaken') /\ UNCHANGED <<torn, lapsed>>
    BY DEF SendResult
  <2>5. RestartServer => (torn => torn') /\ UNCHANGED <<lapsed, overtaken>> BY DEF RestartServer
  <2> QED BY <2>1, <2>2, <2>3, <2>4, <2>5 DEF SessionStep, history
<1>2. LeaseRunsOut \/ RunnerReads \/ Ask \/ Progress \/ RestartRunner => UNCHANGED history
  BY DEF LeaseRunsOut, RunnerReads, ReadAssign, ReadResult, Ask, Progress, RestartRunner
<1>3. \A d, r, a, o : DeciderStep(d) \/ Resolve(d, r, a) \/ EndTask(o) => UNCHANGED history
  BY DEF DeciderStep, WriteStatus, WriteJob, Resolve, EndTask
<1>4. (torn => torn') /\ (lapsed => lapsed') /\ (overtaken => overtaken')
  BY <1>1, <1>2, <1>3 DEF Next, history
<1> QED BY <1>4 DEF Calm

\* The parts of the invariant, read from each side.
LEMMA CalmFacts ==
    ASSUME PermissionInv, Calm
    PROVE  /\ OneAtATime
           /\ InFlight => Leased /\ ~Assigning /\ NothingPends
           /\ Assigning => Leased /\ run = Stopped /\ ~InFlight /\ NothingPends
           /\ run = Working => /\ Leased /\ ~Assigning /\ NothingPends
                              /\ \A i \in 1..Len(inbox) : ~Final(inbox[i])
                              /\ Handling => ~Final(gw.msg)
           /\ \A r \in Requests : Pends(r) =>
                  r = asked /\ Leased /\ ~Assigning /\ ~InFlight /\ run # Working
           /\ \A d \in Deciders : Deciding(d) =>
                  dec[d].request \in Requests /\ Finishing(dec[d].request) /\ Pends(dec[d].request)
           /\ Leased => \A r \in Requests : perm[r] = "denied" => Finishing(r)
           /\ NothingPends => \A d \in Deciders : ~Deciding(d)
           /\ Stopped # Working /\ \A r : [at |-> "waiting", request |-> r] \notin {Stopped, Working}
<1> USE DEF PermissionInv
<1>1. OneAtATime OBVIOUS
<1>2. InFlight => Leased /\ ~Assigning /\ NothingPends
  BY <1>1 DEF OneAtATime, WithoutLease, WhileAssigning, WhileInFlight
<1>3. Assigning => Leased /\ run = Stopped /\ ~InFlight /\ NothingPends
  BY <1>1 DEF OneAtATime, WithoutLease, WhileAssigning
<1>4. Stopped # Working /\ \A r : [at |-> "waiting", request |-> r] \notin {Stopped, Working}
  BY DEF Stopped, Working
<1>5. run = Working => /\ Leased /\ ~Assigning /\ NothingPends
                       /\ \A i \in 1..Len(inbox) : ~Final(inbox[i])
                       /\ Handling => ~Final(gw.msg)
  <2>1. \A m : run = Working => ~Last(m) BY <1>4 DEF Last
  <2> QED BY <1>1, <1>3, <1>4, <2>1 DEF OneAtATime, WithoutLease, WhileInFlight
<1>6. \A r \in Requests : Pends(r) =>
          r = asked /\ Leased /\ ~Assigning /\ ~InFlight /\ run # Working
  BY <1>1, <1>2, <1>3, <1>5 DEF OneAtATime, WithoutLease, WhileWaiting, NothingPends
<1>7. \A d \in Deciders : Deciding(d) =>
          dec[d].request \in Requests /\ Finishing(dec[d].request) /\ Pends(dec[d].request)
  BY DEF Decisions, Finishing, Pends
<1>8. Leased => \A r \in Requests : perm[r] = "denied" => Finishing(r)
  BY <1>1 DEF OneAtATime, Denials, Leased
<1>9. NothingPends => \A d \in Deciders : ~Deciding(d) BY <1>7 DEF NothingPends
<1> QED BY <1>1, <1>2, <1>3, <1>4, <1>5, <1>6, <1>7, <1>8, <1>9

\* A step that touches nothing of it: the gateway moves while it neither handles a
\* message nor assigns.
LEMMA QuietStep ==
    ASSUME OneAtATime, UNCHANGED <<task, perm, dec, run, inbox, mail, asked>>,
           job'.status = job.status,
           \/ UNCHANGED gw
           \/ ~Handling /\ gw.pc # "assign" /\ ~Handling' /\ gw'.pc # "assign"
    PROVE  OneAtATime'
<1>1. UNCHANGED Handling /\ (gw'.pc = "assign" <=> gw.pc = "assign") /\ (Handling' => gw' = gw)
  BY DEF Handling
<1>2. (InFlight' <=> InFlight) /\ (Assigning' <=> Assigning) /\ (Leased' <=> Leased)
  BY <1>1 DEF InFlight, Assigning, Leased
<1>3. \A r \in Requests : (Finishing(r)' <=> Finishing(r)) /\ (Pends(r)' <=> Pends(r))
  BY DEF Finishing, Pends
<1>4. NothingPends' <=> NothingPends BY <1>3 DEF NothingPends
<1>5. \A m : Last(m)' <=> Last(m) BY DEF Last
<1>6. WithoutLease' BY <1>2, <1>4 DEF OneAtATime, WithoutLease
<1>7. WhileAssigning' BY <1>1, <1>2, <1>4 DEF OneAtATime, WhileAssigning
<1>8. WhileInFlight' BY <1>1, <1>2, <1>4, <1>5 DEF OneAtATime, WhileInFlight
<1>9. WhileWaiting'
  BY <1>3 DEF OneAtATime, WhileWaiting, Finishing
<1>10. Denials' BY <1>3 DEF OneAtATime, Denials
<1> QED BY <1>6, <1>7, <1>8, <1>9, <1>10 DEF OneAtATime

\* Requests and handlers that stay are open and busy as before.
LEMMA SameRequests ==
    ASSUME UNCHANGED <<perm, dec>>
    PROVE  /\ \A r \in Requests : (Finishing(r)' <=> Finishing(r)) /\ (Pends(r)' <=> Pends(r))
           /\ \A x : Finishing(x)' <=> Finishing(x)
           /\ NothingPends' <=> NothingPends
<1>1. \A x : Finishing(x)' <=> Finishing(x) BY DEF Finishing
<1>2. \A r \in Requests : Pends(r)' <=> Pends(r) BY <1>1 DEF Pends
<1> QED BY <1>1, <1>2 DEF NothingPends

\* While the task is leased and nothing is open, no request of it was denied, and
\* whatever is written to it contradicts no denial.
LEMMA NoDenials ==
    ASSUME PermissionInv, Calm, Leased, NothingPends, UNCHANGED <<perm, dec>>
    PROVE  Denials'
<1>1. \A d \in Deciders : ~Deciding(d) BY CalmFacts
<1>2. \A r \in Requests : perm[r] # "denied" BY CalmFacts DEF NothingPends, Pends
<1> QED BY <1>1, <1>2 DEF Denials, Deciding

\* The steps of the session that only look, and the lease that runs out.
LEMMA CalmLooking ==
    ASSUME PermissionInv, Next, Calm, Calm',
           \/ Connect \/ RecoverExpired \/ ListUnsent \/ MarkSent \/ CheckActive \/ Acknowledge
           \/ LeaseRunsOut
    PROVE  OneAtATime'
<1> USE DEF PermissionInv
<1>0. OneAtATime OBVIOUS
<1>1. CASE LeaseRunsOut
  <2>1. job' = [job EXCEPT !.due = TRUE] /\ UNCHANGED <<task, perm, gw, dec, run, inbox, mail, asked>>
    BY <1>1 DEF LeaseRunsOut, runner
  <2>2. job'.status = job.status BY <2>1, JobFacts DEF JobRow
  <2> QED BY <1>0, <2>1, <2>2, QuietStep
<1>2. CASE RecoverExpired
  <2>1. /\ job' = RecoveredJob /\ task' = RecoveredTask /\ ~job.due
        /\ gw.pc = "recover" /\ gw' = At("list") /\ UNCHANGED <<perm, dec, run, inbox, mail, asked>>
    BY <1>2 DEF RecoverExpired, runner, Calm
  <2>2. job' = job /\ task' = task BY <2>1, RecoveredFacts
  <2>3. gw'.pc = "list" BY <2>1, AtFacts DEF Pcs
  <2> QED BY <1>0, <2>1, <2>2, <2>3, QuietStep DEF Handling
<1>3. CASE Connect \/ CheckActive \/ Acknowledge
  <2>1. /\ UNCHANGED <<job, task, perm, dec, run, inbox, mail, asked>>
        /\ gw.pc \in {"down", "active", "ack"}
        /\ \E pc \in {"recover", "receive", "lease", "down"} : gw' = At(pc)
    BY <1>3 DEF Connect, CheckActive, Acknowledge, Breaks, tables, runner
  <2>2. gw'.pc \in {"recover", "receive", "lease", "down"} BY <2>1, AtFacts DEF Pcs
  <2> QED BY <1>0, <2>1, <2>2, QuietStep DEF Handling
<1>4. CASE ListUnsent \/ MarkSent
  <2>1. /\ UNCHANGED <<job, task, perm, dec, run, inbox, mail, asked>>
        /\ gw.pc \in {"list", "mark"}
    BY <1>4 DEF ListUnsent, MarkSent, tables, runner
  <2>2. \/ gw' = At("active")
        \/ \E S \in {Unsent, gw.todo \ {gw.current}} : gw' = [At("send") EXCEPT !.todo = S]
    BY <1>4 DEF ListUnsent, MarkSent
  <2>3. Unsent \in SUBSET Requests /\ gw.todo \ {gw.current} \in SUBSET Requests
    BY DEF Unsent, TypeOK, Gateway
  <2>4. /\ At("active").pc = "active"
        /\ \A S \in SUBSET Requests : [At("send") EXCEPT !.todo = S].pc = "send"
    BY AtFacts DEF Pcs
  <2>5. gw'.pc \in {"active", "send"} BY <2>2, <2>3, <2>4
  <2> QED BY <1>0, <2>1, <2>5, QuietStep DEF Handling
<1> QED BY <1>1, <1>2, <1>3, <1>4

\* A server that stops where no handler is at work.
LEMMA CalmRestartServer ==
    ASSUME PermissionInv, Calm, Calm', RestartServer
    PROVE  OneAtATime'
<1> USE DEF PermissionInv
<1>1. /\ UNCHANGED <<task, job, perm, run, inbox, mail, asked>>
      /\ gw' = At("down") /\ dec' = [d \in Deciders |-> NotDeciding]
  BY DEF RestartServer, tables, runner
<1>2. gw.pc \notin {"first", "second", "assign"} /\ \A d \in Deciders : dec[d] = NotDeciding
  BY DEF RestartServer, Calm
<1>3. dec' = dec BY <1>1, <1>2 DEF TypeOK
<1>4. gw'.pc = "down" BY <1>1, AtFacts DEF Pcs
<1> QED BY <1>1, <1>2, <1>3, <1>4, QuietStep DEF Handling

\* A result that goes out is that of a decision that was carried out.
LEMMA CalmSendResult ==
    ASSUME PermissionInv, Calm, Calm', NEW r \in Requests, SendResult(r)
    PROVE  OneAtATime'
<1> USE DEF PermissionInv
<1> DEFINE e == Result(r, perm[r])
<1>0. OneAtATime OBVIOUS
<1>1. /\ mail' = Append(mail, e) /\ gw.pc = "send" /\ r \in gw.todo
      /\ UNCHANGED <<task, job, perm, dec, run, inbox, asked>>
  BY DEF SendResult, tables
<1>2. e \in Results /\ e # Assignment /\ e.request = r BY <1>1, MessageFacts DEF Rows
<1>3. ~Finishing(r) BY DEF SendResult, Calm
<1>4. gw'.pc \in {"mark", "down"}
  <2>1. gw' = [gw EXCEPT !.pc = "mark", !.current = r] \/ gw' = At("down") BY DEF SendResult, Breaks
  <2>2. [gw EXCEPT !.pc = "mark", !.current = r].pc = "mark" BY DEF TypeOK, Gateway
  <2>3. At("down").pc = "down" BY AtFacts DEF Pcs
  <2> QED BY <2>1, <2>2, <2>3
<1> HIDE DEF e
<1>5. /\ mail \in Seq(Results \cup {Assignment}) /\ Len(mail) \in Nat
      /\ Len(mail') = Len(mail) + 1
      /\ \A i \in 1..Len(mail) : mail'[i] = mail[i]
      /\ mail'[Len(mail) + 1] = e
  BY <1>1, <1>2, AppendFacts DEF TypeOK
<1>6. /\ \A i \in 1..Len(mail') : i \in 1..Len(mail) \/ i = Len(mail) + 1
      /\ \A i \in 1..Len(mail) : i \in 1..Len(mail')
  BY <1>5
<1>7. ~Handling /\ ~Handling' /\ gw.pc # "assign" /\ gw'.pc # "assign" BY <1>1, <1>4 DEF Handling
<1>8. (InFlight' <=> InFlight) /\ (Leased' <=> Leased) BY <1>1, <1>7 DEF InFlight, Leased
<1>9. Assigning' <=> Assigning BY <1>2, <1>5, <1>6, <1>7 DEF Assigning
<1>10. WithoutLease' BY <1>0, <1>1, <1>8, <1>9, SameRequests DEF OneAtATime, WithoutLease
<1>11. WhileAssigning'
  <2>1. \A i \in 1..Len(mail') : mail'[i] = Assignment => i \in 1..Len(mail) /\ mail[i] = Assignment
    BY <1>2, <1>5, <1>6
  <2> QED BY <1>0, <1>1, <1>7, <1>8, <1>9, <2>1, SameRequests DEF OneAtATime, WhileAssigning
<1>12. WhileInFlight'
  <2>1. \A m : Last(m)' <=> Last(m) BY <1>1 DEF Last
  <2> QED BY <1>0, <1>1, <1>7, <1>8, <2>1, SameRequests DEF OneAtATime, WhileInFlight
<1>13. WhileWaiting'
  <2>1. \A i \in 1..Len(mail') : mail'[i] # Assignment => ~Finishing(mail'[i].request)
    BY <1>0, <1>2, <1>3, <1>5, <1>6 DEF OneAtATime, WhileWaiting
  <2> QED BY <1>0, <1>1, <2>1, SameRequests DEF OneAtATime, WhileWaiting
<1>14. Denials' BY <1>0, <1>1, SameRequests DEF OneAtATime, Denials
<1> QED BY <1>10, <1>11, <1>12, <1>13, <1>14 DEF OneAtATime

\* A lease of a pending job begins an assignment.
LEMMA CalmLease ==
    ASSUME PermissionInv, Calm, Calm', Lease
    PROVE  OneAtATime'
<1> USE DEF PermissionInv
<1>0. OneAtATime OBVIOUS
<1>1. /\ gw.pc = "lease" /\ ~job.due /\ task' = RecoveredTask
      /\ UNCHANGED <<perm, dec, run, inbox, mail, asked>>
  BY DEF Lease, runner, Calm
<1>2. RecoveredJob = job /\ task' = task BY <1>1, RecoveredFacts
<1>3. CASE job.status # "pending"
  <2>1. job' = job /\ gw' = At("receive") BY <1>2, <1>3 DEF Lease
  <2>2. gw'.pc = "receive" BY <2>1, AtFacts DEF Pcs
  <2> QED BY <1>0, <1>1, <1>2, <2>1, <2>2, QuietStep DEF Handling
<1>4. CASE job.status = "pending"
  <2>1. job' = [job EXCEPT !.status = "leased", !.attempts = @ + 1] /\ gw' = At("assign")
    BY <1>2, <1>4 DEF Lease
  <2>2. gw'.pc = "assign" BY <2>1, AtFacts DEF Pcs
  <2>3. Leased' BY <2>1, JobFacts DEF Leased, JobRow
  <2>4. ~InFlight /\ ~Assigning /\ NothingPends /\ run = Stopped
    BY <1>0, <1>4 DEF OneAtATime, WithoutLease, Leased
  <2>5. inbox = <<>> /\ ~InFlight' /\ ~Handling' BY <1>1, <2>2, <2>4 DEF InFlight, Handling
  <2>6. WithoutLease' BY <2>3 DEF WithoutLease
  <2>7. WhileAssigning'
    BY <1>1, <2>4, <2>5, SameRequests DEF WhileAssigning, Assigning
  <2>8. WhileInFlight' BY <1>1, <2>4, <2>5, CalmFacts DEF WhileInFlight
  <2>9. WhileWaiting' BY <1>0, <1>1, SameRequests DEF OneAtATime, WhileWaiting
  <2>10. Denials'
    BY <1>0, <1>1, <1>2, <1>4, SameRequests DEF OneAtATime, Denials
  <2> QED BY <2>6, <2>7, <2>8, <2>9, <2>10 DEF OneAtATime
<1> QED BY <1>3, <1>4

\* TASK_ASSIGN goes out once.
LEMMA CalmAssign ==
    ASSUME PermissionInv, Calm, Assign
    PROVE  OneAtATime'
<1> USE DEF PermissionInv
<1>0. OneAtATime OBVIOUS
<1>1. /\ mail' = Append(mail, Assignment) /\ gw.pc = "assign"
      /\ UNCHANGED <<job, perm, dec, run, inbox, asked>>
  BY DEF Assign
<1>2. gw'.pc \in {"receive", "down"} BY AtFacts DEF Assign, Breaks, Pcs
<1>3. /\ Leased /\ run = Stopped /\ ~InFlight /\ NothingPends
      /\ \A i \in 1..Len(mail) : mail[i] # Assignment
  BY <1>0, <1>1, CalmFacts DEF Assigning, OneAtATime, WhileAssigning
<1>4. /\ mail \in Seq(Results \cup {Assignment}) /\ Len(mail) \in Nat
      /\ Len(mail') = Len(mail) + 1
      /\ \A i \in 1..Len(mail) : mail'[i] = mail[i]
      /\ mail'[Len(mail) + 1] = Assignment
  BY <1>1, AppendFacts DEF TypeOK
<1>5. \A i \in 1..Len(mail') : i \in 1..Len(mail) \/ i = Len(mail) + 1 BY <1>4
<1>6. inbox = <<>> /\ ~InFlight' /\ ~Handling' BY <1>1, <1>2, <1>3 DEF InFlight, Handling
<1>7. WithoutLease' BY <1>1, <1>3 DEF WithoutLease, Leased
<1>8. WhileAssigning'
  <2>1. \A i, j \in 1..Len(mail') : mail'[i] = Assignment /\ mail'[j] = Assignment => i = j
    BY <1>3, <1>4, <1>5
  <2> QED BY <1>1, <1>2, <1>3, <1>6, <2>1, SameRequests DEF WhileAssigning
<1>9. WhileInFlight' BY <1>1, <1>3, <1>6, CalmFacts DEF WhileInFlight
<1>10. WhileWaiting'
  <2>1. \A i \in 1..Len(mail') : mail'[i] # Assignment => ~Finishing(mail'[i].request)
    BY <1>0, <1>4, <1>5 DEF OneAtATime, WhileWaiting
  <2> QED BY <1>0, <1>1, <2>1, SameRequests DEF OneAtATime, WhileWaiting
<1>11. Denials' BY <1>1, <1>3, NoDenials
<1> QED BY <1>7, <1>8, <1>9, <1>10, <1>11 DEF OneAtATime

\* A message the gateway takes is still under way.
LEMMA CalmReceive ==
    ASSUME PermissionInv, Calm, Receive
    PROVE  OneAtATime'
<1> USE DEF PermissionInv
<1>0. OneAtATime OBVIOUS
<1>1. UNCHANGED <<task, job, perm, dec, run, mail, asked>> /\ gw.pc = "receive"
  BY DEF Receive, tables
<1>2. CASE UNCHANGED inbox /\ (gw' = At("recover") \/ gw' = At("down"))
  <2>1. gw'.pc \in {"recover", "down"} BY <1>2, AtFacts DEF Pcs
  <2> QED BY <1>0, <1>1, <1>2, <2>1, QuietStep DEF Handling
<1>3. CASE inbox # <<>> /\ gw' = [At("first") EXCEPT !.msg = Head(inbox)] /\ inbox' = Tail(inbox)
  <2>1. /\ Len(inbox') = Len(inbox) - 1 /\ Head(inbox) = inbox[1] /\ Head(inbox) \in Messages
        /\ inbox' \in Seq(Messages)
        /\ \A i \in 1..Len(inbox') : inbox'[i] = inbox[i + 1]
        /\ Len(inbox) \in Nat \ {0}
    BY <1>3, TailFacts DEF TypeOK
  <2>2. gw'.msg = inbox[1] /\ gw'.pc = "first" BY <1>3, <2>1, AtFacts DEF Pcs
  <2>3. /\ 1 \in 1..Len(inbox)
        /\ \A i \in 1..Len(inbox') : i + 1 \in 1..Len(inbox) /\ (i + 1 = Len(inbox) => i = Len(inbox'))
        /\ 1 = Len(inbox) => Len(inbox') = 0
    BY <2>1
  <2>4. Len(inbox') = 0 => inbox' = <<>> BY <2>1
  <2>5. InFlight /\ Leased /\ ~Assigning /\ NothingPends BY <1>3, CalmFacts DEF InFlight
  <2>6. Leased' /\ ~Assigning' /\ NothingPends'
    BY <1>1, <2>2, <2>5, SameRequests DEF Leased, Assigning
  <2>7. \A m : Last(m)' <=> Last(m) BY <1>1 DEF Last
  <2>8. WithoutLease' /\ WhileAssigning' BY <2>6 DEF WithoutLease, WhileAssigning
  <2>9. WhileInFlight'
    <3>1. \A i \in 1..Len(inbox) : Final(inbox[i]) => i = Len(inbox) /\ Last(inbox[i])
      BY <1>0 DEF OneAtATime, WhileInFlight
    <3>2. \A i \in 1..Len(inbox') : Final(inbox'[i]) => i = Len(inbox') /\ Last(inbox'[i])
      BY <2>1, <2>3, <3>1
    <3>3. Final(gw'.msg) => inbox' = <<>> /\ Last(gw'.msg)
      BY <2>2, <2>3, <2>4, <3>1
    <3> QED BY <1>1, <2>6, <3>2, <3>3, <2>7 DEF WhileInFlight, Last, Final, Asks
  <2>10. WhileWaiting' BY <1>0, <1>1, SameRequests DEF OneAtATime, WhileWaiting
  <2>11. Denials' BY <1>0, <1>1, SameRequests DEF OneAtATime, Denials
  <2> QED BY <2>8, <2>9, <2>10, <2>11 DEF OneAtATime
<1> QED BY <1>2, <1>3 DEF Receive, Breaks

\* The first transaction of a handler.
LEMMA CalmHandleFirst ==
    ASSUME PermissionInv, Calm, HandleFirst
    PROVE  OneAtATime'
<1> USE DEF PermissionInv
<1>0. OneAtATime OBVIOUS
<1>1. /\ UNCHANGED <<perm, dec, run, inbox, mail, asked>> /\ gw.pc = "first"
      /\ gw' = [gw EXCEPT !.pc = "second"]
  BY DEF HandleFirst, runner
<1>2. gw'.pc = "second" /\ gw'.msg = gw.msg BY <1>1 DEF TypeOK, Gateway
<1>3. job' = Renewed \/ job' = job BY DEF HandleFirst
<1>4. Handling /\ InFlight /\ Leased /\ ~Assigning /\ NothingPends
  BY <1>1, CalmFacts DEF InFlight, Handling
<1>5. Leased' BY <1>3, <1>4, JobFacts DEF Leased
<1>6. ~Assigning' /\ NothingPends'
  BY <1>1, <1>2, <1>4, SameRequests DEF Assigning
<1>7. \A m : Last(m)' <=> Last(m) BY <1>1 DEF Last
<1>8. WithoutLease' /\ WhileAssigning' BY <1>5, <1>6 DEF WithoutLease, WhileAssigning
<1>9. WhileInFlight'
  BY <1>0, <1>1, <1>2, <1>4, <1>6, <1>7 DEF OneAtATime, WhileInFlight
<1>10. WhileWaiting' BY <1>0, <1>1, SameRequests DEF OneAtATime, WhileWaiting
<1>11. Denials' BY <1>1, <1>4, NoDenials
<1> QED BY <1>8, <1>9, <1>10, <1>11 DEF OneAtATime

\* The second one: a request is opened, or the lease is given up.
LEMMA CalmHandleSecond ==
    ASSUME PermissionInv, Calm, HandleSecond
    PROVE  OneAtATime'
<1> USE DEF PermissionInv
<1>0. OneAtATime OBVIOUS
<1>1. /\ UNCHANGED <<dec, run, inbox, mail, asked>> /\ gw.pc = "second" /\ gw' = At("ack")
      /\ perm' = IF gw.msg.kind = "ask" THEN Created(gw.msg.request) ELSE perm
  BY DEF HandleSecond, runner
<1>2. gw'.pc = "ack" BY <1>1, AtFacts DEF Pcs
<1>3. Handling /\ InFlight /\ Leased /\ ~Assigning /\ NothingPends
  BY <1>1, CalmFacts DEF InFlight, Handling
<1>4. ~Assigning' /\ ~Handling' BY <1>1, <1>2, <1>3 DEF Assigning, Handling
<1>5. gw.msg.kind \in Kinds BY <1>1 DEF Rows, Messages
<1>6. Final(gw.msg) => inbox = <<>> /\ Last(gw.msg) BY <1>0, <1>3 DEF OneAtATime, WhileInFlight
<1>7. WhileAssigning' BY <1>4 DEF WhileAssigning
<1>8. CASE gw.msg.kind = "ask"
  <2>1. /\ gw.msg.request = asked /\ perm[asked] = "none" /\ inbox = <<>>
        /\ run \in {Stopped, [at |-> "waiting", request |-> asked]}
    BY <1>6, <1>8 DEF Final, Last, Asks
  <2>2. asked \in Requests BY <1>3, <1>8, <2>1, Bounds DEF Asked, Asks, TypeOK, Requests
  <2>3. perm' = [perm EXCEPT ![asked] = "pending"] BY <1>1, <1>8, <2>1 DEF Created
  <2>4. \A r \in Requests : r # asked => perm'[r] = perm[r] BY <2>3 DEF TypeOK
  <2>5. perm'[asked] = "pending" BY <2>2, <2>3 DEF TypeOK
  <2>6. \A x : Finishing(x)' <=> Finishing(x) BY <1>1 DEF Finishing
  <2>7. job' = job BY <1>8, HandledTask
  <2>8. WithoutLease' BY <1>3, <2>7 DEF WithoutLease, Leased
  <2>9. ~InFlight' /\ run' # Working
    BY <1>1, <1>4, <2>1, CalmFacts DEF InFlight
  <2>10. WhileInFlight' BY <1>1, <1>4, <2>1, <2>9 DEF WhileInFlight
  <2>11. WhileWaiting'
    <3>1. \A r \in Requests : Pends(r)' => r = asked
      BY <1>3, <2>4, <2>6 DEF Pends, NothingPends
    <3>2. \A r \in Requests : run'.request = r => r = asked' BY <1>0, <1>1 DEF OneAtATime, WhileWaiting
    <3> QED BY <1>0, <1>1, <2>6, <3>1, <3>2 DEF OneAtATime, WhileWaiting
  <2>12. Denials'
    <3>1. \A d \in Deciders : dec'[d].pc # "job" BY <1>1, <1>3, CalmFacts DEF Deciding
    <3>2. \A r \in Requests : perm[r] # "denied" BY <1>3, CalmFacts DEF NothingPends, Pends
    <3>3. \A r \in Requests : perm'[r] # "denied" BY <2>4, <2>5, <3>2
    <3> QED BY <3>1, <3>3 DEF Denials
  <2> QED BY <1>7, <2>8, <2>10, <2>11, <2>12 DEF OneAtATime
<1>9. ASSUME gw.msg.kind # "ask"
      PROVE  UNCHANGED perm /\ NothingPends' /\ WhileWaiting' /\ Denials'
  <2>1. UNCHANGED perm BY <1>1, <1>9
  <2> QED BY <1>0, <1>1, <1>3, <2>1, SameRequests, NoDenials DEF OneAtATime, WhileWaiting
<1>10. CASE gw.msg.kind \in {"accepted", "progress"}
  <2>1. Leased' BY <1>3, <1>10, HandledTask DEF Leased
  <2>2. WithoutLease' BY <2>1 DEF WithoutLease
  <2>3. \A m : Last(m)' <=> Last(m) BY <1>1, <1>9, <1>10 DEF Last
  <2>4. WhileInFlight' BY <1>0, <1>1, <1>4, <1>9, <1>10, <2>3 DEF OneAtATime, WhileInFlight
  <2> QED BY <1>7, <1>9, <1>10, <2>2, <2>4 DEF OneAtATime
<1>11. CASE gw.msg.kind \in {"completed", "failed"}
  <2>1. inbox = <<>> /\ run = Stopped BY <1>6, <1>11 DEF Final, Last, Asks
  <2>2. ~InFlight' /\ run' # Working /\ run'.request \notin Requests
    BY <1>1, <1>4, <2>1, CalmFacts, Bounds DEF InFlight, Stopped, NoRequest
  <2>3. WithoutLease' BY <1>1, <1>4, <1>9, <1>11, <2>1, <2>2 DEF WithoutLease
  <2>4. WhileInFlight' BY <1>1, <1>4, <2>1, <2>2 DEF WhileInFlight
  <2> QED BY <1>7, <1>9, <1>11, <2>3, <2>4 DEF OneAtATime
<1> QED BY <1>5, <1>8, <1>10, <1>11 DEF Kinds

\* A decision is taken on the open request.
LEMMA CalmResolve ==
    ASSUME PermissionInv, Calm, NEW d \in Deciders, NEW r \in Requests, NEW answer \in Decided,
           Resolve(d, r, answer)
    PROVE  OneAtATime'
<1> USE DEF PermissionInv
<1>0. OneAtATime OBVIOUS
<1>1. /\ dec[d].pc = "idle" /\ perm[r] = "pending" /\ perm' = [perm EXCEPT ![r] = answer]
      /\ dec' = [dec EXCEPT ![d] = [pc |-> "status", request |-> r, answer |-> answer]]
      /\ UNCHANGED <<task, job, gw, run, inbox, mail, asked>>
  BY DEF Resolve, Open, runner
<1>2. /\ perm'[r] = answer /\ \A q \in Requests : q # r => perm'[q] = perm[q]
  BY <1>1 DEF TypeOK
<1>3. /\ dec'[d].pc = "status" /\ dec'[d].request = r /\ dec'[d].answer = answer
      /\ \A e \in Deciders : e # d => dec'[e] = dec[e]
  BY <1>1 DEF TypeOK
<1>4. dec[d].request \notin Requests
  BY <1>1, Bounds DEF Decisions, Deciding, NotDeciding, NoRequest
<1>5. \A q \in Requests : q # r => (Finishing(q)' <=> Finishing(q))
  BY <1>3, <1>4 DEF Finishing
<1>6. Pends(r) BY <1>1 DEF Pends
<1>7. r = asked /\ Leased /\ ~Assigning /\ ~InFlight /\ run # Working BY <1>6, CalmFacts
<1>8. ~Assigning' /\ ~InFlight' /\ ~Handling' /\ inbox' = <<>> /\ Leased'
  BY <1>1, <1>7 DEF Assigning, InFlight, Handling, Leased
<1>9. WithoutLease' /\ WhileAssigning' BY <1>8 DEF WithoutLease, WhileAssigning
<1>10. WhileInFlight' BY <1>1, <1>7, <1>8 DEF WhileInFlight
<1>11. WhileWaiting'
  <2>1. \A q \in Requests : run'.request = q \/ Pends(q)' => q = asked'
    BY <1>0, <1>1, <1>2, <1>5, <1>7 DEF OneAtATime, WhileWaiting, Pends
  <2>2. ASSUME NEW i \in 1..Len(mail), mail[i] # Assignment PROVE ~Finishing(mail[i].request)'
    <3>1. mail[i] \in Results BY <2>2 DEF TypeOK
    <3>2. mail[i].request \in Requests /\ mail[i].answer \in Decided BY <3>1 DEF Results
    <3>3. perm[mail[i].request] # "pending" BY <2>2, <3>2 DEF Decisions, Decided
    <3>4. mail[i].request # r BY <1>1, <3>3
    <3>5. ~Finishing(mail[i].request) BY <1>0, <2>2 DEF OneAtATime, WhileWaiting
    <3>6. \A e \in Deciders : dec'[e].request # mail[i].request
      BY <1>3, <3>4, <3>5 DEF Finishing
    <3> QED BY <1>1, <3>6 DEF Finishing
  <2> QED BY <1>1, <2>1, <2>2 DEF WhileWaiting
<1>12. Denials'
  <2>1. \A e \in Deciders : dec'[e].pc = "job" /\ dec'[e].answer = "denied" => task' = "failed"
    BY <1>0, <1>1, <1>3 DEF OneAtATime, Denials
  <2>2. Finishing(r)' BY <1>3 DEF Finishing
  <2>3. \A q \in Requests : q # r /\ perm'[q] = "denied" => Finishing(q)'
    BY <1>2, <1>5, <1>7, CalmFacts
  <2> QED BY <2>1, <2>2, <2>3 DEF Denials
<1> QED BY <1>9, <1>10, <1>11, <1>12 DEF OneAtATime

\* A handler that is at work is the only one, and works for the open request.
LEMMA OneDecider ==
    ASSUME PermissionInv, Calm, NEW d \in Deciders, Deciding(d)
    PROVE  /\ dec[d].request = asked /\ asked \in Requests
           /\ dec[d].answer \in Decided /\ perm[asked] = dec[d].answer
           /\ Leased /\ ~Assigning /\ ~InFlight /\ run # Working
           /\ \A e \in Deciders : e # d => dec[e] = NotDeciding
           /\ \A r \in Requests : Pends(r) => r = asked
<1> USE DEF PermissionInv
<1>1. dec[d].request \in Requests /\ Pends(dec[d].request) BY CalmFacts
<1>2. \A r \in Requests : Pends(r) => r = asked BY CalmFacts
<1>3. dec[d].request = asked BY <1>1, <1>2
<1>4. \A e \in Deciders : Deciding(e) => dec[e].request = asked BY <1>2, CalmFacts
<1>5. \A e \in Deciders : e # d => dec[e] = NotDeciding BY <1>3, <1>4 DEF Decisions
<1>6. dec[d].answer \in Decided /\ perm[asked] = dec[d].answer BY <1>3 DEF Decisions
<1>7. Leased /\ ~Assigning /\ ~InFlight /\ run # Working BY <1>1, CalmFacts
<1> QED BY <1>1, <1>2, <1>3, <1>5, <1>6, <1>7

\* The status of a decision is written.
LEMMA CalmWriteStatus ==
    ASSUME PermissionInv, Calm, NEW d \in Deciders, WriteStatus(d)
    PROVE  OneAtATime'
<1> USE DEF PermissionInv
<1>0. OneAtATime OBVIOUS
<1>1. /\ dec[d].pc = "status" /\ dec' = [dec EXCEPT ![d].pc = "job"]
      /\ task' = IF dec[d].answer = "approved" THEN "running" ELSE "failed"
      /\ UNCHANGED <<job, perm, gw, run, inbox, mail, asked>>
  BY DEF WriteStatus, runner
<1>2. /\ dec'[d].request = dec[d].request /\ dec'[d].answer = dec[d].answer
      /\ \A e \in Deciders : e # d => dec'[e] = dec[e]
  BY <1>1 DEF TypeOK, Decision
<1>3. Deciding(d) BY <1>1 DEF Deciding
<1>4. /\ Leased /\ ~Assigning /\ ~InFlight /\ run # Working
      /\ \A e \in Deciders : e # d => dec[e] = NotDeciding
  BY <1>3, OneDecider
<1>5. \A x : Finishing(x)' <=> Finishing(x) BY <1>2 DEF Finishing
<1>6. ~Assigning' /\ ~InFlight' /\ ~Handling' /\ inbox' = <<>> /\ Leased'
  BY <1>1, <1>4 DEF Assigning, InFlight, Handling, Leased
<1>7. WithoutLease' /\ WhileAssigning' BY <1>6 DEF WithoutLease, WhileAssigning
<1>8. WhileInFlight' BY <1>1, <1>4, <1>6 DEF WhileInFlight
<1>9. WhileWaiting' BY <1>0, <1>1, <1>5 DEF OneAtATime, WhileWaiting, Pends
<1>10. Denials'
  <2>1. \A e \in Deciders : dec'[e].pc = "job" /\ dec'[e].answer = "denied" => task' = "failed"
    BY <1>1, <1>2, <1>4 DEF NotDeciding
  <2>2. \A r \in Requests : perm'[r] = "denied" => Finishing(r)' BY <1>1, <1>4, <1>5, CalmFacts
  <2> QED BY <2>1, <2>2 DEF Denials
<1> QED BY <1>7, <1>8, <1>9, <1>10 DEF OneAtATime

\* The job of a decision is renewed or failed.
LEMMA CalmWriteJob ==
    ASSUME PermissionInv, Calm, NEW d \in Deciders, WriteJob(d)
    PROVE  OneAtATime'
<1> USE DEF PermissionInv
<1>0. OneAtATime OBVIOUS
<1>1. /\ dec[d].pc = "job" /\ dec' = [dec EXCEPT ![d] = NotDeciding]
      /\ job' = IF dec[d].answer = "approved" THEN Renewed ELSE Completed("failed")
      /\ UNCHANGED <<task, perm, gw, run, inbox, mail, asked>>
  BY DEF WriteJob, runner
<1>2. Deciding(d) BY <1>1 DEF Deciding
<1>3. /\ Leased /\ ~Assigning /\ ~InFlight /\ run # Working
      /\ asked \in Requests /\ dec[d].answer \in Decided /\ perm[asked] = dec[d].answer
      /\ \A e \in Deciders : e # d => dec[e] = NotDeciding
      /\ \A r \in Requests : Pends(r) => r = asked
  BY <1>2, OneDecider
<1>4. \A e \in Deciders : dec'[e] = NotDeciding BY <1>1, <1>3 DEF TypeOK
<1>5. \A r \in Requests : ~Finishing(r)' BY <1>4, Bounds DEF Finishing, NotDeciding, NoRequest
<1>6. NothingPends'
  <2>1. \A r \in Requests : perm[r] # "pending" BY <1>3 DEF Pends, Decided
  <2> QED BY <1>1, <1>5, <2>1 DEF NothingPends, Pends
<1>7. ~Assigning' /\ ~InFlight' /\ ~Handling' /\ inbox' = <<>>
  BY <1>1, <1>3 DEF Assigning, InFlight, Handling
<1>8. WhileAssigning' BY <1>7 DEF WhileAssigning
<1>9. WhileInFlight' BY <1>1, <1>3, <1>7 DEF WhileInFlight
<1>10. WhileWaiting'
  <2>1. ASSUME NEW i \in 1..Len(mail), mail[i] # Assignment PROVE mail[i].request \in Requests
    BY <2>1 DEF TypeOK, Results
  <2>2. \A r \in Requests : run.request = r => r = asked BY <1>0 DEF OneAtATime, WhileWaiting
  <2>3. \A r \in Requests : ~Pends(r)' BY <1>6 DEF NothingPends
  <2> QED BY <1>1, <1>4, <2>1, <2>2, <2>3, Bounds
      DEF WhileWaiting, Finishing, NotDeciding, NoRequest
<1>11. \A e \in Deciders : dec'[e].pc # "job" BY <1>4 DEF NotDeciding
<1>12. CASE dec[d].answer = "approved"
  <2>1. Leased' BY <1>1, <1>3, <1>12, JobFacts DEF Leased
  <2>2. WithoutLease' BY <2>1 DEF WithoutLease
  <2>3. \A r \in Requests : perm'[r] # "denied" BY <1>1, <1>3, <1>12, CalmFacts DEF Pends
  <2>4. Denials' BY <1>11, <2>3 DEF Denials
  <2> QED BY <1>8, <1>9, <1>10, <2>2, <2>4 DEF OneAtATime
<1>13. CASE dec[d].answer = "denied"
  <2>1. job'.status = "failed" BY <1>1, <1>3, <1>13, JobFacts
  <2>2. task' = "failed" BY <1>0, <1>1, <1>13 DEF OneAtATime, Denials
  <2>3. \A r \in Requests : run'.request = r => perm'[r] = "denied"
    BY <1>0, <1>1, <1>3, <1>13 DEF OneAtATime, WhileWaiting
  <2>4. WithoutLease' BY <1>1, <1>3, <1>6, <1>7, <2>1, <2>3 DEF WithoutLease
  <2>5. Denials' BY <1>11, <2>1, <2>2 DEF Denials
  <2> QED BY <1>8, <1>9, <1>10, <2>4, <2>5 DEF OneAtATime
<1> QED BY <1>3, <1>12, <1>13 DEF Decided

\* The runner starts on the one assignment there is.
LEMMA CalmReadAssign ==
    ASSUME PermissionInv, Calm, ReadAssign
    PROVE  OneAtATime'
<1> USE DEF PermissionInv
<1>0. OneAtATime OBVIOUS
<1>1. /\ mail # <<>> /\ Head(mail) = Assignment /\ mail' = Tail(mail)
      /\ inbox' = Append(inbox, Report("accepted"))
      /\ run' = IF run = Stopped THEN Working ELSE run
      /\ UNCHANGED <<task, job, perm, gw, dec, asked>>
  BY DEF ReadAssign, Says, tables
<1>2. /\ Len(mail') = Len(mail) - 1 /\ mail[1] = Assignment /\ Len(mail) \in Nat \ {0}
      /\ \A i \in 1..Len(mail') : mail'[i] = mail[i + 1]
  BY <1>1, TailFacts DEF TypeOK
<1>3. 1 \in 1..Len(mail) /\ \A i \in 1..Len(mail') : i + 1 \in 1..Len(mail) /\ i + 1 # 1
  BY <1>2
<1>4. Assigning BY <1>2, <1>3 DEF Assigning
<1>5. Leased /\ run = Stopped /\ ~InFlight /\ NothingPends BY <1>4, CalmFacts
<1>6. gw.pc # "assign" /\ \A i \in 1..Len(mail') : mail'[i] # Assignment
  BY <1>0, <1>2, <1>3, <1>4 DEF OneAtATime, WhileAssigning
<1>7. inbox = <<>> /\ ~Handling BY <1>5 DEF InFlight
<1>8. Report("accepted") \in Messages /\ Report("accepted").kind = "accepted"
  BY MessageFacts DEF Kinds
<1>9. Len(inbox') = 1 /\ inbox'[1] = Report("accepted") BY <1>1, <1>7, <1>8, AppendFacts DEF TypeOK
<1>10. \A i \in 1..Len(inbox') : ~Final(inbox'[i]) BY <1>8, <1>9 DEF Final
<1>11. Leased' /\ ~Assigning' /\ NothingPends' /\ ~Handling'
  BY <1>1, <1>5, <1>6, <1>7, SameRequests DEF Leased, Assigning, Handling
<1>12. WithoutLease' /\ WhileAssigning' BY <1>11 DEF WithoutLease, WhileAssigning
<1>13. WhileInFlight' BY <1>10, <1>11 DEF WhileInFlight
<1>14. WhileWaiting'
  <2>1. run'.request \notin Requests BY <1>1, <1>5, Bounds DEF Working, NoRequest
  <2>2. \A i \in 1..Len(mail') : mail'[i] # Assignment => ~Finishing(mail'[i].request)
    BY <1>0, <1>2, <1>3 DEF OneAtATime, WhileWaiting
  <2> QED BY <1>1, <1>11, <2>1, <2>2, SameRequests DEF WhileWaiting, NothingPends
<1>15. Denials' BY <1>1, <1>5, NoDenials
<1> QED BY <1>12, <1>13, <1>14, <1>15 DEF OneAtATime

\* The runner goes on with an approval, and stops on a denial.
LEMMA CalmReadResult ==
    ASSUME PermissionInv, Calm, ReadResult
    PROVE  OneAtATime'
<1> USE DEF PermissionInv
<1>0. OneAtATime OBVIOUS
<1>1. /\ mail # <<>> /\ Head(mail) # Assignment /\ mail' = Tail(mail)
      /\ UNCHANGED <<task, job, perm, gw, dec, inbox, asked>>
  BY DEF ReadResult, tables
<1>2. /\ Len(mail') = Len(mail) - 1 /\ Head(mail) = mail[1] /\ Len(mail) \in Nat \ {0}
      /\ Head(mail) \in Results \cup {Assignment}
      /\ \A i \in 1..Len(mail') : mail'[i] = mail[i + 1]
  BY <1>1, TailFacts DEF TypeOK
<1>3. /\ 1 \in 1..Len(mail) /\ \A i \in 1..Len(mail') : i + 1 \in 1..Len(mail)
      /\ \A i, j \in 1..Len(mail') : i + 1 = j + 1 => i = j
  BY <1>2
<1>4. mail[1].request \in Requests /\ mail[1].answer \in Decided BY <1>1, <1>2 DEF Results
<1>5. perm[mail[1].request] = mail[1].answer BY <1>1, <1>2, <1>3 DEF Decisions
<1>6. ~Finishing(mail[1].request)
  BY <1>0, <1>1, <1>2, <1>3 DEF OneAtATime, WhileWaiting
<1>7. (Leased' <=> Leased) /\ (InFlight' <=> InFlight) /\ (Handling' <=> Handling)
      /\ (NothingPends' <=> NothingPends)
  BY <1>1, SameRequests DEF Leased, InFlight, Handling
<1>8. Assigning' => Assigning BY <1>1, <1>2, <1>3 DEF Assigning
<1>9. \A i \in 1..Len(mail') : mail'[i] # Assignment => ~Finishing(mail'[i].request)
  BY <1>0, <1>2, <1>3 DEF OneAtATime, WhileWaiting
<1>10. Denials' BY <1>0, <1>1, SameRequests DEF OneAtATime, Denials
<1>11. CASE run.request # mail[1].request
  <2>0. run.request # Head(mail).request BY <1>2, <1>11
  <2>1. run' = run BY <2>0 DEF ReadResult
  <2>2. WithoutLease' BY <1>0, <1>1, <1>7, <1>8, <2>1 DEF OneAtATime, WithoutLease
  <2>3. WhileAssigning'
    BY <1>0, <1>1, <1>2, <1>3, <1>7, <1>8, <2>1 DEF OneAtATime, WhileAssigning
  <2>4. \A m : Last(m)' <=> Last(m) BY <1>1, <2>1 DEF Last
  <2>5. WhileInFlight' BY <1>0, <1>1, <1>7, <2>1, <2>4 DEF OneAtATime, WhileInFlight
  <2>6. WhileWaiting' BY <1>0, <1>1, <1>9, <2>1, SameRequests DEF OneAtATime, WhileWaiting
  <2> QED BY <1>10, <2>2, <2>3, <2>5, <2>6 DEF OneAtATime
<1>12. ASSUME run.request = mail[1].request
       PROVE  /\ mail[1].request = asked /\ run # Stopped /\ ~Assigning /\ NothingPends
              /\ ~Assigning'
  <2>1. mail[1].request = asked BY <1>0, <1>4, <1>12 DEF OneAtATime, WhileWaiting
  <2>2. run # Stopped BY <1>4, <1>12, Bounds DEF Stopped, NoRequest
  <2>3. NothingPends
    BY <1>4, <1>5, <1>6, <2>1, CalmFacts DEF NothingPends, Pends, Decided
  <2> QED BY <1>8, <2>1, <2>2, <2>3, CalmFacts
<1>13. CASE run.request = mail[1].request /\ mail[1].answer = "approved"
  <2>1. run' = Working BY <1>2, <1>13 DEF ReadResult
  <2>2. Leased BY <1>0, <1>4, <1>5, <1>13 DEF OneAtATime, WithoutLease
  <2>3. \A m : ~Last(m) BY <1>5, <1>12, <1>13 DEF Last
  <2>4. WithoutLease' /\ WhileAssigning'
    BY <1>7, <1>12, <1>13, <2>2 DEF WithoutLease, WhileAssigning
  <2>5. WhileInFlight'
    BY <1>0, <1>1, <1>7, <1>12, <1>13, <2>3 DEF OneAtATime, WhileInFlight
  <2>6. WhileWaiting'
    <3>1. run'.request \notin Requests BY <2>1, Bounds DEF Working, NoRequest
    <3> QED BY <1>0, <1>1, <1>9, <3>1, SameRequests DEF OneAtATime, WhileWaiting
  <2> QED BY <1>10, <2>4, <2>5, <2>6 DEF OneAtATime
<1>14. CASE run.request = mail[1].request /\ mail[1].answer # "approved"
  <2>1. run' = Stopped BY <1>2, <1>14 DEF ReadResult
  <2>2. job.status = "failed" BY <1>0, <1>4, <1>5, <1>6, <1>14 DEF OneAtATime, Denials, Decided
  <2>3. ~InFlight BY <2>2, CalmFacts DEF Leased
  <2>4. inbox' = <<>> /\ ~InFlight' /\ ~Handling' BY <1>1, <1>7, <2>3 DEF InFlight
  <2>5. run' # Working /\ run'.request \notin Requests
    BY <2>1, Bounds, CalmFacts DEF Stopped, NoRequest
  <2>6. WithoutLease' /\ WhileAssigning'
    BY <1>1, <1>7, <1>12, <1>14, <2>1, <2>4, <2>5 DEF WithoutLease, WhileAssigning
  <2>7. WhileInFlight' BY <2>4, <2>5 DEF WhileInFlight
  <2>8. WhileWaiting'
    BY <1>0, <1>1, <1>9, <2>5, SameRequests DEF OneAtATime, WhileWaiting
  <2> QED BY <1>10, <2>6, <2>7, <2>8 DEF OneAtATime
<1> QED BY <1>11, <1>13, <1>14

\* While the runner works it has a lease, and none of its messages is a last one.
LEMMA WorkingFacts ==
    ASSUME PermissionInv, Calm, run = Working
    PROVE  /\ Leased /\ ~Assigning /\ NothingPends
           /\ \A i \in 1..Len(inbox) : ~Final(inbox[i])
           /\ Handling => ~Final(gw.msg)
<1>1. OneAtATime /\ Stopped # Working BY CalmFacts DEF PermissionInv
<1>2. \A m : ~Last(m) BY DEF Last, Stopped, Working
<1> QED BY <1>1, <1>2 DEF OneAtATime, WithoutLease, WhileAssigning, WhileInFlight

\* The runner speaks while it works, and a last word is its last.
LEMMA CalmSpeaking ==
    ASSUME PermissionInv, Calm, NEW m \in Messages, run = Working, inbox' = Append(inbox, m),
           UNCHANGED <<task, job, perm, gw, dec, mail>>,
           Final(m) => Last(m)', run' = Working \/ Final(m),
           run' = Working => ~Final(m),
           \A r \in Requests : run'.request = r => r = asked'
    PROVE  OneAtATime'
<1> USE DEF PermissionInv
<1>0. OneAtATime OBVIOUS
<1>1. /\ Leased /\ ~Assigning /\ NothingPends
      /\ \A i \in 1..Len(inbox) : ~Final(inbox[i])
      /\ Handling => ~Final(gw.msg)
  BY WorkingFacts
<1>2. /\ Len(inbox') = Len(inbox) + 1 /\ inbox'[Len(inbox) + 1] = m /\ Len(inbox) \in Nat
      /\ \A i \in 1..Len(inbox) : inbox'[i] = inbox[i]
  BY AppendFacts DEF TypeOK
<1>3. \A i \in 1..Len(inbox') : i \in 1..Len(inbox) \/ i = Len(inbox') BY <1>2
<1>4. Leased' /\ ~Assigning' /\ NothingPends' BY <1>1, SameRequests DEF Leased, Assigning
<1>5. WithoutLease' /\ WhileAssigning' BY <1>4 DEF WithoutLease, WhileAssigning
<1>6. WhileInFlight'
  <2>1. \A i \in 1..Len(inbox') : Final(inbox'[i]) => i = Len(inbox') /\ inbox'[i] = m
    BY <1>1, <1>2, <1>3
  <2>2. \A i \in 1..Len(inbox') : (Final(inbox[i]) => i = Len(inbox) /\ Last(inbox[i]))'
    BY <2>1 DEF Last, Final, Asks
  <2>3. (Handling /\ Final(gw.msg) => inbox = <<>> /\ Last(gw.msg))' BY <1>1 DEF Handling
  <2> QED BY <1>4, <2>2, <2>3 DEF WhileInFlight
<1>7. WhileWaiting'
  <2>1. \A r \in Requests : ~Pends(r)' BY <1>4 DEF NothingPends
  <2> QED BY <1>0, <2>1, SameRequests DEF OneAtATime, WhileWaiting
<1>8. Denials' BY <1>1, NoDenials
<1> QED BY <1>5, <1>6, <1>7, <1>8 DEF OneAtATime

\* A runner that asks, reports or ends.
LEMMA CalmRunner ==
    ASSUME PermissionInv, Calm,
           Ask \/ Progress \/ \E outcome \in {"completed", "failed"} : EndTask(outcome)
    PROVE  OneAtATime'
<1> USE DEF PermissionInv
<1>0. /\ Working.request \notin Requests /\ Stopped.request \notin Requests /\ Stopped # Working
      /\ \A r : [at |-> "waiting", request |-> r] # Working
  BY Bounds DEF Working, Stopped, NoRequest
<1>1. CASE Ask
  <2>0. PICK n \in Requests : n = asked' BY <1>1, AskFacts
  <2> DEFINE m == Message("ask", n)
  <2>1. m \in Messages /\ m.kind = "ask" /\ m.request = n BY MessageFacts
  <2>2. /\ inbox' = Append(inbox, m) /\ run = Working /\ run' = [at |-> "waiting", request |-> n]
        /\ perm[n] = "none" /\ UNCHANGED <<task, job, perm, gw, dec, mail>>
    BY <1>1, <2>0, AskFacts DEF tables
  <2> HIDE DEF m
  <2>3. Final(m) BY <2>1 DEF Final
  <2>4. Last(m)' BY <2>0, <2>1, <2>2 DEF Last, Asks
  <2>5. run' # Working /\ \A r \in Requests : run'.request = r => r = asked' BY <1>0, <2>0, <2>2
  <2> QED BY <2>1, <2>2, <2>3, <2>4, <2>5, CalmSpeaking
<1>2. CASE Progress
  <2>1. /\ inbox' = Append(inbox, Report("progress")) /\ run = Working /\ run' = Working
        /\ UNCHANGED <<task, job, perm, gw, dec, mail>>
    BY <1>2 DEF Progress, Says, tables
  <2>2. Report("progress") \in Messages /\ ~Final(Report("progress"))
    BY MessageFacts DEF Final, Kinds
  <2> QED BY <1>0, <2>1, <2>2, CalmSpeaking
<1>3. ASSUME NEW outcome \in {"completed", "failed"}, EndTask(outcome) PROVE OneAtATime'
  <2> DEFINE m == Report(outcome)
  <2>1. /\ inbox' = Append(inbox, m) /\ run = Working /\ run' = Stopped
        /\ UNCHANGED <<task, job, perm, gw, dec, mail>>
    BY <1>3 DEF EndTask, Says, tables
  <2>2. m \in Messages /\ m.kind = outcome BY MessageFacts DEF Kinds
  <2> HIDE DEF m
  <2>3. Final(m) /\ ~Asks(m) BY <2>2 DEF Final, Asks
  <2>4. Last(m)' BY <2>1, <2>3 DEF Last, Asks, m
  <2> QED BY <1>0, <2>1, <2>2, <2>3, <2>4, CalmSpeaking
<1> QED BY <1>1, <1>2, <1>3

\* A runner that restarts leaves behind what it said.
LEMMA CalmRestartRunner ==
    ASSUME PermissionInv, Calm, RestartRunner
    PROVE  OneAtATime'
<1> USE DEF PermissionInv
<1>0. OneAtATime OBVIOUS
<1>1. run' = Stopped /\ UNCHANGED <<task, job, perm, gw, dec, inbox, mail, asked>>
  BY DEF RestartRunner, tables
<1>2. run' # Working /\ run'.request \notin Requests BY <1>1, Bounds, CalmFacts DEF Stopped, NoRequest
<1>3. (Leased' <=> Leased) /\ (InFlight' <=> InFlight) /\ (Handling' <=> Handling)
      /\ (Assigning' <=> Assigning) /\ (NothingPends' <=> NothingPends)
  BY <1>1, SameRequests DEF Leased, InFlight, Handling, Assigning
<1>4. \A m : Last(m) => Last(m)' BY <1>1 DEF Last
<1>5. WithoutLease' BY <1>0, <1>1, <1>2, <1>3 DEF OneAtATime, WithoutLease
<1>6. WhileAssigning' BY <1>0, <1>1, <1>3 DEF OneAtATime, WhileAssigning
<1>7. WhileInFlight' BY <1>0, <1>1, <1>2, <1>3, <1>4 DEF OneAtATime, WhileInFlight
<1>8. WhileWaiting' BY <1>0, <1>1, <1>2, SameRequests DEF OneAtATime, WhileWaiting
<1>9. Denials' BY <1>0, <1>1, SameRequests DEF OneAtATime, Denials
<1> QED BY <1>5, <1>6, <1>7, <1>8, <1>9 DEF OneAtATime

-----------------------------------------------------------------------------
(* The theorems                                                            *)

\* A task that was started has no run, no message and no request yet.
LEMMA InitPermissionInv ==
    Init => PermissionInv
<1> SUFFICES ASSUME Init PROVE PermissionInv OBVIOUS
<1>0. /\ At("down") \in Gateway /\ At("down").pc = "down" /\ At("down").todo = {}
  BY AtFacts DEF Pcs
<1>1. TypeOK
  <2>1. 0 \in 0..MaxLeases /\ 0 \in 0..MaxRequests /\ 0 \in 0..MaxReports /\ 0 \in 0..MaxFaults
    BY Bounds
  <2>2. job \in [status : {"pending", "leased", "completed", "failed"},
                 attempts : 0..MaxLeases, due : BOOLEAN] /\ job.due = FALSE
    BY <2>1 DEF Init
  <2>3. dec \in [Deciders -> Decision] BY DEF Init, NotDeciding, Decision
  <2>4. perm \in [Requests -> Decided \cup {"none", "pending"}] BY DEF Init
  <2>5. /\ run \in [at : {"idle", "working", "waiting"}, request : Requests \cup {NoRequest}]
        /\ inbox \in Seq(Messages) /\ mail \in Seq(Results \cup {Assignment})
    BY DEF Init, Stopped
  <2> QED BY <1>0, <2>1, <2>2, <2>3, <2>4, <2>5 DEF Init, TypeOK
<1>2. Rows
  BY <1>0, Bounds DEF Init, Rows
<1>3. \A d \in Deciders : dec[d] = NotDeciding /\ ~Deciding(d) /\ dec[d].request \notin Requests
  BY Bounds DEF Init, Deciding, NotDeciding, NoRequest
<1>4. Decisions BY <1>3 DEF Init, Decisions
<1>5. ~Handling /\ ~InFlight /\ ~Assigning BY <1>0 DEF Init, Handling, InFlight, Assigning
<1>6. Asked BY <1>5 DEF Init, Asked
<1>7. Closing /\ WaitingCanBeDecided BY <1>0 DEF Init, Closing, WaitingCanBeDecided
<1>8. \A r \in Requests : ~Finishing(r) /\ perm[r] = "none" BY <1>3 DEF Init, Finishing
<1>9. NothingPends BY <1>8 DEF NothingPends, Pends
<1>10. run = Stopped /\ run # Working /\ run.request \notin Requests
  BY Bounds DEF Init, Stopped, Working, NoRequest
<1>11. WithoutLease BY <1>5, <1>9, <1>10 DEF WithoutLease
<1>12. WhileAssigning BY <1>5 DEF WhileAssigning
<1>13. WhileInFlight BY <1>5, <1>10 DEF WhileInFlight, Init
<1>14. WhileWaiting BY <1>9, <1>10 DEF WhileWaiting, NothingPends, Init
<1>15. Denials BY <1>3, <1>8 DEF Denials, Deciding
<1> QED BY <1>1, <1>2, <1>4, <1>6, <1>7, <1>11, <1>12, <1>13, <1>14, <1>15
    DEF PermissionInv, OneAtATime

\* Every step keeps the one thread of activity.
LEMMA NextKeepsOrder ==
    ASSUME PermissionInv, Next, Calm'
    PROVE  OneAtATime'
<1>1. Calm BY CalmBefore
<1>2. CASE \/ Connect \/ RecoverExpired \/ ListUnsent \/ MarkSent \/ CheckActive \/ Acknowledge
           \/ LeaseRunsOut
  BY <1>1, <1>2, CalmLooking
<1>3. CASE Lease BY <1>1, <1>3, CalmLease
<1>4. CASE Assign BY <1>1, <1>4, CalmAssign
<1>5. ASSUME NEW r \in Requests, SendResult(r) PROVE OneAtATime' BY <1>1, <1>5, CalmSendResult
<1>6. CASE Receive BY <1>1, <1>6, CalmReceive
<1>7. CASE HandleFirst BY <1>1, <1>7, CalmHandleFirst
<1>8. CASE HandleSecond BY <1>1, <1>8, CalmHandleSecond
<1>9. ASSUME NEW d \in Deciders, NEW r \in Requests, NEW answer \in Decided, Resolve(d, r, answer)
      PROVE  OneAtATime'
  BY <1>1, <1>9, CalmResolve
<1>10. ASSUME NEW d \in Deciders, DeciderStep(d) PROVE OneAtATime'
  BY <1>1, <1>10, CalmWriteStatus, CalmWriteJob DEF DeciderStep
<1>11. CASE ReadAssign BY <1>1, <1>11, CalmReadAssign
<1>12. CASE ReadResult BY <1>1, <1>12, CalmReadResult
<1>13. CASE Ask \/ Progress \/ \E outcome \in {"completed", "failed"} : EndTask(outcome)
  BY <1>1, <1>13, CalmRunner
<1>14. CASE RestartRunner BY <1>1, <1>14, CalmRestartRunner
<1>15. CASE RestartServer BY <1>1, <1>15, CalmRestartServer
<1> QED BY <1>2, <1>3, <1>4, <1>5, <1>6, <1>7, <1>8, <1>9, <1>10, <1>11, <1>12, <1>13, <1>14, <1>15
    DEF Next, SessionStep, RunnerReads

\* The invariant is inductive.
LEMMA NextKeepsPermissionInv ==
    PermissionInv /\ [Next]_vars => PermissionInv'
<1>1. ASSUME PermissionInv, Next PROVE PermissionInv'
  BY <1>1, NextKeepsRows, NextKeepsDecisions, NextKeepsAsked, NextKeepsClosing, NextKeepsWaiting,
     NextKeepsOrder DEF PermissionInv
<1>2. ASSUME PermissionInv, UNCHANGED vars PROVE PermissionInv'
  <2>1. UNCHANGED <<task, job, perm, sent, gw, dec, run, inbox, mail, asked, reports, faults,
                    lapsed, overtaken, torn>>
    BY <1>2 DEF vars, tables, runner, history
  <2>2. TypeOK' /\ Rows' /\ Closing' /\ WaitingCanBeDecided'
    BY <1>2, <2>1 DEF PermissionInv, TypeOK, Rows, Closing, WaitingCanBeDecided
  <2>3. Decisions' BY <1>2, <2>1 DEF PermissionInv, Decisions, Deciding
  <2>4. Asked' BY <1>2, <2>1 DEF PermissionInv, Asked, Handling
  <2>5. Calm' => OneAtATime'
    <3>1. Calm' => Calm BY <2>1 DEF Calm
    <3> QED BY <1>2, <2>1, <3>1, QuietStep DEF PermissionInv
  <2> QED BY <2>2, <2>3, <2>4, <2>5 DEF PermissionInv
<1> QED BY <1>1, <1>2

\* The invariant holds in every state of every behaviour.
LEMMA SpecPermissionInv ==
    Spec => []PermissionInv
BY InitPermissionInv, NextKeepsPermissionInv, PTL DEF Spec

\* Rows, messages and threads keep their types, for any bounds.
THEOREM PermissionTypes == Spec => []TypeOK
<1>1. PermissionInv => TypeOK BY DEF PermissionInv
<1> QED BY <1>1, SpecPermissionInv, PTL

\* Whatever breaks or restarts, a task the gateway put into wait_permission has a
\* request that decide_permission accepts or a decision being carried out, unless the
\* server stopped inside the handler.
THEOREM WaitingTasksCanBeDecided == Spec => []WaitingCanBeDecided
<1>1. PermissionInv => WaitingCanBeDecided BY DEF PermissionInv
<1> QED BY <1>1, SpecPermissionInv, PTL

\* A denial that decide_permission has carried out ends task and job for good.
THEOREM DenialsEndTasks == Spec => []DenialEndsTask
<1>1. PermissionInv => DenialEndsTask
  BY DEF PermissionInv, Calm, OneAtATime, Denials, DenialEndsTask
<1> QED BY <1>1, SpecPermissionInv, PTL

=============================================================================
