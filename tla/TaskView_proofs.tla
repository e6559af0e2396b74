--------------------------- MODULE TaskView_proofs ---------------------------
(***************************************************************************)
(* Proofs about TaskView, for every number of tasks, processes, events,    *)
(* calls, streams, clicks and faults: as long as no answer was lost or     *)
(* late, the page comes to show the selected task however fast the user    *)
(* clicks, and all of it when it has ended.                                *)
(***************************************************************************)
EXTENDS TaskView, TLAPS, SequenceTheorems, WellFoundedInduction

-----------------------------------------------------------------------------
(* The invariant                                                           *)

Statuses == Live \cup {"draft", "ended"}
Selected == Tasks \cup {NoTask}

Reading == {"select", "refresh", "start"}
Again == {"posted", "start", "started", "select"}
Kinds == Reading \cup {"posted", "started", "refreshed"}

Calls == [kind : Kinds, task : Tasks, status : Statuses \cup {Unread},
          events : SUBSET Ids, read : BOOLEAN]
Call == {c \in Calls : c.read => c.status # Unread}
Stream == [task : Selected, cursor : Nat, next : {"list", "status"}]

TypeOK ==
    /\ status \in [Tasks -> Statuses]
    /\ events \in [Tasks -> SUBSET Ids] /\ due \in [Tasks -> SUBSET Ids]
    /\ current \in Selected
    /\ detail \in [task : Selected, status : Statuses, events : SUBSET (Tasks \X Ids)]
    /\ calls \in Seq(Call)
    /\ streams \in [Streams -> Stream] /\ stream \in Streams \cup {NoStream}
    /\ \A s \in Streams : streams[s] # Closed => streams[s].task \in Tasks
    /\ current \notin Tasks => calls = <<>> /\ \A s \in Streams : streams[s] = Closed
    /\ {lost, late} \subseteq BOOLEAN

\* The server has the events it owes the page.
DueIsKept == \A t \in Tasks : due[t] \subseteq events[t]

\* After an answer the page is set again.
Looking(cs) == \E i \in 1..Len(cs) : cs[i].kind # "refreshed"

\* What is read for another task than the selected one was asked for before the
\* selection.
CallsInOrder(cs, cur) ==
    \A i \in 1..Len(cs) : cs[i].kind \in Reading =>
        cs[i].task = cur \/ \E j \in 1..Len(cs) : i < j /\ cs[j].kind = "select"

\* There is at most one stream, of the selected task.
OneStream ==
    \A s \in Streams : streams[s] # Closed => s = stream /\ streams[s].task = current

\* The page shows the selected task, or is about to be set again.
PageIsCurrent ==
    ~Looking(calls) => detail.task = current /\ \A e \in detail.events : e[1] = current

\* A call that has read the end of a run, and events after it, has the run's events,
\* for the run was not started again since.
CallIsWhole(c, st, du) ==
    c.status = "ended" => st[c.task] = "ended" /\ (c.read => du[c.task] \subseteq c.events)

\* If it was started again, a start or a selection follows the call.
CallsAreWhole(cs, st, du) ==
    \A i \in 1..Len(cs) :
        \/ CallIsWhole(cs[i], st, du)
        \/ \E j \in 1..Len(cs) : i < j /\ cs[j].kind \in Again

PageIsWhole ==
    detail.status = "ended" =>
        /\ detail.task \in Tasks /\ status[detail.task] = "ended"
        /\ {detail.task} \X due[detail.task] \subseteq detail.events

PageInv ==
    /\ CallsInOrder(calls, current) /\ OneStream /\ PageIsCurrent
    /\ CallsAreWhole(calls, status, due) /\ (~Looking(calls) => PageIsWhole)

ViewInv == TypeOK /\ DueIsKept /\ (~lost /\ ~late => PageInv)

-----------------------------------------------------------------------------
(* The queue of calls                                                      *)

\* A bounded set of numbers has a greatest member, and it is Max.
LEMMA MaxIsMember ==
    ASSUME NEW N \in Nat, NEW S \in SUBSET (0..N), S # {}
    PROVE  Max(S) \in S
<1> DEFINE D == {N - x : x \in S}
<1>1. D \subseteq Nat /\ D # {} OBVIOUS
<1>2. PICK d \in D : \A e \in D : ~(<<e, d>> \in OpToRel(<, Nat))
  <2> HIDE DEF D
  <2> QED BY <1>1, NatLessThanWellFounded, WFMin
<1>3. PICK x \in S : d = N - x BY <1>2
<1>4. ASSUME NEW y \in S PROVE x >= y
  <2>1. N - y \in D OBVIOUS
  <2> HIDE DEF D
  <2>2. ~(N - y < d) BY <1>1, <1>2, <2>1 DEF OpToRel
  <2>3. x \in 0..N /\ y \in 0..N OBVIOUS
  <2> QED BY <1>3, <2>2, <2>3
<1>5. \E z \in S : \A y \in S : z >= y BY <1>4
<1> QED BY <1>5 DEF Max

\* The rest of the queue when its first call is answered.
LEMMA FirstAnswered ==
    ASSUME NEW cs \in Seq(Call), NEW ds \in Seq(Call), Len(ds) = Len(cs) - 1,
           \A i \in 1..Len(ds) : ds[i] = cs[i + 1],
           NEW cur, NEW st, NEW du
    PROVE  /\ CallsInOrder(cs, cur) => CallsInOrder(ds, cur)
           /\ CallsAreWhole(cs, st, du) => CallsAreWhole(ds, st, du)
           /\ Looking(cs) /\ cs[1].kind = "refreshed" => Looking(ds)
<1>1. Len(cs) \in Nat /\ Len(ds) \in Nat BY LenProperties
<1>2. \A i \in 1..Len(ds) : i + 1 \in 1..Len(cs) BY <1>1
<1>3. ASSUME NEW i \in 1..Len(ds), NEW j \in 1..Len(cs), i + 1 < j
      PROVE  j - 1 \in 1..Len(ds) /\ i < j - 1 /\ ds[j - 1] = cs[j]
  <2>1. j - 1 \in 1..Len(ds) /\ i < j - 1 /\ (j - 1) + 1 = j BY <1>1, <1>3
  <2> QED BY <2>1
<1>4. ASSUME CallsInOrder(cs, cur) PROVE CallsInOrder(ds, cur)
  <2>1. ASSUME NEW i \in 1..Len(ds), ds[i].kind \in Reading
        PROVE  ds[i].task = cur \/ \E j \in 1..Len(ds) : i < j /\ ds[j].kind = "select"
    <3>1. ds[i] = cs[i + 1] /\ i + 1 \in 1..Len(cs) BY <1>2
    <3>2. CASE cs[i + 1].task = cur BY <3>1, <3>2
    <3>3. CASE \E j \in 1..Len(cs) : i + 1 < j /\ cs[j].kind = "select"
      <4>1. PICK j \in 1..Len(cs) : i + 1 < j /\ cs[j].kind = "select" BY <3>3
      <4>2. j - 1 \in 1..Len(ds) /\ i < j - 1 /\ ds[j - 1] = cs[j] BY <1>3, <4>1
      <4> QED BY <4>1, <4>2
    <3> QED BY <1>4, <2>1, <3>1, <3>2, <3>3 DEF CallsInOrder
  <2> QED BY <2>1 DEF CallsInOrder
<1>5. ASSUME CallsAreWhole(cs, st, du) PROVE CallsAreWhole(ds, st, du)
  <2>1. ASSUME NEW i \in 1..Len(ds)
        PROVE  \/ CallIsWhole(ds[i], st, du)
               \/ \E j \in 1..Len(ds) : i < j /\ ds[j].kind \in Again
    <3>1. ds[i] = cs[i + 1] /\ i + 1 \in 1..Len(cs) BY <1>2
    <3>2. CASE CallIsWhole(cs[i + 1], st, du) BY <3>1, <3>2
    <3>3. CASE \E j \in 1..Len(cs) : i + 1 < j /\ cs[j].kind \in Again
      <4>1. PICK j \in 1..Len(cs) : i + 1 < j /\ cs[j].kind \in Again BY <3>3
      <4>2. j - 1 \in 1..Len(ds) /\ i < j - 1 /\ ds[j - 1] = cs[j] BY <1>3, <4>1
      <4> QED BY <4>1, <4>2
    <3> QED BY <1>5, <3>1, <3>2, <3>3 DEF CallsAreWhole
  <2> QED BY <2>1 DEF CallsAreWhole
<1>6. ASSUME Looking(cs), cs[1].kind = "refreshed" PROVE Looking(ds)
  <2>1. PICK j \in 1..Len(cs) : cs[j].kind # "refreshed" BY <1>6 DEF Looking
  <2>2. j # 1 BY <1>6, <2>1
  <2>3. j - 1 \in 1..Len(ds) /\ (j - 1) + 1 = j BY <1>1, <2>2
  <2> QED BY <2>1, <2>3 DEF Looking
<1> QED BY <1>4, <1>5, <1>6

\* A call is made.
LEMMA Appended ==
    ASSUME NEW cs \in Seq(Call), NEW c \in Call
    PROVE  /\ Append(cs, c) \in Seq(Call)
           /\ Len(cs) \in Nat /\ Len(Append(cs, c)) = Len(cs) + 1 /\ Append(cs, c) # <<>>
           /\ \A i \in 1..Len(cs) : i \in 1..Len(cs) + 1 /\ Append(cs, c)[i] = cs[i]
           /\ Append(cs, c)[Len(cs) + 1] = c
           /\ \A i \in 1..Len(cs) + 1 : i \in 1..Len(cs) \/ i = Len(cs) + 1
<1>1. /\ Append(cs, c) \in Seq(Call) /\ Len(cs) \in Nat /\ Len(Append(cs, c)) = Len(cs) + 1
      /\ \A i \in 1..Len(cs) : Append(cs, c)[i] = cs[i]
      /\ Append(cs, c)[Len(cs) + 1] = c
    BY AppendProperties, LenProperties
<1>2. /\ \A i \in 1..Len(cs) : i \in 1..Len(cs) + 1
      /\ \A i \in 1..Len(cs) + 1 : i \in 1..Len(cs) \/ i = Len(cs) + 1
    BY <1>1
<1>3. Append(cs, c) # <<>> BY <1>1, EmptySeq
<1> QED BY <1>1, <1>2, <1>3

\* The call of selectTask: it is the last that reads.
LEMMA SelectionMade ==
    ASSUME NEW cs \in Seq(Call), NEW t \in Tasks, NEW c \in Call,
           c.kind = "select", c.task = t, NEW st, NEW du, CallIsWhole(c, st, du)
    PROVE  /\ CallsInOrder(Append(cs, c), t) /\ Looking(Append(cs, c))
           /\ CallsAreWhole(Append(cs, c), st, du)
<1> DEFINE n == Len(cs) + 1
           ds == Append(cs, c)
<1>1. /\ Len(ds) = n /\ n \in 1..n /\ ds[n] = c /\ Len(cs) \in Nat
      /\ \A i \in 1..Len(cs) : i \in 1..n /\ ds[i] = cs[i]
      /\ \A i \in 1..n : i \in 1..Len(cs) \/ i = n
    BY Appended
<1>2. \A i \in 1..Len(cs) : i < n BY <1>1
<1> HIDE DEF n, ds
<1>3. Looking(ds) BY <1>1 DEF Looking
<1>4. CallsInOrder(ds, t) BY <1>1, <1>2 DEF CallsInOrder
<1>5. CallsAreWhole(ds, st, du) BY <1>1, <1>2 DEF CallsAreWhole, Again
<1> QED BY <1>3, <1>4, <1>5 DEF ds

\* Another call: what it reads is about the selected task.
LEMMA CallMade ==
    ASSUME NEW cs \in Seq(Call), NEW cur, NEW c \in Call,
           c.kind \in Reading => c.task = cur,
           CallsInOrder(cs, cur)
    PROVE  /\ CallsInOrder(Append(cs, c), cur)
           /\ Looking(Append(cs, c)) <=> Looking(cs) \/ c.kind # "refreshed"
           /\ \A st, du : CallIsWhole(c, st, du) /\ (CallsAreWhole(cs, st, du) \/ c.kind \in Again)
                 => CallsAreWhole(Append(cs, c), st, du)
<1> DEFINE n == Len(cs) + 1
           ds == Append(cs, c)
<1>1. /\ Len(ds) = n /\ n \in 1..n /\ ds[n] = c /\ Len(cs) \in Nat
      /\ \A i \in 1..Len(cs) : i \in 1..n /\ ds[i] = cs[i]
      /\ \A i \in 1..n : i \in 1..Len(cs) \/ i = n
    BY Appended
<1>2. \A i \in 1..Len(cs) : i < n BY <1>1
<1> HIDE DEF n, ds
<1>3. Looking(ds) <=> Looking(cs) \/ c.kind # "refreshed" BY <1>1 DEF Looking
<1>4. CallsInOrder(ds, cur)
  <2>1. ASSUME NEW i \in 1..n, ds[i].kind \in Reading
        PROVE  ds[i].task = cur \/ \E j \in 1..n : i < j /\ ds[j].kind = "select"
    <3>1. CASE i \in 1..Len(cs) BY <1>1, <2>1, <3>1 DEF CallsInOrder
    <3>2. CASE i = n BY <1>1, <2>1, <3>2
    <3> QED BY <1>1, <3>1, <3>2
  <2> QED BY <1>1, <2>1 DEF CallsInOrder
<1>5. ASSUME NEW st, NEW du, CallIsWhole(c, st, du),
             CallsAreWhole(cs, st, du) \/ c.kind \in Again
      PROVE  CallsAreWhole(ds, st, du)
  <2>1. CASE c.kind \in Again BY <1>1, <1>2, <1>5, <2>1 DEF CallsAreWhole
  <2>2. CASE CallsAreWhole(cs, st, du)
    <3>1. ASSUME NEW i \in 1..n
          PROVE  \/ CallIsWhole(ds[i], st, du)
                 \/ \E j \in 1..n : i < j /\ ds[j].kind \in Again
      <4>1. CASE i \in 1..Len(cs) BY <1>1, <2>2, <4>1 DEF CallsAreWhole
      <4>2. CASE i = n BY <1>1, <1>5, <4>2
      <4> QED BY <1>1, <4>1, <4>2
    <3> QED BY <1>1, <3>1 DEF CallsAreWhole
  <2> QED BY <1>5, <2>1, <2>2
<1> QED BY <1>3, <1>4, <1>5 DEF ds

\* A new call.
LEMMA Unasked ==
    ASSUME NEW kind \in Kinds, NEW t \in Tasks, NEW st, NEW du
    PROVE  /\ Asking(kind, t) \in Call /\ CallIsWhole(Asking(kind, t), st, du)
           /\ Asking(kind, t).kind = kind /\ Asking(kind, t).task = t
<1> DEFINE c == Asking(kind, t)
<1>1. c.kind = kind /\ c.task = t /\ c.status = Unread /\ ~c.read BY DEF Asking
<1>2. c \in Calls BY Zenon DEF Calls, Asking, Unread
<1> HIDE DEF c
<1>3. CallIsWhole(c, st, du) BY <1>1 DEF CallIsWhole, Unread
<1> QED BY <1>1, <1>2, <1>3 DEF Call, c

\* A new call that has nothing to read.
LEMMA Awaited ==
    ASSUME NEW kind \in Kinds, NEW t \in Tasks, NEW st, NEW du
    PROVE  /\ Awaiting(kind, t) \in Call /\ CallIsWhole(Awaiting(kind, t), st, du)
           /\ Awaiting(kind, t).kind = kind /\ Awaiting(kind, t).task = t
<1> DEFINE c == Awaiting(kind, t)
<1>1. Asking(kind, t) \in Calls BY Unasked DEF Call
<1>2. "draft" \in Statuses BY DEF Statuses
<1>3. c \in Calls BY <1>1, <1>2 DEF Awaiting, Calls
<1>5. c.kind = kind /\ c.task = t /\ c.status = "draft"
    BY <1>1, Unasked DEF Awaiting, Calls
<1> HIDE DEF c
<1>4. CallIsWhole(c, st, du) /\ c.status # Unread BY <1>5 DEF CallIsWhole, Unread
<1> QED BY <1>3, <1>4, <1>5 DEF Call, c

-----------------------------------------------------------------------------
(* Types                                                                   *)

\* Fields of a call.
LEMMA CallFields ==
    ASSUME NEW c \in Call
    PROVE  /\ c.kind \in Kinds /\ c.task \in Tasks
           /\ c.status \in Statuses \cup {Unread} /\ c.events \subseteq Ids
           /\ c.read => c.status \in Statuses
BY DEF Call, Calls

\* The calls that are left when the one at i is answered.
LEMMA OthersLeft ==
    ASSUME TypeOK, NEW i \in DOMAIN calls
    PROVE  /\ i \in 1..Len(calls) /\ calls[i] \in Call
           /\ Others(i) \in Seq(Call) /\ Len(Others(i)) = Len(calls) - 1 /\ Len(calls) \in Nat
           /\ i = 1 => \A j \in 1..Len(Others(i)) : Others(i)[j] = calls[j + 1]
<1>1. /\ calls \in Seq(Call) /\ Len(calls) \in Nat /\ DOMAIN calls = 1..Len(calls)
    BY LenProperties DEF TypeOK
<1>2. \A j \in 1..Len(calls) : calls[j] \in Call BY <1>1, ElementOfSeq
<1>3. \A j \in 1..Len(calls) - 1 : (IF j < i THEN j ELSE j + 1) \in 1..Len(calls) BY <1>1
<1>4. Len(calls) - 1 \in Nat BY <1>1
<1>5. \A j \in 1..Len(calls) - 1 : Others(i)[j] \in Call BY <1>2, <1>3 DEF Others
<1>6. Others(i) \in [1..Len(calls) - 1 -> Call] BY <1>5 DEF Others
<1>7. Others(i) \in Seq(Call) BY <1>4, <1>6, SeqDef
<1>8. Len(Others(i)) = Len(calls) - 1
  <2>1. DOMAIN Others(i) = 1..Len(calls) - 1 BY DEF Others
  <2>2. Len(Others(i)) \in Nat /\ DOMAIN Others(i) = 1..Len(Others(i)) BY <1>7, LenProperties
  <2> QED BY <1>4, <2>1, <2>2
<1>9. ASSUME i = 1, NEW j \in 1..Len(calls) - 1 PROVE Others(i)[j] = calls[j + 1]
  <2>1. ~(j < i) BY <1>9
  <2> QED BY <2>1 DEF Others
<1> QED BY <1>1, <1>2, <1>7, <1>8, <1>9

\* Closing the stream that state.stream names.
LEMMA StreamClosed ==
    ASSUME TypeOK
    PROVE  /\ Closed \in Stream
           /\ CloseCurrent \in [Streams -> Stream]
           /\ \A r \in Streams : CloseCurrent[r] = IF r = stream THEN Closed ELSE streams[r]
<1>1. Closed \in Stream BY DEF Closed, Stream, Selected
<1>2. 0 \notin Streams BY DEF Streams
<1> QED BY <1>1, <1>2 DEF TypeOK, CloseCurrent, NoStream

\* selectTask keeps the types.
LEMMA SelectTypes ==
    ASSUME TypeOK, NEW t \in Tasks, NEW rest \in Seq(Call), SelectNow(t, rest)
    PROVE  /\ streams' \in [Streams -> Stream] /\ stream' \in Streams \cup {NoStream}
           /\ \A s \in Streams : streams'[s] # Closed => streams'[s].task \in Tasks
           /\ current' \in Selected /\ calls' \in Seq(Call)
<1>1. Asking("select", t) \in Call BY Unasked DEF Kinds, Reading
<1>2. calls' \in Seq(Call) BY <1>1, Appended DEF SelectNow
<1>3. streams' = CloseCurrent /\ stream' = NoStream /\ current' = t BY DEF SelectNow
<1>4. \A s \in Streams : streams'[s] # Closed => streams'[s].task \in Tasks
    BY <1>3, StreamClosed DEF TypeOK
<1> QED BY <1>2, <1>3, <1>4, StreamClosed DEF Selected

\* The end of a stream keeps the types.
LEMMA EndTypes ==
    ASSUME TypeOK, NEW s \in Streams, streams[s] # Closed, EndStream(s)
    PROVE  /\ streams' \in [Streams -> Stream] /\ stream' = NoStream
           /\ \A r \in Streams : streams'[r] # Closed => streams'[r].task \in Tasks
<1>1. streams[s].task \in Tasks BY DEF TypeOK
<1>2. /\ Closed \in Stream /\ [Closed EXCEPT !.task = streams[s].task] \in Stream
      /\ [Closed EXCEPT !.task = streams[s].task].task = streams[s].task
    BY <1>1 DEF Closed, Stream, Selected
<1>3. \A r \in Streams : streams[r] \in Stream /\ (streams[r] # Closed => streams[r].task \in Tasks)
    BY DEF TypeOK
<1>4. /\ streams' = [r \in Streams |->
                      IF r = stream THEN Closed
                      ELSE IF r = s THEN [Closed EXCEPT !.task = streams[s].task]
                      ELSE streams[r]]
      /\ stream' = NoStream
    BY DEF EndStream
<1> QED BY <1>1, <1>2, <1>3, <1>4

\* What the page shows of an answer.
LEMMA ShownTypes ==
    ASSUME NEW c \in Call, c.read
    PROVE  /\ Shown(c) \in [task : Selected, status : Statuses, events : SUBSET (Tasks \X Ids)]
           /\ Shown(c).task = c.task /\ Shown(c).status = c.status
           /\ Shown(c).events = {c.task} \X c.events
<1>1. c.task \in Tasks /\ c.status \in Statuses /\ c.events \subseteq Ids BY CallFields
<1>2. c.task \in Selected BY <1>1 DEF Selected
<1>3. {c.task} \X c.events \subseteq Tasks \X Ids BY <1>1
<1> QED BY <1>1, <1>2, <1>3 DEF Shown

\* A call reads the status of the task, or its events.
LEMMA CallReads ==
    ASSUME TypeOK, NEW i \in DOMAIN calls, ReadStatus(i) \/ ReadEvents(i)
    PROVE  /\ calls' \in Seq(Call) /\ Len(calls') = Len(calls) /\ Len(calls) \in Nat
           /\ i \in 1..Len(calls)
           /\ \A j \in 1..Len(calls) : j # i => calls'[j] = calls[j]
           /\ \A j \in 1..Len(calls) :
                 calls'[j].kind = calls[j].kind /\ calls'[j].task = calls[j].task
           /\ \/ /\ calls'[i].status = status[calls[i].task] /\ ~calls'[i].read
              \/ /\ calls'[i].status = calls[i].status
                 /\ calls'[i].events = events[calls[i].task]
<1>1. /\ calls \in Seq(Call) /\ Len(calls) \in Nat /\ DOMAIN calls = 1..Len(calls)
    BY LenProperties DEF TypeOK
<1> DEFINE c == calls[i]
<1>2. c \in Call /\ c \in Calls /\ c.task \in Tasks BY <1>1, ElementOfSeq, CallFields DEF Call
<1>3. status[c.task] \in Statuses /\ events[c.task] \subseteq Ids BY <1>2 DEF TypeOK
<1> HIDE DEF c
<1>4. CASE ReadStatus(i)
  <2> DEFINE d == [c EXCEPT !.status = status[c.task]]
  <2>1. c.status = Unread /\ calls' = [calls EXCEPT ![i] = d] BY <1>4 DEF ReadStatus, c
  <2>2. ~c.read BY <1>2, <2>1 DEF Call
  <2>3. /\ d.kind = c.kind /\ d.task = c.task /\ d.read = c.read
        /\ d.status = status[c.task] /\ d \in Calls
    BY <1>2, <1>3 DEF Calls
  <2>4. d \in Call BY <2>2, <2>3 DEF Call
  <2> HIDE DEF d
  <2>5. /\ calls' \in Seq(Call) /\ Len(calls') = Len(calls) /\ calls'[i] = d
        /\ \A j \in 1..Len(calls) : j # i => calls'[j] = calls[j]
    BY <1>1, <2>1, <2>4, ExceptSeq
  <2> QED BY <1>1, <2>2, <2>3, <2>5 DEF c
<1>5. CASE ReadEvents(i)
  <2> DEFINE d == [c EXCEPT !.events = events[c.task], !.read = TRUE]
  <2>1. c.status # Unread /\ calls' = [calls EXCEPT ![i] = d] BY <1>5 DEF ReadEvents, c
  <2>2. /\ d.kind = c.kind /\ d.task = c.task /\ d.status = c.status
        /\ d.events = events[c.task] /\ d \in Calls
    BY <1>2, <1>3 DEF Calls
  <2>3. d \in Call BY <2>1, <2>2 DEF Call
  <2> HIDE DEF d
  <2>4. /\ calls' \in Seq(Call) /\ Len(calls') = Len(calls) /\ calls'[i] = d
        /\ \A j \in 1..Len(calls) : j # i => calls'[j] = calls[j]
    BY <1>1, <2>1, <2>3, ExceptSeq
  <2> QED BY <1>1, <2>2, <2>4 DEF c
<1> QED BY <1>4, <1>5

\* A stream sends the events that are new to it, and only moves its cursor.
LEMMA EventsSent ==
    ASSUME TypeOK, NEW s \in Streams, StreamEvents(s)
    PROVE  /\ streams[s] # Closed /\ streams[s].task \in Tasks
           /\ streams' \in [Streams -> Stream] /\ streams'[s].task = streams[s].task
           /\ \A r \in Streams : r # s => streams'[r] = streams[r]
           /\ detail' \in [task : Selected, status : Statuses, events : SUBSET (Tasks \X Ids)]
           /\ detail'.task = detail.task /\ detail'.status = detail.status
           /\ detail'.events = detail.events \cup ({streams[s].task} \X Fresh(s))
<1> DEFINE str == streams[s]
<1>1. str # Closed /\ str.task \in Tasks /\ str \in Stream BY DEF StreamEvents, TypeOK
<1>2. str.cursor \in Nat /\ MaxEvents \in Nat BY <1>1, ViewConstants DEF Stream
<1>3. Fresh(s) \subseteq 1..MaxEvents BY <1>1 DEF TypeOK, Fresh, Ids
<1> DEFINE top == Max(Fresh(s) \cup {str.cursor})
           N == MaxEvents + str.cursor
<1>4. top \in Nat
  <2>1. N \in Nat /\ 1..MaxEvents \subseteq 0..N /\ str.cursor \in 0..N BY <1>2
  <2>2. Fresh(s) \cup {str.cursor} \in SUBSET (0..N) BY <1>3, <2>1
  <2> HIDE DEF N
  <2>3. top \in Fresh(s) \cup {str.cursor} BY <2>1, <2>2, MaxIsMember
  <2> QED BY <2>1, <2>2, <2>3
<1> DEFINE new == [str EXCEPT !.next = "status", !.cursor = top]
<1>5. streams' = [streams EXCEPT ![s] = new] BY DEF StreamEvents
<1> HIDE DEF top
<1>6. new \in Stream /\ new.task = str.task BY <1>1, <1>4 DEF Stream
<1> HIDE DEF new, str
<1>7. /\ streams' \in [Streams -> Stream] /\ streams'[s] = new
      /\ \A r \in Streams : r # s => streams'[r] = streams[r]
    BY <1>5, <1>6 DEF TypeOK
<1>8. {str.task} \X Fresh(s) \subseteq Tasks \X Ids BY <1>1, <1>3 DEF Ids
<1>9. detail' = [detail EXCEPT !.events = @ \cup ({str.task} \X Fresh(s))]
    BY DEF StreamEvents, str
<1>10. /\ detail' \in [task : Selected, status : Statuses, events : SUBSET (Tasks \X Ids)]
       /\ detail'.task = detail.task /\ detail'.status = detail.status
       /\ detail'.events = detail.events \cup ({str.task} \X Fresh(s))
  <2>1. detail \in [task : Selected, status : Statuses, events : SUBSET (Tasks \X Ids)]
    BY DEF TypeOK
  <2> HIDE DEF str
  <2>2. detail.events \cup ({str.task} \X Fresh(s)) \in SUBSET (Tasks \X Ids) BY <1>8, <2>1
  <2> QED BY <1>9, <2>1, <2>2
<1> QED BY <1>1, <1>6, <1>7, <1>10 DEF str

\* A stream sends the status of its task.
LEMMA StatusSent ==
    ASSUME TypeOK, NEW s \in Streams, StreamStatus(s)
    PROVE  /\ streams[s] # Closed /\ streams[s].task \in Tasks
           /\ detail' \in [task : Selected, status : Statuses, events : SUBSET (Tasks \X Ids)]
           /\ detail'.task = streams[s].task /\ detail'.status = status[streams[s].task]
           /\ detail'.events = detail.events
           /\ \/ status[streams[s].task] = "ended" /\ EndStream(s)
              \/ /\ status[streams[s].task] # "ended" /\ stream' = stream
                 /\ streams' \in [Streams -> Stream] /\ streams'[s].task = streams[s].task
                 /\ \A r \in Streams : r # s => streams'[r] = streams[r]
           /\ \/ calls' = Append(calls, Asking("refresh", current))
              \/ calls' = calls /\ (status[streams[s].task] = "ended" => stream = NoStream)
<1> DEFINE t == streams[s].task
           st == status[t]
<1>1. streams[s] # Closed /\ t \in Tasks /\ streams[s] \in Stream BY DEF StreamStatus, TypeOK
<1>2. st \in Statuses /\ t \in Selected BY <1>1 DEF TypeOK, Selected
<1>3. detail' = [detail EXCEPT !.task = t, !.status = st] BY DEF StreamStatus
<1>4. detail \in [task : Selected, status : Statuses, events : SUBSET (Tasks \X Ids)]
    BY DEF TypeOK
<1>5. /\ detail' \in [task : Selected, status : Statuses, events : SUBSET (Tasks \X Ids)]
      /\ detail'.task = t /\ detail'.status = st /\ detail'.events = detail.events
  <2> HIDE DEF t, st
  <2> QED BY <1>2, <1>3, <1>4
<1>6. \/ st = "ended" /\ EndStream(s)
      \/ /\ st # "ended" /\ stream' = stream
         /\ streams' = [streams EXCEPT ![s].next = "list"]
    BY DEF StreamStatus
<1>7. ASSUME streams' = [streams EXCEPT ![s].next = "list"]
      PROVE  /\ streams' \in [Streams -> Stream] /\ streams'[s].task = t
             /\ \A r \in Streams : r # s => streams'[r] = streams[r]
  <2>1. /\ [streams[s] EXCEPT !.next = "list"] \in Stream
        /\ [streams[s] EXCEPT !.next = "list"].task = t
    BY <1>1 DEF Stream
  <2> QED BY <1>7, <2>1 DEF TypeOK
<1>8. \/ calls' = Append(calls, Asking("refresh", current))
      \/ calls' = calls /\ (st = "ended" => stream = NoStream)
    BY DEF StreamStatus, RefreshesAfter
<1> QED BY <1>1, <1>5, <1>6, <1>7, <1>8

\* Every step keeps the types.
LEMMA NextKeepsTypes ==
    ASSUME TypeOK, Next
    PROVE  TypeOK'
<1> DEFINE Details == [task : Selected, status : Statuses, events : SUBSET (Tasks \X Ids)]
<1>0. /\ status \in [Tasks -> Statuses]
      /\ events \in [Tasks -> SUBSET Ids] /\ due \in [Tasks -> SUBSET Ids]
      /\ current \in Selected /\ detail \in Details /\ calls \in Seq(Call)
      /\ streams \in [Streams -> Stream] /\ stream \in Streams \cup {NoStream}
      /\ \A s \in Streams : streams[s] # Closed => streams[s].task \in Tasks
      /\ current \notin Tasks => calls = <<>> /\ \A s \in Streams : streams[s] = Closed
      /\ lost \in BOOLEAN /\ late \in BOOLEAN
    BY DEF TypeOK
<1>1. ASSUME status' \in [Tasks -> Statuses], events' \in [Tasks -> SUBSET Ids],
             due' \in [Tasks -> SUBSET Ids], current' \in Selected, detail' \in Details,
             calls' \in Seq(Call), streams' \in [Streams -> Stream],
             stream' \in Streams \cup {NoStream},
             \A s \in Streams : streams'[s] # Closed => streams'[s].task \in Tasks,
             current' \in Tasks \/ (calls' = <<>> /\ \A s \in Streams : streams'[s] = Closed),
             lost' \in BOOLEAN, late' \in BOOLEAN
      PROVE  TypeOK'
    BY <1>1 DEF TypeOK
<1> HIDE DEF Details
<1>2. ASSUME NEW t \in Tasks, AddEvent(t) PROVE TypeOK'
  <2>1. events' \in [Tasks -> SUBSET Ids] BY <1>0, <1>2 DEF AddEvent, Unused
  <2> QED BY <1>0, <1>1, <1>2, <2>1 DEF AddEvent, client
<1>3. ASSUME NEW t \in Tasks, Toggle(t) PROVE TypeOK'
  <2>1. (CHOOSE s \in Live : s # status[t]) \in Live BY DEF Live
  <2>2. status' \in [Tasks -> Statuses] BY <1>0, <1>3, <2>1 DEF Toggle, Statuses
  <2> QED BY <1>0, <1>1, <1>3, <2>2 DEF Toggle, client
<1>4. ASSUME NEW t \in Tasks, EndRun(t) PROVE TypeOK'
  <2>1. status' \in [Tasks -> Statuses] /\ due' \in [Tasks -> SUBSET Ids]
    BY <1>0, <1>4 DEF EndRun, Statuses
  <2> QED BY <1>0, <1>1, <1>4, <2>1 DEF EndRun, client
<1>5. ASSUME NEW t \in Tasks, NEW rest \in Seq(Call), SelectNow(t, rest)
      PROVE  /\ streams' \in [Streams -> Stream] /\ stream' \in Streams \cup {NoStream}
             /\ \A s \in Streams : streams'[s] # Closed => streams'[s].task \in Tasks
             /\ current' \in Selected /\ current' \in Tasks /\ calls' \in Seq(Call)
    BY <1>5, SelectTypes DEF SelectNow
<1>6. ASSUME NEW t \in Tasks, Select(t) PROVE TypeOK'
    BY <1>0, <1>1, <1>5, <1>6 DEF Select, server
<1>7. CASE Act \/ StartCurrent
  <2>1. current \in Tasks
    BY <1>0, <1>7 DEF Act, StartCurrent, Selected
  <2>2. /\ Append(calls, Asking("refresh", current)) \in Seq(Call)
        /\ Append(calls, Awaiting("posted", current)) \in Seq(Call)
        /\ Append(calls, Awaiting("started", current)) \in Seq(Call)
    BY <1>0, <2>1, Unasked, Awaited, Appended DEF Kinds, Reading
  <2>3. CASE Act
    BY <1>0, <1>1, <2>1, <2>2, <2>3 DEF Act, server
  <2>4. CASE StartCurrent
    <3>1. status' \in [Tasks -> Statuses] /\ due' \in [Tasks -> SUBSET Ids]
      BY <1>0, <2>4 DEF StartCurrent, Statuses, Live
    <3>2. calls' \in Seq(Call) BY <2>2, <2>4 DEF StartCurrent
    <3> QED BY <1>0, <1>1, <2>1, <2>4, <3>1, <3>2 DEF StartCurrent
  <2> QED BY <1>7, <2>3, <2>4
<1>8. ASSUME NEW i \in DOMAIN calls, ReadStatus(i) \/ ReadEvents(i) PROVE TypeOK'
  <2>1. calls' \in Seq(Call) BY <1>8, CallReads
  <2>2. UNCHANGED <<server, current, detail, streams, stream, lost, late>>
    BY <1>8 DEF ReadStatus, ReadEvents
  <2>3. current \in Tasks BY <1>0, <1>8
  <2> QED BY <1>0, <1>1, <2>1, <2>2, <2>3 DEF server
<1>9. ASSUME NEW i \in DOMAIN calls, Answer(i) PROVE TypeOK'
  <2>1. calls[i] \in Call /\ calls[i].read /\ Others(i) \in Seq(Call) /\ current \in Tasks
    BY <1>0, <1>9, OthersLeft DEF Answer
  <2>2. Shown(calls[i]) \in Details BY <2>1, ShownTypes DEF Details
  <2>0. UNCHANGED <<server, lost>> /\ late' \in BOOLEAN BY <1>9 DEF Answer
  <2>8. calls[i].task \in Tasks BY <2>1, CallFields
  <2>3. CASE AnswerSelect(i)
    <3>1. streams' \in [Streams -> Stream] /\ stream' \in Streams \cup {NoStream}
          /\ \A s \in Streams : streams'[s] # Closed => streams'[s].task \in Tasks
      <4>1. CASE UNCHANGED <<streams, stream>> BY <1>0, <4>1
      <4>2. CASE \E s \in Streams :
                   /\ streams' = [streams EXCEPT ![s] = [Closed EXCEPT !.task = calls[i].task]]
                   /\ stream' = s
        <5>1. /\ calls[i].task \in Tasks
              /\ [Closed EXCEPT !.task = calls[i].task] \in Stream
              /\ [Closed EXCEPT !.task = calls[i].task].task = calls[i].task
          BY <2>1, CallFields DEF Closed, Stream, Selected
        <5> QED BY <1>0, <4>2, <5>1
      <4> QED BY <2>3, <4>1, <4>2 DEF AnswerSelect
    <3>2. detail' = Shown(calls[i]) /\ calls' = Others(i) /\ current' = current
      BY <2>3 DEF AnswerSelect
    <3> QED BY <1>0, <1>1, <2>0, <2>1, <2>2, <3>1, <3>2 DEF server
  <2>4. CASE AnswerRefresh(i)
    <3>1. Awaiting(Listing(calls[i].kind), calls[i].task) \in Call
      BY <2>8, Awaited DEF Listing, Kinds
    <3>2. calls' \in Seq(Call) BY <2>1, <2>4, <3>1, Appended DEF AnswerRefresh
    <3> QED BY <1>0, <1>1, <2>0, <2>1, <2>2, <2>4, <3>2 DEF AnswerRefresh, server
  <2>5. CASE AnswerList(i)
    BY <1>0, <1>1, <2>0, <2>1, <2>5 DEF AnswerList, server
  <2>6. CASE AnswerPost(i)
    <3>1. Asking("start", current) \in Call BY <2>1, Unasked DEF Kinds, Reading
    <3>2. calls' \in Seq(Call) BY <2>1, <2>6, <3>1, Appended DEF AnswerPost
    <3> QED BY <1>0, <1>1, <2>0, <2>1, <2>6, <3>2 DEF AnswerPost, server
  <2>7. CASE AnswerStart(i)
    BY <1>0, <1>1, <1>5, <2>0, <2>1, <2>7 DEF AnswerStart, server
  <2> QED BY <1>9, <2>3, <2>4, <2>5, <2>6, <2>7 DEF Answer
<1>10. ASSUME NEW i \in DOMAIN calls, AnswerLost(i) PROVE TypeOK'
  <2>1. Others(i) \in Seq(Call) /\ current \in Tasks BY <1>0, <1>10, OthersLeft
  <2>2. UNCHANGED <<server, detail, late>> /\ lost' = TRUE BY <1>10 DEF AnswerLost
  <2>3. CASE SelectNow(current, Others(i))
    BY <1>0, <1>1, <1>5, <2>1, <2>2, <2>3 DEF server
  <2>4. CASE calls' = Others(i) /\ UNCHANGED <<current, streams, stream>>
    BY <1>0, <1>1, <2>1, <2>2, <2>4 DEF server
  <2> QED BY <1>10, <2>3, <2>4 DEF AnswerLost
<1>11. ASSUME NEW s \in Streams, StreamEvents(s) PROVE TypeOK'
  <2>1. /\ streams' \in [Streams -> Stream] /\ detail' \in Details
        /\ streams[s] # Closed /\ streams'[s].task \in Tasks
        /\ \A r \in Streams : r # s => streams'[r] = streams[r]
    BY <1>11, EventsSent DEF Details
  <2>2. UNCHANGED <<server, current, calls, stream, lost, late>> BY <1>11 DEF StreamEvents
  <2>3. \A r \in Streams : streams'[r] # Closed => streams'[r].task \in Tasks BY <1>0, <2>1
  <2> QED BY <1>0, <1>1, <2>1, <2>2, <2>3 DEF server
<1>12. ASSUME NEW s \in Streams, StreamStatus(s) PROVE TypeOK'
  <2>1. /\ streams[s] # Closed /\ streams[s].task \in Tasks /\ detail' \in Details
    BY <1>12, StatusSent DEF Details
  <2>2. UNCHANGED <<server, current, lost, late>> BY <1>12 DEF StreamStatus
  <2>3. current \in Tasks BY <1>0, <2>1
  <2>4. calls' \in Seq(Call)
    <3>1. Append(calls, Asking("refresh", current)) \in Seq(Call)
      BY <1>0, <2>3, Unasked, Appended DEF Kinds, Reading
    <3> QED BY <1>0, <1>12, <3>1, StatusSent
  <2>5. /\ streams' \in [Streams -> Stream] /\ stream' \in Streams \cup {NoStream}
        /\ \A r \in Streams : streams'[r] # Closed => streams'[r].task \in Tasks
    <3>1. CASE EndStream(s) BY <2>1, <3>1, EndTypes
    <3>2. CASE /\ stream' = stream
               /\ streams' \in [Streams -> Stream] /\ streams'[s].task = streams[s].task
               /\ \A r \in Streams : r # s => streams'[r] = streams[r]
      BY <1>0, <2>1, <3>2
    <3> QED BY <1>12, <3>1, <3>2, StatusSent
  <2> QED BY <1>0, <1>1, <2>1, <2>2, <2>3, <2>4, <2>5 DEF server
<1>13. ASSUME NEW s \in Streams, StreamBreaks(s) PROVE TypeOK'
  <2>1. /\ streams' \in [Streams -> Stream] /\ stream' = NoStream /\ streams[s] # Closed
        /\ \A r \in Streams : streams'[r] # Closed => streams'[r].task \in Tasks
    BY <1>13, EndTypes DEF StreamBreaks
  <2> QED BY <1>0, <1>1, <1>13, <2>1 DEF StreamBreaks, server
<1> QED BY <1>2, <1>3, <1>4, <1>6, <1>7, <1>8, <1>9, <1>10, <1>11, <1>12, <1>13
        DEF Next, Network, Streaming

\* Every step keeps the events that are due.
LEMMA NextKeepsDue ==
    ASSUME TypeOK, DueIsKept, Next
    PROVE  DueIsKept'
<1>1. ASSUME NEW t \in Tasks, AddEvent(t) PROVE DueIsKept'
    BY <1>1 DEF AddEvent, DueIsKept, TypeOK
<1>2. ASSUME NEW t \in Tasks, EndRun(t) PROVE DueIsKept'
    BY <1>2 DEF EndRun, DueIsKept, TypeOK
<1>3. CASE StartCurrent
    BY <1>3 DEF StartCurrent, DueIsKept, TypeOK
<1>4. CASE UNCHANGED <<events, due>>
    BY <1>4 DEF DueIsKept
<1>5. CASE \/ \E t \in Tasks : Toggle(t) \/ Select(t)
           \/ Act \/ Network \/ \E i \in DOMAIN calls : AnswerLost(i)
           \/ \E s \in Streams : Streaming(s) \/ StreamBreaks(s)
    BY <1>4, <1>5 DEF Toggle, Select, Act, Network, AnswerLost, Streaming, StreamBreaks,
        ReadStatus, ReadEvents, Answer, StreamEvents, StreamStatus, server
<1> QED BY <1>1, <1>2, <1>3, <1>5 DEF Next

-----------------------------------------------------------------------------
(* The page                                                                *)

\* The status of a task that is live changes: no page and no call shows its end,
\* unless a call follows that will look again.
LEMMA RunChanges ==
    ASSUME TypeOK, PageInv, NEW t \in Tasks, Toggle(t) \/ EndRun(t)
    PROVE  PageInv'
<1>1. /\ status[t] \in Live /\ UNCHANGED <<current, detail, calls, streams, stream>>
      /\ \A u \in Tasks : u # t => status'[u] = status[u] /\ due'[u] = due[u]
    BY DEF TypeOK, Toggle, EndRun, client
<1>2. status[t] # "ended" BY <1>1 DEF Live
<1>3. /\ CallsInOrder(calls', current') /\ OneStream' /\ PageIsCurrent'
    BY <1>1 DEF PageInv, OneStream, PageIsCurrent
<1>4. ASSUME NEW c \in Call, CallIsWhole(c, status, due) PROVE CallIsWhole(c, status', due')
  <2>1. c.task \in Tasks BY CallFields
  <2> QED BY <1>1, <1>2, <1>4, <2>1 DEF CallIsWhole
<1>5. \A i \in 1..Len(calls) : calls[i] \in Call BY ElementOfSeq DEF TypeOK
<1>6. CallsAreWhole(calls', status', due') BY <1>1, <1>4, <1>5 DEF PageInv, CallsAreWhole
<1>7. PageIsWhole => PageIsWhole' BY <1>1, <1>2 DEF PageIsWhole
<1> QED BY <1>1, <1>3, <1>6, <1>7 DEF PageInv

\* selectTask: the one stream is closed, and the page will be set.
LEMMA SelectionStep ==
    ASSUME TypeOK, OneStream, NEW t \in Tasks, NEW rest \in Seq(Call), SelectNow(t, rest)
    PROVE  PageInv'
<1> DEFINE c == Asking("select", t)
<1>1. c \in Call /\ c.kind = "select" /\ c.task = t /\ CallIsWhole(c, status', due')
    BY Unasked DEF Kinds, Reading
<1>2. calls' = Append(rest, c) /\ current' = t /\ stream' = NoStream /\ streams' = CloseCurrent
    BY DEF SelectNow
<1> HIDE DEF c
<1>3. /\ CallsInOrder(calls', current') /\ Looking(calls')
      /\ CallsAreWhole(calls', status', due')
    BY <1>1, <1>2, SelectionMade
<1>4. \A s \in Streams : streams'[s] = Closed BY <1>2, StreamClosed DEF OneStream
<1>5. OneStream' BY <1>4 DEF OneStream
<1> QED BY <1>3, <1>5 DEF PageInv, PageIsCurrent

\* A call reads what the server has.
LEMMA ReadStep ==
    ASSUME TypeOK, DueIsKept, PageInv, NEW i \in DOMAIN calls, ReadStatus(i) \/ ReadEvents(i)
    PROVE  PageInv'
<1>1. /\ calls' \in Seq(Call) /\ Len(calls') = Len(calls) /\ Len(calls) \in Nat
      /\ i \in 1..Len(calls)
      /\ \A j \in 1..Len(calls) : j # i => calls'[j] = calls[j]
      /\ \A j \in 1..Len(calls) :
            calls'[j].kind = calls[j].kind /\ calls'[j].task = calls[j].task
      /\ \/ /\ calls'[i].status = status[calls[i].task] /\ ~calls'[i].read
         \/ /\ calls'[i].status = calls[i].status
            /\ calls'[i].events = events[calls[i].task]
    BY CallReads
<1>2. UNCHANGED <<status, events, due, current, detail, streams, stream>>
    BY DEF ReadStatus, ReadEvents, server
<1>3. CallsInOrder(calls', current') BY <1>1, <1>2 DEF PageInv, CallsInOrder
<1>4. Looking(calls') <=> Looking(calls) BY <1>1 DEF Looking
<1>5. OneStream' /\ PageIsCurrent' BY <1>2, <1>4 DEF PageInv, OneStream, PageIsCurrent
<1>6. ASSUME CallIsWhole(calls[i], status, due) PROVE CallIsWhole(calls'[i], status, due)
  <2>1. calls[i] \in Call BY <1>1, ElementOfSeq DEF TypeOK
  <2>2. calls[i].task \in Tasks BY <2>1, CallFields
  <2>3. due[calls[i].task] \subseteq events[calls[i].task] BY <2>2 DEF DueIsKept
  <2>4. calls'[i].task = calls[i].task BY <1>1
  <2> QED BY <1>1, <1>6, <2>3, <2>4 DEF CallIsWhole
<1>7. ASSUME NEW j \in 1..Len(calls')
      PROVE  \/ CallIsWhole(calls'[j], status', due')
             \/ \E k \in 1..Len(calls') : j < k /\ calls'[k].kind \in Again
  <2>1. CASE CallIsWhole(calls[j], status, due)
    <3>1. CallIsWhole(calls'[j], status, due) BY <1>1, <1>6, <1>7, <2>1
    <3> QED BY <1>2, <3>1
  <2>2. CASE \E k \in 1..Len(calls) : j < k /\ calls[k].kind \in Again
    BY <1>1, <2>2
  <2> QED BY <1>1, <1>7, <2>1, <2>2 DEF PageInv, CallsAreWhole
<1>8. CallsAreWhole(calls', status', due') BY <1>7 DEF CallsAreWhole
<1>9. PageIsWhole => PageIsWhole' BY <1>2 DEF PageIsWhole
<1> QED BY <1>3, <1>4, <1>5, <1>8, <1>9 DEF PageInv

\* An answer is shown that no call follows which looks again: it is whole.
LEMMA AnswerShown ==
    ASSUME TypeOK, PageInv, 1 \in DOMAIN calls, calls[1].read,
           detail' = Shown(calls[1]), UNCHANGED <<status, due>>,
           \A j \in 1..Len(calls) : 1 < j => calls[j].kind = "refreshed"
    PROVE  PageIsWhole'
<1> DEFINE c == calls[1]
<1>1. c \in Call /\ 1 \in 1..Len(calls) BY OthersLeft
<1>2. c.task \in Tasks BY <1>1, CallFields
<1>3. CallIsWhole(c, status, due)
  <2>1. ~ \E j \in 1..Len(calls) : 1 < j /\ calls[j].kind \in Again BY DEF Again
  <2> QED BY <1>1, <2>1 DEF PageInv, CallsAreWhole
<1>4. detail'.task = c.task /\ detail'.status = c.status /\ detail'.events = {c.task} \X c.events
    BY <1>1, ShownTypes
<1> HIDE DEF c
<1>5. ASSUME c.status = "ended"
      PROVE  status[c.task] = "ended" /\ {c.task} \X due[c.task] \subseteq {c.task} \X c.events
  <2>1. status[c.task] = "ended" /\ due[c.task] \subseteq c.events
    BY <1>3, <1>5 DEF CallIsWhole, c
  <2> QED BY <2>1
<1> QED BY <1>2, <1>4, <1>5 DEF PageIsWhole

\* The oldest call is answered, and opens no stream but the one of the page.
LEMMA AnswerStep ==
    ASSUME TypeOK, PageInv, NEW i \in DOMAIN calls, Answer(i), ~late'
    PROVE  PageInv'
<1>1. /\ i = 1 /\ calls[1].read
      /\ Opens(1) => calls[1].task = current /\ stream = NoStream
    BY DEF Answer
<1> DEFINE ds == Others(1)
           c == calls[1]
<1>2. /\ 1 \in 1..Len(calls) /\ c \in Call /\ ds \in Seq(Call) /\ Len(ds) = Len(calls) - 1
      /\ Len(calls) \in Nat /\ \A j \in 1..Len(ds) : ds[j] = calls[j + 1]
      /\ calls \in Seq(Call)
    BY <1>1, OthersLeft DEF TypeOK
<1>3. /\ CallsInOrder(ds, current) /\ CallsAreWhole(ds, status, due)
      /\ Looking(calls) /\ c.kind = "refreshed" => Looking(ds)
    BY <1>2, FirstAnswered DEF PageInv
<1>4. CallsInOrder(calls, current) /\ OneStream /\ PageIsCurrent BY DEF PageInv
<1>5. UNCHANGED <<status, due>> BY DEF Answer, server
<1>6. /\ c.task \in Tasks /\ current \in Tasks BY <1>2, CallFields, EmptySeq DEF TypeOK
<1>7. ASSUME ~Looking(ds), NEW j \in 1..Len(calls), 1 < j PROVE calls[j].kind = "refreshed"
  <2>1. j - 1 \in 1..Len(ds) /\ (j - 1) + 1 = j BY <1>2, <1>7
  <2> QED BY <1>2, <1>7, <2>1 DEF Looking
<1>8. ASSUME ~Looking(ds), c.kind \in Reading PROVE c.task = current
  <2>1. ~ \E j \in 1..Len(calls) : 1 < j /\ calls[j].kind = "select" BY <1>7, <1>8
  <2> QED BY <1>2, <1>4, <1>8, <2>1 DEF CallsInOrder
<1>9. ASSUME detail' = Shown(c), ~Looking(ds), c.kind \in Reading
      PROVE  /\ detail'.task = current /\ \A e \in detail'.events : e[1] = current
             /\ PageIsWhole'
  <2>1. detail'.task = c.task /\ detail'.events = {c.task} \X c.events
    BY <1>1, <1>2, <1>9, ShownTypes
  <2>2. PageIsWhole' BY <1>1, <1>2, <1>5, <1>7, <1>9, AnswerShown
  <2> QED BY <1>8, <1>9, <2>1, <2>2
<1> HIDE DEF ds, c
<1>10. CASE AnswerSelect(1)
  <2>1. c.kind = "select" /\ calls' = ds /\ current' = current /\ detail' = Shown(c)
    BY <1>10 DEF AnswerSelect, c, ds
  <2>2. c.kind \in Reading BY <2>1 DEF Reading
  <2>3. OneStream'
    <3>1. CASE UNCHANGED <<streams, stream>> BY <1>4, <2>1, <3>1 DEF OneStream
    <3>2. CASE Opens(1) /\ \E s \in Streams :
                 /\ streams' = [streams EXCEPT ![s] = [Closed EXCEPT !.task = c.task]]
                 /\ stream' = s
      <4>1. PICK s \in Streams :
                 /\ streams' = [streams EXCEPT ![s] = [Closed EXCEPT !.task = c.task]]
                 /\ stream' = s
        BY <3>2
      <4>2. [Closed EXCEPT !.task = c.task].task = c.task BY DEF Closed
      <4>3. c.task = current /\ stream = NoStream BY <1>1, <3>2 DEF c
      <4>4. \A r \in Streams : streams[r] = Closed
        <5>1. NoStream \notin Streams BY DEF NoStream, Streams
        <5> QED BY <1>4, <4>3, <5>1 DEF OneStream
      <4>5. /\ streams'[s] = [Closed EXCEPT !.task = c.task]
            /\ \A r \in Streams : r # s => streams'[r] = Closed
        BY <4>1, <4>4 DEF TypeOK
      <4> QED BY <2>1, <4>1, <4>2, <4>3, <4>5 DEF OneStream
    <3> QED BY <1>10, <3>1, <3>2 DEF AnswerSelect, c
  <2>4. PageIsCurrent' BY <1>9, <2>1, <2>2 DEF PageIsCurrent
  <2> QED BY <1>3, <1>5, <1>9, <2>1, <2>2, <2>3, <2>4 DEF PageInv
<1>11. CASE AnswerRefresh(1)
  <2> DEFINE l == Awaiting(Listing(c.kind), c.task)
  <2>1. /\ c.kind \in {"refresh", "start"} /\ calls' = Append(ds, l)
        /\ UNCHANGED <<current, streams, stream>> /\ detail' = Shown(c)
    BY <1>11 DEF AnswerRefresh, c, ds
  <2>2. /\ l \in Call /\ l.kind = Listing(c.kind) /\ CallIsWhole(l, status, due)
        /\ l.kind \notin Reading
    BY <1>6, Awaited DEF Listing, Kinds, Reading
  <2> HIDE DEF l
  <2>3. /\ CallsInOrder(calls', current) /\ CallsAreWhole(calls', status, due)
        /\ ~Looking(calls') => ~Looking(ds)
    BY <1>2, <1>3, <2>1, <2>2, CallMade
  <2>4. OneStream' BY <1>4, <2>1 DEF OneStream
  <2>5. c.kind \in Reading BY <2>1 DEF Reading
  <2>6. PageIsCurrent' BY <1>9, <2>1, <2>3, <2>5 DEF PageIsCurrent
  <2> QED BY <1>5, <1>9, <2>1, <2>3, <2>4, <2>5, <2>6 DEF PageInv
<1>12. CASE AnswerList(1)
  <2>1. /\ c.kind = "refreshed" /\ calls' = ds
        /\ UNCHANGED <<current, detail, streams, stream>>
    BY <1>12 DEF AnswerList, c, ds
  <2>2. ~Looking(calls') => ~Looking(calls) BY <1>3, <2>1
  <2>3. OneStream' /\ PageIsCurrent' BY <1>4, <2>1, <2>2 DEF OneStream, PageIsCurrent
  <2>4. PageIsWhole => PageIsWhole' BY <1>5, <2>1 DEF PageIsWhole
  <2> QED BY <1>3, <1>5, <2>1, <2>2, <2>3, <2>4 DEF PageInv
<1>13. CASE AnswerPost(1)
  <2> DEFINE q == Asking("start", current)
  <2>1. calls' = Append(ds, q) /\ UNCHANGED <<current, streams, stream>>
    BY <1>13 DEF AnswerPost, ds
  <2>2. q \in Call /\ q.kind = "start" /\ q.task = current /\ CallIsWhole(q, status, due)
    BY <1>6, Unasked DEF Kinds, Reading
  <2> HIDE DEF q
  <2>3. /\ CallsInOrder(calls', current) /\ CallsAreWhole(calls', status, due)
        /\ Looking(calls')
    BY <1>2, <1>3, <2>1, <2>2, CallMade
  <2>4. OneStream' /\ PageIsCurrent' BY <1>4, <2>1, <2>3 DEF OneStream, PageIsCurrent
  <2> QED BY <1>5, <2>1, <2>3, <2>4 DEF PageInv
<1>14. CASE AnswerStart(1)
  <2>1. SelectNow(current, ds) BY <1>14 DEF AnswerStart, ds
  <2> QED BY <1>2, <1>4, <1>6, <2>1, SelectionStep
<1> QED BY <1>1, <1>10, <1>11, <1>12, <1>13, <1>14 DEF Answer

\* The user acts, whatever he waits for.
LEMMA UserStep ==
    ASSUME TypeOK, PageInv,
           (\E t \in Tasks : Select(t)) \/ Act \/ StartCurrent
    PROVE  PageInv'
<1>0. calls \in Seq(Call) /\ CallsInOrder(calls, current) /\ OneStream /\ PageIsCurrent
    BY DEF TypeOK, PageInv
<1>1. ASSUME NEW t \in Tasks, Select(t) PROVE PageInv'
  <2>1. SelectNow(t, calls) BY <1>1 DEF Select
  <2> QED BY <1>0, <2>1, SelectionStep
<1>2. CASE Act \/ StartCurrent
  <2>1. current \in Tasks BY <1>2 DEF Act, StartCurrent, TypeOK, Selected
  <2>2. UNCHANGED <<current, detail, streams, stream>>
    BY <1>2 DEF Act, StartCurrent
  <2>3. ASSUME NEW c \in Call, calls' = Append(calls, c), c.kind # "refreshed",
               c.task = current, CallIsWhole(c, status', due'),
               UNCHANGED <<status, due>> \/ c.kind \in Again
        PROVE  PageInv'
    <3>1. CallsAreWhole(calls, status', due') \/ c.kind \in Again BY <2>3 DEF PageInv
    <3>2. /\ CallsInOrder(calls', current) /\ Looking(calls')
          /\ CallsAreWhole(calls', status', due')
      BY <1>0, <2>3, <3>1, CallMade
    <3>3. OneStream' /\ PageIsCurrent' BY <1>0, <2>2, <3>2 DEF OneStream, PageIsCurrent
    <3> QED BY <2>2, <3>2, <3>3 DEF PageInv
  <2>4. CASE Act
    <3> DEFINE c == Asking("refresh", current)
    <3>1. /\ c \in Call /\ c.kind = "refresh" /\ c.task = current
          /\ CallIsWhole(c, status', due')
      BY <2>1, Unasked DEF Kinds, Reading
    <3>2. calls' = Append(calls, c) /\ UNCHANGED <<status, due>> BY <2>4 DEF Act, server
    <3> HIDE DEF c
    <3> QED BY <2>3, <3>1, <3>2
  <2>5. ASSUME NEW kind \in {"posted", "started"}, calls' = Append(calls, Awaiting(kind, current))
        PROVE  PageInv'
    <3> DEFINE c == Awaiting(kind, current)
    <3>1. kind \in Kinds /\ kind \in Again /\ kind # "refreshed" BY DEF Kinds, Again
    <3>2. /\ c \in Call /\ c.kind = kind /\ c.task = current
          /\ CallIsWhole(c, status', due')
      BY <2>1, <3>1, Awaited
    <3> HIDE DEF c
    <3> QED BY <2>3, <2>5, <3>1, <3>2 DEF c
  <2>6. CASE StartCurrent BY <2>5, <2>6 DEF StartCurrent
  <2> QED BY <1>2, <2>4, <2>6
<1> QED BY <1>1, <1>2

\* The one stream sends, ends or breaks.
LEMMA StreamStep ==
    ASSUME TypeOK, PageInv, NEW s \in Streams, Streaming(s) \/ StreamBreaks(s)
    PROVE  PageInv'
<1>0. /\ calls \in Seq(Call) /\ CallsInOrder(calls, current) /\ OneStream /\ PageIsCurrent
      /\ CallsAreWhole(calls, status, due)
    BY DEF TypeOK, PageInv
<1>1. streams[s] # Closed BY DEF Streaming, StreamBreaks, StreamEvents, StreamStatus
<1>2. NoStream \notin Streams BY DEF NoStream, Streams
<1>3. /\ s = stream /\ streams[s].task = current
      /\ \A r \in Streams : r # s => streams[r] = Closed
    BY <1>0, <1>1, <1>2 DEF OneStream
<1>5. /\ UNCHANGED <<status, due, current>>
    BY DEF Streaming, StreamBreaks, StreamEvents, StreamStatus, server
<1>6. ASSUME EndStream(s) PROVE OneStream'
    BY <1>3, <1>5, <1>6 DEF EndStream, OneStream
<1>7. ASSUME stream' = stream, streams'[s].task = streams[s].task,
             \A r \in Streams : r # s => streams'[r] = streams[r]
      PROVE  OneStream'
    BY <1>3, <1>5, <1>7 DEF OneStream
<1>8. CASE StreamEvents(s)
  <2>1. /\ streams'[s].task = streams[s].task
        /\ \A r \in Streams : r # s => streams'[r] = streams[r]
        /\ detail'.task = detail.task /\ detail'.status = detail.status
        /\ detail'.events = detail.events \cup ({streams[s].task} \X Fresh(s))
    BY <1>8, EventsSent
  <2>2. UNCHANGED <<calls, stream>> BY <1>8 DEF StreamEvents
  <2>3. OneStream' BY <1>7, <2>1, <2>2
  <2>4. \A e \in {streams[s].task} \X Fresh(s) : e[1] = current BY <1>3
  <2>5. PageIsCurrent' BY <1>0, <1>5, <2>1, <2>2, <2>4 DEF PageIsCurrent
  <2>6. PageIsWhole => PageIsWhole' BY <1>5, <2>1 DEF PageIsWhole
  <2> QED BY <1>0, <1>5, <2>2, <2>3, <2>5, <2>6 DEF PageInv
<1>9. CASE StreamStatus(s)
  <2>1. /\ streams[s].task \in Tasks
        /\ detail'.task = streams[s].task /\ detail'.status = status[streams[s].task]
        /\ detail'.events = detail.events
        /\ \/ status[streams[s].task] = "ended" /\ EndStream(s)
           \/ /\ status[streams[s].task] # "ended" /\ stream' = stream
              /\ streams'[s].task = streams[s].task
              /\ \A r \in Streams : r # s => streams'[r] = streams[r]
        /\ \/ calls' = Append(calls, Asking("refresh", current))
           \/ calls' = calls /\ (status[streams[s].task] = "ended" => stream = NoStream)
    BY <1>9, StatusSent
  <2>2. current \in Tasks BY <1>3, <2>1
  <2>3. /\ CallsInOrder(calls', current) /\ (Looking(calls) => Looking(calls'))
        /\ CallsAreWhole(calls', status, due)
        /\ ~Looking(calls') => status[streams[s].task] # "ended"
    <3> DEFINE c == Asking("refresh", current)
    <3>1. /\ c \in Call /\ c.kind = "refresh" /\ c.task = current
          /\ CallIsWhole(c, status, due)
      BY <2>2, Unasked DEF Kinds, Reading
    <3>2. CASE calls' = Append(calls, c)
      <4> HIDE DEF c
      <4> QED BY <1>0, <3>1, <3>2, CallMade
    <3>3. CASE calls' = calls /\ (status[streams[s].task] = "ended" => stream = NoStream)
      BY <1>0, <1>2, <1>3, <3>3
    <3> QED BY <2>1, <3>2, <3>3
  <2>4. OneStream' BY <1>6, <1>7, <2>1
  <2>5. PageIsCurrent' BY <1>0, <1>3, <1>5, <2>1, <2>3 DEF PageIsCurrent
  <2>6. ~Looking(calls') => PageIsWhole' BY <2>1, <2>3 DEF PageIsWhole
  <2> QED BY <1>5, <2>3, <2>4, <2>5, <2>6 DEF PageInv
<1>10. CASE StreamBreaks(s)
  <2>1. UNCHANGED <<calls, detail>> /\ EndStream(s) BY <1>10 DEF StreamBreaks
  <2>2. OneStream' BY <1>6, <2>1
  <2>3. PageIsCurrent' BY <1>0, <1>5, <2>1 DEF PageIsCurrent
  <2>4. PageIsWhole => PageIsWhole' BY <1>5, <2>1 DEF PageIsWhole
  <2> QED BY <1>0, <1>5, <2>1, <2>2, <2>3, <2>4 DEF PageInv
<1> QED BY <1>8, <1>9, <1>10 DEF Streaming

-----------------------------------------------------------------------------
(* The theorems                                                            *)

\* It holds before anything is selected.
LEMMA InitView ==
    ASSUME Init
    PROVE  ViewInv
<1>1. calls = <<>> /\ <<>> \in Seq(Call) /\ Len(calls) = 0 BY EmptySeq DEF Init
<1>2. Closed \in Stream BY DEF Closed, Stream, Selected
<1>3. TypeOK
  <2>1. status \in [Tasks -> Statuses] BY DEF Init, Statuses, Live
  <2>2. events \in [Tasks -> SUBSET Ids] /\ due \in [Tasks -> SUBSET Ids] BY DEF Init
  <2>3. detail \in [task : Selected, status : Statuses, events : SUBSET (Tasks \X Ids)]
    BY DEF Init, Selected, Statuses
  <2>4. /\ current \in Selected /\ stream \in Streams \cup {NoStream}
        /\ {lost, late} \subseteq BOOLEAN
    BY DEF Init, Selected
  <2>5. streams \in [Streams -> Stream] /\ \A s \in Streams : streams[s] = Closed
    BY <1>2 DEF Init
  <2> QED BY <1>1, <2>1, <2>2, <2>3, <2>4, <2>5 DEF TypeOK
<1>4. DueIsKept BY DEF Init, DueIsKept
<1>5. PageInv
  <2>1. ~Looking(calls) /\ CallsInOrder(calls, current) /\ CallsAreWhole(calls, status, due)
    BY <1>1 DEF Looking, CallsInOrder, CallsAreWhole
  <2>2. OneStream BY DEF Init, OneStream
  <2>3. PageIsCurrent /\ PageIsWhole BY DEF Init, PageIsCurrent, PageIsWhole
  <2> QED BY <2>1, <2>2, <2>3 DEF PageInv
<1> QED BY <1>3, <1>4, <1>5 DEF ViewInv

\* Every step keeps it.
LEMMA NextView ==
    ASSUME ViewInv, [Next]_vars
    PROVE  ViewInv'
<1>1. CASE Next
  <2>1. TypeOK' /\ DueIsKept' BY <1>1, NextKeepsTypes, NextKeepsDue DEF ViewInv
  <2>2. ASSUME ~lost', ~late' PROVE PageInv'
    <3>1. ~lost /\ ~late /\ ~ \E i \in DOMAIN calls : AnswerLost(i)
      <4>1. \A i \in DOMAIN calls : ~AnswerLost(i) BY <2>2 DEF AnswerLost
      <4>2. ASSUME NEW i \in DOMAIN calls, Answer(i) PROVE lost' = lost /\ ~late
        BY <2>2, <4>2, Zenon DEF Answer
      <4>3. CASE \/ \E t \in Tasks : AddEvent(t) \/ Toggle(t) \/ EndRun(t) \/ Select(t)
                 \/ Act \/ StartCurrent
                 \/ \E i \in DOMAIN calls : ReadStatus(i) \/ ReadEvents(i)
                 \/ \E s \in Streams : Streaming(s) \/ StreamBreaks(s)
        <5>1. lost' = lost /\ late' = late
          BY <4>3, Zenon DEF AddEvent, Toggle, EndRun, Select, Act, StartCurrent, ReadStatus,
            ReadEvents, Streaming, StreamEvents, StreamStatus, StreamBreaks
        <5> QED BY <2>2, <4>1, <5>1
      <4> QED BY <1>1, <2>2, <4>1, <4>2, <4>3 DEF Next, Network
    <3>2. TypeOK /\ DueIsKept /\ PageInv BY <3>1 DEF ViewInv
    <3>3. ASSUME NEW t \in Tasks, AddEvent(t) PROVE PageInv'
      BY <3>2, <3>3 DEF AddEvent, client, PageInv, OneStream, PageIsCurrent, PageIsWhole
    <3>4. ASSUME NEW i \in DOMAIN calls, ReadStatus(i) \/ ReadEvents(i) \/ Answer(i)
          PROVE  PageInv'
      BY <2>2, <3>2, <3>4, ReadStep, AnswerStep
    <3> QED BY <1>1, <3>1, <3>2, <3>3, <3>4, RunChanges, UserStep, StreamStep DEF Next, Network
  <2> QED BY <2>1, <2>2 DEF ViewInv
<1>2. CASE UNCHANGED vars
  <2>1. UNCHANGED <<status, events, due, current, detail, calls, streams, stream, lost, late>>
    BY <1>2 DEF vars, server, client
  <2> QED BY <2>1 DEF ViewInv, TypeOK, DueIsKept, PageInv, OneStream, PageIsCurrent, PageIsWhole
<1> QED BY <1>1, <1>2

\* The inductive invariant of the task page, as long as no answer was lost or late:
\* the calls that could replace the page by an old one are followed by one that
\* looks again.
THEOREM ViewInvariant == Spec => []ViewInv
<1>1. Init => ViewInv BY InitView
<1>2. ViewInv /\ [Next]_vars => ViewInv' BY NextView
<1> QED BY <1>1, <1>2, PTL DEF Spec

\* What the page shows when every call is answered, and what its buttons act on, is
\* the selected task, for every sequence of clicks, answers, events and broken
\* streams, unless an answer was lost, overtaken, or opened a stray stream.
THEOREM PageShowsCurrent == Spec => []ShownIsCurrent
<1>1. ASSUME ViewInv PROVE ShownIsCurrent
  <2>1. SUFFICES ASSUME AtRest
                 PROVE  /\ detail.task = current
                        /\ \A e \in detail.events : e[1] = current
                        /\ \A s \in Streams : streams[s] # Closed => s = stream
    BY DEF ShownIsCurrent
  <2>2. PageInv /\ calls = <<>> BY <1>1, <2>1 DEF ViewInv, AtRest
  <2>3. ~Looking(calls) BY <2>2, EmptySeq DEF Looking
  <2> QED BY <2>2, <2>3 DEF PageInv, PageIsCurrent, OneStream
<1> QED BY <1>1, ViewInvariant, PTL

\* A page that shows a task at its end, and waits for nothing, shows every event
\* from before the end, with the same exceptions.
THEOREM EndedPageIsWhole == Spec => []EndedViewIsComplete
<1>1. ASSUME ViewInv PROVE EndedViewIsComplete
  <2>1. SUFFICES ASSUME AtRest, detail.status = "ended", NEW i \in due[detail.task]
                 PROVE  <<detail.task, i>> \in detail.events
    BY DEF EndedViewIsComplete
  <2>2. PageInv /\ calls = <<>> BY <1>1, <2>1 DEF ViewInv, AtRest
  <2>3. ~Looking(calls) BY <2>2, EmptySeq DEF Looking
  <2>4. {detail.task} \X due[detail.task] \subseteq detail.events
    BY <2>1, <2>2, <2>3 DEF PageInv, PageIsWhole
  <2> QED BY <2>4
<1> QED BY <1>1, ViewInvariant, PTL
=============================================================================
