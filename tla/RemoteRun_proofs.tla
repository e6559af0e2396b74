--------------------------- MODULE RemoteRun_proofs ---------------------------
(***************************************************************************)
(* Proofs about RemoteRun, for every number of attempts, rows, starts,     *)
(* faults and tokens: what a run on a Local Runner reports is what the     *)
(* server shows of it, and a retry finds the worktree of the run before.   *)
(***************************************************************************)
EXTENDS RemoteRun, TLAPS, WellFoundedInduction, SequenceTheorems

-----------------------------------------------------------------------------
(* The invariant                                                           *)

Tables  == {"artifacts", "events"}
Views   == [Tables -> Seq(Rows)]
Bodies  == [type : {"accepted", "running", "failed", "persisted"}]
             \cup [type : {"row"}, row : Rows] \cup [type : {"completed"}, view : Views]
Reports == [no : Nat, body : Bodies]

Outbox == ToSet(pending)
InOrder(s) == \A i, j \in 1..Len(s) : i < j => s[i].no < s[j].no

\* The outbox is in the order of its numbers; what is on the wire is in it, and
\* is there once.
OutboxOK ==
    /\ pending \in Seq(Reports) /\ wire \in Seq(Reports)
    /\ InOrder(pending)
    /\ \A i, j \in 1..Len(wire) : i # j => wire[i].no # wire[j].no
    /\ \A i \in 1..Len(wire) : wire[i] \in Outbox
    /\ link = "down" => wire = <<>>
    /\ ~socket => link = "down" /\ pending = <<>>

Plain(e) == e.body.type # "persisted"

\* As long as nothing was disturbed: the wire carries the reports in their order,
\* without a gap, and all of them after the flush.
WireInOrder ==
    /\ \A i, j \in 1..Len(wire) :
          i < j /\ Plain(wire[i]) /\ Plain(wire[j]) => wire[i].no < wire[j].no
    /\ \A i \in 1..Len(wire) : \A e \in Outbox :
          Plain(wire[i]) /\ Plain(e) /\ e.no < wire[i].no => e \in ToSet(wire)
    /\ link = "up" => Outbox \subseteq ToSet(wire)

IsRow(e)    == e.body.type = "row"
RowTable(e) == TableOf(e.body.row.kind)
IsView(e)   == e.body.type = "completed"

Heads(s, t) == Len(s) <= Len(t) /\ \A i \in 1..Len(s) : s[i] = t[i]

\* The tables hold what was made up to some row, and the outbox the rest of it,
\* each row once and in its order.
RowsInOrder ==
    /\ \A T \in Tables : Heads(tables[T], made[T])
    /\ \A e \in Outbox : IsRow(e) =>
          /\ e.body.row.n \in Len(tables[RowTable(e)]) + 1 .. Len(made[RowTable(e)])
          /\ made[RowTable(e)][e.body.row.n] = e.body.row
    /\ \A e, f \in Outbox :
          IsRow(e) /\ IsRow(f) /\ RowTable(e) = RowTable(f) /\ e.no < f.no
             => e.body.row.n < f.body.row.n
    /\ \A T \in Tables : \A n \in Len(tables[T]) + 1 .. Len(made[T]) :
          \E e \in Outbox : IsRow(e) /\ RowTable(e) = T /\ e.body.row.n = n

\* A delivery in the outbox stands where the last row it speaks of was reported.
ViewsInOrder ==
    \A e \in Outbox : IsView(e) => \A T \in Tables :
        /\ Len(tables[T]) <= Len(e.body.view[T])
        /\ Heads(e.body.view[T], made[T])
        /\ \A f \in Outbox : IsRow(f) /\ RowTable(f) = T =>
              (f.no < e.no <=> f.body.row.n <= Len(e.body.view[T]))

\* A task of status st is not a delivered one when the reports of S are handled.
Marks(e) == e.body.type \in {"accepted", "running", "failed"}
Reopened(st, S) ==
    \/ \E f \in S : Marks(f) /\ \A g \in S : IsView(g) => g.no < f.no
    \/ st # "waiting_approval" /\ \A g \in S : ~IsView(g)

Before(e) == {f \in Outbox : f.no < e.no}

Working == {"list", "branch", "worktree", "work"}

\* Artifacts are reported, and made, under another status.
ArtifactsReopen ==
    /\ \A e \in Outbox : IsRow(e) /\ RowTable(e) = "artifacts" => Reopened(status, Before(e))
    /\ pc \in Working => Reopened(status, Outbox)

\* What the delivery spoke of is what the tables hold.
ShownInOrder ==
    status = "waiting_approval" =>
        /\ \A T \in Tables : Heads(shown[T], tables[T])
        /\ Len(shown.artifacts) = Len(tables.artifacts)

InStep == WireInOrder /\ RowsInOrder /\ ViewsInOrder /\ ArtifactsReopen /\ ShownInOrder

Untouched == ~disturbed => InStep

\* The record of the worktree is where the engine looks for it.
WorktreeKnown ==
    directory /\ ~torn /\ pc \notin {"branch", "worktree"} => KnowsWorktree

RemoteInv == TypeOK /\ OutboxOK /\ Untouched /\ WorktreeKnown
-----------------------------------------------------------------------------
(* What a filtered sequence holds.  The induction is over a set of numbers  *)
(* that contains 0 and the successor of each of its members.                *)

\* A set that begins with 0 and goes on for ever is Nat.
LEMMA NatSet ==
    ASSUME NEW P \in SUBSET Nat, 0 \in P, \A n \in P : n + 1 \in P
    PROVE  P = Nat
<1>1. SUFFICES ASSUME Nat \ P # {} PROVE FALSE OBVIOUS
<1>2. PICK x \in Nat \ P : \A y \in Nat \ P : ~(<<y, x>> \in OpToRel(<, Nat))
    BY <1>1, NatLessThanWellFounded, WFMin
<1>3. \A y \in Nat \ P : ~(y < x)
    BY <1>2 DEF OpToRel
<1> HIDE <1>2
<1>4. x \in Nat \ P OBVIOUS
<1>5. x # 0 /\ x - 1 \in Nat BY <1>4
<1>6. x - 1 \in P BY <1>3, <1>5
<1>7. (x - 1) + 1 \in P BY <1>6
<1>8. (x - 1) + 1 = x BY <1>4
<1> QED BY <1>4, <1>7, <1>8

Filters(W, n, s, S) ==
    W = [i \in 0..n |-> IF i = 0 THEN <<>>
                        ELSE IF s[i] \in S THEN W[i - 1] ELSE Append(W[i - 1], s[i])]

\* The recursion that defines Without has a solution.
LEMMA FilterExists ==
    ASSUME NEW s, NEW S, NEW n \in Nat
    PROVE  \E W : Filters(W, n, s, S)
<1> DEFINE P == {m \in Nat : \E W : Filters(W, m, s, S)}
<1>1. 0 \in P
  <2>1. Filters([i \in 0..0 |-> <<>>], 0, s, S) BY DEF Filters
  <2> QED BY <2>1
<1>2. ASSUME NEW m \in P PROVE m + 1 \in P
  <2>1. PICK W : Filters(W, m, s, S) BY <1>2
  <2>2. m \in Nat BY <1>2
  <2> DEFINE last == IF s[m + 1] \in S THEN W[m] ELSE Append(W[m], s[m + 1])
             V == [i \in 0..m + 1 |-> IF i <= m THEN W[i] ELSE last]
  <2>3. ASSUME NEW i \in 0..m + 1
        PROVE  V[i] = IF i = 0 THEN <<>>
                      ELSE IF s[i] \in S THEN V[i - 1] ELSE Append(V[i - 1], s[i])
    <3>1. CASE i = m + 1
      <4>1. i # 0 /\ i - 1 = m /\ i - 1 \in 0..m + 1 /\ ~(i <= m) /\ i - 1 <= m BY <2>2, <3>1
      <4>2. V[i] = last /\ V[i - 1] = W[m] BY <4>1
      <4> QED BY <3>1, <4>1, <4>2
    <3>2. CASE i # m + 1 /\ i # 0
      <4>1. i \in 0..m /\ i - 1 \in 0..m + 1 /\ i <= m /\ i - 1 <= m BY <2>2, <3>2
      <4>2. V[i] = W[i] /\ V[i - 1] = W[i - 1] BY <4>1
      <4>3. W[i] = IF s[i] \in S THEN W[i - 1] ELSE Append(W[i - 1], s[i])
        <5> HIDE DEF V
        <5> QED BY <2>1, <3>2, <4>1 DEF Filters
      <4> QED BY <3>2, <4>2, <4>3
    <3>3. CASE i = 0
      <4>1. 0 \in 0..m /\ 0 <= m BY <2>2
      <4>2. W[0] = <<>>
        <5> HIDE DEF V
        <5> QED BY <2>1, <4>1 DEF Filters
      <4> QED BY <3>3, <4>1, <4>2
    <3> QED BY <3>1, <3>2, <3>3
  <2>4. Filters(V, m + 1, s, S)
    <3>1. V = [i \in 0..m + 1 |-> V[i]] OBVIOUS
    <3> HIDE DEF V
    <3> QED BY <2>3, <3>1 DEF Filters
  <2> QED BY <2>2, <2>4
<1>3. P = Nat
  <2>1. P \in SUBSET Nat OBVIOUS
  <2> HIDE DEF P
  <2> QED BY <1>1, <1>2, <2>1, NatSet
<1> QED BY <1>3

\* What has been filtered of the first i elements of s.
Partial(v, i, s, S, R) ==
    /\ v \in Seq(R)
    /\ \A k \in 1..Len(v) : \E j \in 1..i : v[k] = s[j] /\ s[j] \notin S
    /\ \A j \in 1..i : s[j] \notin S => \E k \in 1..Len(v) : v[k] = s[j]
    /\ InOrder(s) => InOrder(v)

\* One more element.
LEMMA PartialNext ==
    ASSUME NEW R, NEW s \in Seq(R), NEW S, NEW i \in Nat, i + 1 \in 1..Len(s), NEW v,
           Partial(v, i, s, S, R)
    PROVE  Partial(IF s[i + 1] \in S THEN v ELSE Append(v, s[i + 1]), i + 1, s, S, R)
<1>1. CASE s[i + 1] \in S
    BY <1>1 DEF Partial
<1>2. CASE s[i + 1] \notin S
  <2> DEFINE w == Append(v, s[i + 1])
  <2>1. s[i + 1] \in R /\ v \in Seq(R) BY ElementOfSeq DEF Partial
  <2>2. /\ w \in Seq(R) /\ Len(w) = Len(v) + 1 /\ Len(v) \in Nat
        /\ \A k \in 1..Len(v) : w[k] = v[k]
        /\ w[Len(v) + 1] = s[i + 1]
    BY <2>1, AppendProperties, LenProperties
  <2> HIDE DEF w
  <2>3. ASSUME NEW k \in 1..Len(w) PROVE \E j \in 1..i + 1 : w[k] = s[j] /\ s[j] \notin S
    <3>1. CASE k = Len(v) + 1 BY <1>2, <2>2, <3>1
    <3>2. CASE k # Len(v) + 1
      <4>1. k \in 1..Len(v) BY <2>2, <3>2
      <4> QED BY <2>2, <4>1 DEF Partial
    <3> QED BY <3>1, <3>2
  <2>4. ASSUME NEW j \in 1..i + 1, s[j] \notin S PROVE \E k \in 1..Len(w) : w[k] = s[j]
    <3>1. CASE j = i + 1
      <4>1. Len(v) + 1 \in 1..Len(w) BY <2>2
      <4> QED BY <2>2, <3>1, <4>1
    <3>2. CASE j # i + 1
      <4>1. j \in 1..i BY <3>2
      <4>2. PICK k \in 1..Len(v) : v[k] = s[j] BY <2>4, <4>1 DEF Partial
      <4> QED BY <2>2, <4>2
    <3> QED BY <3>1, <3>2
  <2>5. ASSUME InOrder(s), NEW k \in 1..Len(w), NEW l \in 1..Len(w), k < l
        PROVE  w[k].no < w[l].no
    <3>1. k \in 1..Len(v) /\ w[k] = v[k] BY <2>2, <2>5
    <3>2. CASE l = Len(v) + 1
      <4>1. PICK j \in 1..i : v[k] = s[j] BY <3>1 DEF Partial
      <4>2. j \in 1..Len(s) /\ j < i + 1 BY <4>1
      <4> QED BY <2>2, <2>5, <3>1, <3>2, <4>1, <4>2 DEF InOrder
    <3>3. CASE l # Len(v) + 1
      <4>1. l \in 1..Len(v) BY <2>2, <3>3
      <4> QED BY <2>2, <2>5, <3>1, <4>1 DEF Partial, InOrder
    <3> QED BY <3>2, <3>3
  <2> QED BY <1>2, <2>2, <2>3, <2>4, <2>5 DEF Partial, InOrder, w
<1> QED BY <1>1, <1>2

\* Without keeps the elements outside S, and their order.
LEMMA WithoutFacts ==
    ASSUME NEW R, NEW s \in Seq(R), NEW S
    PROVE  /\ Without(s, S) \in Seq(R)
           /\ ToSet(Without(s, S)) = ToSet(s) \ S
           /\ InOrder(s) => InOrder(Without(s, S))
<1>1. PICK W : Filters(W, Len(s), s, S) /\ Without(s, S) = W[Len(s)]
  <2>1. Len(s) \in Nat BY LenProperties
  <2>2. \E W : Filters(W, Len(s), s, S) BY <2>1, FilterExists
  <2> DEFINE V == CHOOSE V : Filters(V, Len(s), s, S)
  <2>3. Filters(V, Len(s), s, S) BY <2>2, Zenon
  <2>4. Without(s, S) = V[Len(s)] BY Zenon DEF Without, Filters
  <2> QED BY <2>3, <2>4, Zenon
<1> DEFINE P == {i \in Nat : i <= Len(s) => Partial(W[i], i, s, S, R)}
<1>0. Len(s) \in Nat /\ DOMAIN s = 1..Len(s) BY LenProperties
<1>2. 0 \in P
  <2>1. W[0] = <<>> BY <1>0, <1>1 DEF Filters
  <2>2. Partial(<<>>, 0, s, S, R)
    BY EmptySeq DEF Partial, InOrder
  <2> QED BY <2>1, <2>2
<1>3. ASSUME NEW i \in P PROVE i + 1 \in P
  <2>1. i \in Nat BY <1>3
  <2>2. SUFFICES ASSUME i + 1 <= Len(s) PROVE Partial(W[i + 1], i + 1, s, S, R) BY <2>1
  <2>3. i + 1 \in 0..Len(s) /\ i + 1 # 0 /\ (i + 1) - 1 = i /\ i + 1 \in 1..Len(s) /\ i <= Len(s)
    BY <1>0, <2>1, <2>2
  <2>4. W[i + 1] = IF s[i + 1] \in S THEN W[i] ELSE Append(W[i], s[i + 1])
    <3> HIDE DEF P
    <3> QED BY <1>1, <2>3 DEF Filters
  <2>5. Partial(W[i], i, s, S, R) BY <1>3, <2>3
  <2> QED BY <2>1, <2>3, <2>4, <2>5, PartialNext
<1>4. P = Nat
  <2>1. P \in SUBSET Nat OBVIOUS
  <2> HIDE DEF P
  <2> QED BY <1>2, <1>3, <2>1, NatSet
<1>5. Partial(W[Len(s)], Len(s), s, S, R) BY <1>0, <1>4
<1> HIDE DEF P
<1> DEFINE v == W[Len(s)]
<1>6. DOMAIN v = 1..Len(v) BY <1>5, LenProperties DEF Partial
<1> HIDE DEF v
<1>7. ToSet(v) = ToSet(s) \ S
  <2>1. ASSUME NEW k \in 1..Len(v) PROVE v[k] \in ToSet(s) \ S
    <3>1. PICK j \in 1..Len(s) : v[k] = s[j] /\ s[j] \notin S BY <1>5 DEF Partial, v
    <3> QED BY <1>0, <3>1 DEF ToSet
  <2>2. ASSUME NEW j \in 1..Len(s), s[j] \notin S PROVE s[j] \in ToSet(v)
    <3>1. PICK k \in 1..Len(v) : v[k] = s[j] BY <1>5, <2>2 DEF Partial, v
    <3> QED BY <1>6, <3>1 DEF ToSet
  <2> QED BY <1>0, <1>6, <2>1, <2>2 DEF ToSet
<1> QED BY <1>1, <1>5, <1>7 DEF Partial, v

-----------------------------------------------------------------------------
(* Sequences that grow at their end                                        *)

\* An element more.
LEMMA ToSetAppend ==
    ASSUME NEW R, NEW s \in Seq(R), NEW e \in R
    PROVE  ToSet(Append(s, e)) = ToSet(s) \cup {e}
<1> DEFINE t == Append(s, e)
<1>1. /\ DOMAIN s = 1..Len(s) /\ DOMAIN t = 1..Len(s) + 1 /\ Len(s) \in Nat
      /\ \A i \in 1..Len(s) : t[i] = s[i]
      /\ t[Len(s) + 1] = e
    BY AppendProperties, LenProperties
<1> HIDE DEF t
<1>2. \A x \in ToSet(t) : x \in ToSet(s) \cup {e}
  <2>1. ASSUME NEW i \in 1..Len(s) + 1 PROVE t[i] \in ToSet(s) \cup {e}
    <3>1. CASE i = Len(s) + 1 BY <1>1, <3>1
    <3>2. CASE i # Len(s) + 1
      <4>1. i \in 1..Len(s) BY <1>1, <3>2
      <4> QED BY <1>1, <4>1 DEF ToSet
    <3> QED BY <3>1, <3>2
  <2> QED BY <1>1, <2>1 DEF ToSet
<1>3. \A i \in 1..Len(s) : s[i] \in ToSet(t)
    BY <1>1 DEF ToSet
<1>4. e \in ToSet(t)
  <2>1. Len(s) + 1 \in DOMAIN t BY <1>1
  <2> QED BY <1>1, <2>1 DEF ToSet
<1> QED BY <1>1, <1>2, <1>3, <1>4 DEF ToSet, t

\* A sequence is the beginning of itself, and stays one of what grows.
LEMMA HeadsGrow ==
    ASSUME NEW R, NEW s \in Seq(R), NEW t \in Seq(R), NEW e \in R, Heads(s, t)
    PROVE  /\ Heads(t, t)
           /\ Heads(s, Append(t, e))
           /\ Len(s) < Len(t) /\ e = t[Len(s) + 1] => Heads(Append(s, e), t)
           /\ Len(s) = Len(t) => Heads(Append(s, e), Append(t, e))
<1>1. /\ Len(s) \in Nat /\ Len(t) \in Nat
      /\ Len(Append(s, e)) = Len(s) + 1 /\ Len(Append(t, e)) = Len(t) + 1
      /\ \A i \in 1..Len(s) : Append(s, e)[i] = s[i]
      /\ \A i \in 1..Len(t) : Append(t, e)[i] = t[i]
      /\ Append(s, e)[Len(s) + 1] = e /\ Append(t, e)[Len(t) + 1] = e
    BY AppendProperties, LenProperties
<1>2. Heads(t, t) BY <1>1 DEF Heads
<1>3. Heads(s, Append(t, e)) BY <1>1 DEF Heads
<1>4. ASSUME Len(s) < Len(t), e = t[Len(s) + 1] PROVE Heads(Append(s, e), t)
  <2>1. ASSUME NEW i \in 1..Len(s) + 1 PROVE Append(s, e)[i] = t[i]
    <3>1. CASE i = Len(s) + 1 BY <1>1, <1>4, <3>1
    <3>2. CASE i # Len(s) + 1
      <4>1. i \in 1..Len(s) BY <1>1, <3>2
      <4> QED BY <1>1, <4>1 DEF Heads
    <3> QED BY <3>1, <3>2
  <2> QED BY <1>1, <1>4, <2>1 DEF Heads
<1>5. ASSUME Len(s) = Len(t) PROVE Heads(Append(s, e), Append(t, e))
  <2>1. ASSUME NEW i \in 1..Len(s) + 1 PROVE Append(s, e)[i] = Append(t, e)[i]
    <3>1. CASE i = Len(s) + 1 BY <1>1, <1>5, <3>1
    <3>2. CASE i # Len(s) + 1
      <4>1. i \in 1..Len(s) BY <1>1, <3>2
      <4> QED BY <1>1, <1>5, <4>1 DEF Heads
    <3> QED BY <3>1, <3>2
  <2> QED BY <1>1, <1>5, <2>1 DEF Heads
<1> QED BY <1>2, <1>3, <1>4, <1>5

\* The beginning of a sequence is a prefix of it, and the whole of it when it is
\* as long.
LEMMA HeadsPrefix ==
    ASSUME NEW R, NEW s \in Seq(R), NEW t \in Seq(R), Heads(s, t)
    PROVE  IsPrefix(s, t) /\ (Len(s) = Len(t) => s = t)
<1>1. Len(s) \in Nat /\ Len(t) \in Nat /\ Len(s) <= Len(t) BY LenProperties DEF Heads
<1>2. /\ \A i \in 1..Len(s) : s[i] \in R
      /\ \A i \in 1..Len(s) : t[i] \in R
    BY <1>1, ElementOfSeq
<1>3. Len(s) \in Int /\ 1 \in Int BY <1>1
<1> DEFINE a == SubSeq(s, 1, Len(s))
           b == SubSeq(t, 1, Len(s))
<1>4. /\ a \in Seq(R) /\ Len(a) = (IF 1 <= Len(s) THEN Len(s) - 1 + 1 ELSE 0)
      /\ \A i \in 1..Len(s) - 1 + 1 : a[i] = s[1 + i - 1]
    BY <1>2, <1>3, SubSeqProperties
<1>5. /\ b \in Seq(R) /\ Len(b) = (IF 1 <= Len(s) THEN Len(s) - 1 + 1 ELSE 0)
      /\ \A i \in 1..Len(s) - 1 + 1 : b[i] = t[1 + i - 1]
    BY <1>2, <1>3, SubSeqProperties
<1> HIDE DEF a, b
<1>6. Len(a) = Len(s) /\ Len(b) = Len(s) BY <1>1, <1>4, <1>5
<1>7. ASSUME NEW i \in 1..Len(s) PROVE a[i] = b[i]
  <2>1. i \in 1..Len(s) - 1 + 1 /\ 1 + i - 1 = i BY <1>1
  <2>2. a[i] = s[i] /\ b[i] = t[i] BY <1>4, <1>5, <2>1
  <2> QED BY <2>2 DEF Heads
<1>8. a = b BY <1>4, <1>5, <1>6, <1>7, SeqEqual
<1>9. Len(s) = Len(t) => s = t BY SeqEqual DEF Heads
<1> QED BY <1>1, <1>8, <1>9 DEF IsPrefix, a, b

-----------------------------------------------------------------------------
(* The outbox and the wire                                                 *)

\* The number of a report tells it from every other one in the outbox.
LEMMA NumbersTell ==
    ASSUME OutboxOK, NEW e \in Outbox, NEW f \in Outbox, e.no = f.no
    PROVE  e = f
<1>1. DOMAIN pending = 1..Len(pending) /\ Len(pending) \in Nat BY LenProperties DEF OutboxOK
<1>2. PICK i \in 1..Len(pending) : e = pending[i] BY <1>1 DEF Outbox, ToSet
<1>3. PICK j \in 1..Len(pending) : f = pending[j] BY <1>1 DEF Outbox, ToSet
<1>4. e \in Reports /\ f \in Reports BY <1>2, <1>3, ElementOfSeq DEF OutboxOK
<1>5. e.no \in Nat /\ f.no \in Nat BY <1>4 DEF Reports
<1> QED BY <1>1, <1>2, <1>3, <1>5 DEF OutboxOK, InOrder

\* What is in the outbox are reports.
LEMMA OutboxTypes ==
    ASSUME OutboxOK
    PROVE  /\ Outbox \subseteq Reports
           /\ \A e \in Outbox : e.no \in Nat /\ e.body \in Bodies
           /\ ToSet(wire) \subseteq Outbox
<1>1. DOMAIN pending = 1..Len(pending) /\ DOMAIN wire = 1..Len(wire)
    BY LenProperties DEF OutboxOK
<1>2. Outbox \subseteq Reports BY <1>1, ElementOfSeq DEF OutboxOK, Outbox, ToSet
<1>3. ToSet(wire) \subseteq Outbox BY <1>1 DEF OutboxOK, ToSet
<1> QED BY <1>2, <1>3 DEF Reports

\* send puts one report behind all the others, and on the wire if there is one.
LEMMA SendFacts ==
    ASSUME OutboxOK, NEW m \in Bodies, Send(m)
    PROVE  \E e \in Reports :
              /\ e.body = m /\ \A f \in Outbox : f.no < e.no
              /\ pending' \in Seq(Reports) /\ InOrder(pending)' /\ Outbox' = Outbox \cup {e}
              /\ wire' = IF link = "down" THEN wire ELSE Append(wire, e)
<1> DEFINE e == Numbered(m)
<1>1. DOMAIN pending = 1..Len(pending) /\ Len(pending) \in Nat /\ pending \in Seq(Reports)
    BY LenProperties DEF OutboxOK
<1>2. \A i \in 1..Len(pending) : pending[i].no \in Nat
  <2>1. \A i \in 1..Len(pending) : pending[i] \in Reports BY <1>1, ElementOfSeq
  <2> QED BY <2>1 DEF Reports
<1>3. pending # <<>> => Len(pending) \in 1..Len(pending)
    BY <1>1, EmptySeq
<1>4. e.body = m /\ e.no \in Nat /\ e \in Reports
  <2>1. CASE pending = <<>> BY <2>1 DEF Numbered, Reports
  <2>2. CASE pending # <<>>
    <3>1. Last(pending).no \in Nat BY <1>2, <1>3, <2>2 DEF Last
    <3> QED BY <2>2, <3>1 DEF Numbered, Reports
  <2> QED BY <2>1, <2>2
<1>5. ASSUME NEW i \in 1..Len(pending) PROVE pending[i].no < e.no
  <2>1. pending # <<>> BY <1>1
  <2>2. Last(pending).no \in Nat /\ pending[i].no <= Last(pending).no
    <3>1. CASE i = Len(pending) BY <1>2, <1>3, <2>1, <3>1 DEF Last
    <3>2. CASE i # Len(pending)
      <4>1. Len(pending) \in Nat BY <1>1
      <4>2. i < Len(pending) BY <3>2, <4>1
      <4> QED BY <1>2, <1>3, <2>1, <4>2 DEF Last, OutboxOK, InOrder
    <3> QED BY <3>1, <3>2
  <2>3. e.no = Last(pending).no + 1 BY <2>1 DEF Numbered
  <2> QED BY <1>2, <2>2, <2>3
<1>6. pending' = Append(pending, e) /\ wire' = IF link = "down" THEN wire ELSE Append(wire, e)
    BY DEF Send
<1> HIDE DEF e
<1>7. \A f \in Outbox : f.no < e.no BY <1>1, <1>5 DEF Outbox, ToSet
<1>8. Outbox' = Outbox \cup {e} BY <1>1, <1>4, <1>6, ToSetAppend DEF Outbox
<1>9. pending' \in Seq(Reports) /\ InOrder(pending)'
  <2>1. /\ pending' \in Seq(Reports) /\ Len(pending') = Len(pending) + 1
        /\ \A i \in 1..Len(pending) : pending'[i] = pending[i]
        /\ pending'[Len(pending) + 1] = e
    BY <1>1, <1>4, <1>6, AppendProperties
  <2>2. ASSUME NEW i \in 1..Len(pending'), NEW j \in 1..Len(pending'), i < j
        PROVE  pending'[i].no < pending'[j].no
    <3>1. i \in 1..Len(pending) BY <1>1, <2>1, <2>2
    <3>2. CASE j = Len(pending) + 1 BY <1>5, <2>1, <3>1, <3>2
    <3>3. CASE j # Len(pending) + 1
      <4>1. j \in 1..Len(pending) BY <1>1, <2>1, <3>3
      <4> QED BY <2>1, <2>2, <3>1, <4>1 DEF OutboxOK, InOrder
    <3> QED BY <3>2, <3>3
  <2> QED BY <2>1, <2>2 DEF InOrder
<1> QED BY <1>4, <1>6, <1>7, <1>8, <1>9

\* send keeps the outbox in order.
LEMMA SendKeepsOutbox ==
    ASSUME OutboxOK, socket, NEW m \in Bodies, Send(m), UNCHANGED <<socket, link>>
    PROVE  OutboxOK'
<1>1. PICK e \in Reports :
          /\ e.body = m /\ \A f \in Outbox : f.no < e.no
          /\ pending' \in Seq(Reports) /\ InOrder(pending)' /\ Outbox' = Outbox \cup {e}
          /\ wire' = IF link = "down" THEN wire ELSE Append(wire, e)
    BY SendFacts
<1>2. wire \in Seq(Reports) /\ \A i \in 1..Len(wire) : wire[i] \in Outbox BY DEF OutboxOK
<1>3. CASE link = "down"
    BY <1>1, <1>2, <1>3 DEF OutboxOK
<1>4. CASE link # "down"
  <2>1. /\ wire' \in Seq(Reports) /\ Len(wire') = Len(wire) + 1 /\ Len(wire) \in Nat
        /\ \A i \in 1..Len(wire) : wire'[i] = wire[i]
        /\ wire'[Len(wire) + 1] = e
    BY <1>1, <1>2, <1>4, AppendProperties, LenProperties
  <2>2. \A i \in 1..Len(wire) : wire[i].no < e.no /\ wire[i].no \in Nat /\ e.no \in Nat
    BY <1>1, <1>2, OutboxTypes DEF Reports
  <2>3. ASSUME NEW i \in 1..Len(wire'), NEW j \in 1..Len(wire'), i < j
        PROVE  wire'[i].no # wire'[j].no
    <3>1. i \in 1..Len(wire) BY <2>1, <2>3
    <3>2. CASE j = Len(wire) + 1 BY <2>1, <2>2, <3>1, <3>2
    <3>3. CASE j # Len(wire) + 1
      <4>1. j \in 1..Len(wire) BY <2>1, <3>3
      <4>2. wire'[i] = wire[i] /\ wire'[j] = wire[j] BY <2>1, <3>1, <4>1
      <4>3. i # j BY <2>3
      <4>4. wire[i].no # wire[j].no BY <3>1, <4>1, <4>3 DEF OutboxOK
      <4> QED BY <4>2, <4>4
    <3> QED BY <3>2, <3>3
  <2>4. \A i, j \in 1..Len(wire') : i # j => wire'[i].no # wire'[j].no
    <3>1. \A i, j \in 1..Len(wire') : i # j => i < j \/ j < i BY <2>1
    <3> QED BY <2>3, <3>1
  <2>5. \A i \in 1..Len(wire') : wire'[i] \in Outbox'
    <3>1. \A i \in 1..Len(wire') : i \in 1..Len(wire) \/ i = Len(wire) + 1 BY <2>1
    <3> QED BY <1>1, <1>2, <2>1, <3>1
  <2> QED BY <1>1, <1>4, <2>1, <2>4, <2>5 DEF OutboxOK
<1> QED BY <1>3, <1>4

\* The head of the wire leaves both.
LEMMA HeadLeaves ==
    ASSUME OutboxOK, wire # <<>>, Handled
    PROVE  /\ Head(wire) \in Outbox /\ Outbox' = Outbox \ {Head(wire)}
           /\ pending' \in Seq(Reports) /\ InOrder(pending)'
<1>1. /\ Len(wire) \in Nat \ {0} /\ Head(wire) = wire[1] /\ 1 \in 1..Len(wire)
      /\ pending \in Seq(Reports)
    BY LenProperties, EmptySeq DEF OutboxOK
<1>2. Head(wire) \in Outbox BY <1>1 DEF OutboxOK
<1>3. Outbox' = Outbox \ {Head(wire)} /\ pending' \in Seq(Reports) /\ InOrder(pending)'
    BY <1>1, WithoutFacts DEF Handled, Outbox, OutboxOK
<1> QED BY <1>2, <1>3

\* It is handled, and the wire goes on with the next.
LEMMA HandleFacts ==
    ASSUME OutboxOK, wire # <<>>, wire' = Tail(wire), Handled, UNCHANGED <<socket, link>>
    PROVE  /\ Head(wire) \in Outbox /\ Outbox' = Outbox \ {Head(wire)}
           /\ \A i \in 1..Len(wire') : i + 1 \in 1..Len(wire) /\ wire'[i] = wire[i + 1]
           /\ ToSet(wire') = ToSet(wire) \ {Head(wire)}
           /\ OutboxOK'
<1> DEFINE h == Head(wire)
<1>1. /\ wire \in Seq(Reports) /\ Len(wire) \in Nat \ {0} /\ DOMAIN wire = 1..Len(wire)
      /\ pending \in Seq(Reports)
    BY LenProperties, EmptySeq DEF OutboxOK
<1>2. /\ wire' \in Seq(Reports) /\ Len(wire') = Len(wire) - 1
      /\ \A i \in 1..Len(wire') : wire'[i] = wire[i + 1]
    BY <1>1, HeadTailProperties
<1>3. h = wire[1] /\ 1 \in 1..Len(wire) BY <1>1
<1>4. Outbox' = Outbox \ {h} /\ pending' \in Seq(Reports) /\ InOrder(pending)'
    BY HeadLeaves
<1>5. h \in Outbox BY HeadLeaves
<1> HIDE DEF h
<1>6. \A i \in 1..Len(wire') : i + 1 \in 1..Len(wire) /\ wire'[i] = wire[i + 1] /\ i + 1 # 1
    BY <1>1, <1>2
<1>7. \A i \in 1..Len(wire') : wire'[i].no # h.no
  <2>1. \A k \in 1..Len(wire) : k # 1 => wire[k].no # wire[1].no BY <1>3 DEF OutboxOK
  <2> QED BY <1>3, <1>6, <2>1
<1>8. ToSet(wire') = ToSet(wire) \ {h}
  <2>1. DOMAIN wire' = 1..Len(wire') BY <1>2, LenProperties
  <2>2. \A i \in 1..Len(wire') : wire'[i] \in ToSet(wire) \ {h}
    BY <1>1, <1>6, <1>7 DEF ToSet
  <2>3. ASSUME NEW k \in 1..Len(wire), wire[k] # h PROVE wire[k] \in ToSet(wire')
    <3>1. k # 1 BY <1>3, <2>3
    <3>2. k - 1 \in 1..Len(wire') /\ (k - 1) + 1 = k BY <1>1, <1>2, <3>1
    <3>3. wire'[k - 1] = wire[k] BY <1>2, <3>2
    <3> QED BY <2>1, <3>2, <3>3 DEF ToSet
  <2> QED BY <1>1, <2>1, <2>2, <2>3 DEF ToSet
<1>9. \A i, j \in 1..Len(wire') : i # j => wire'[i].no # wire'[j].no
  <2>1. \A i, j \in 1..Len(wire') : i # j => i + 1 # j + 1 BY <1>1, <1>2
  <2> QED BY <1>6, <2>1 DEF OutboxOK
<1>10. \A i \in 1..Len(wire') : wire'[i] \in Outbox'
    BY <1>4, <1>6, <1>7 DEF OutboxOK
<1>11. link # "down" BY DEF OutboxOK
<1> QED BY <1>2, <1>4, <1>5, <1>6, <1>8, <1>9, <1>10, <1>11 DEF OutboxOK, h

\* The flush puts behind what is on the wire the rest of the outbox, in order.
LEMMA FlushFacts ==
    ASSUME OutboxOK, FlushPending
    PROVE  \E q \in Seq(Reports) :
              /\ InOrder(q) /\ ToSet(q) = Outbox \ ToSet(wire)
              /\ wire' \in Seq(Reports) /\ Len(wire') = Len(wire) + Len(q)
              /\ Len(wire) \in Nat /\ Len(q) \in Nat
              /\ \A i \in 1..Len(wire) : wire'[i] = wire[i]
              /\ \A i \in 1..Len(wire') : i \notin 1..Len(wire) =>
                    i - Len(wire) \in 1..Len(q) /\ wire'[i] = q[i - Len(wire)]
<1> DEFINE q == Without(pending, ToSet(wire))
<1>1. q \in Seq(Reports) /\ InOrder(q) /\ ToSet(q) = Outbox \ ToSet(wire)
    BY WithoutFacts DEF OutboxOK, Outbox
<1>2. wire' = wire \o q BY DEF FlushPending
<1> HIDE DEF q
<1>3. wire \in Seq(Reports) BY DEF OutboxOK
<1>4. Len(wire) \in Nat /\ Len(q) \in Nat BY <1>1, <1>3, LenProperties
<1>5. /\ wire' \in Seq(Reports) /\ Len(wire') = Len(wire) + Len(q)
      /\ \A i \in 1..Len(wire) + Len(q) :
            wire'[i] = IF i <= Len(wire) THEN wire[i] ELSE q[i - Len(wire)]
    BY <1>1, <1>2, <1>3, ConcatProperties
<1>6. \A i \in 1..Len(wire) : i \in 1..Len(wire) + Len(q) /\ i <= Len(wire) BY <1>4
<1>7. \A i \in 1..Len(wire) + Len(q) : i \notin 1..Len(wire) =>
          ~(i <= Len(wire)) /\ i - Len(wire) \in 1..Len(q)
    BY <1>4
<1> QED BY <1>1, <1>4, <1>5, <1>6, <1>7

\* The flush keeps the outbox in order.
LEMMA FlushKeepsOutbox ==
    ASSUME OutboxOK, FlushPending
    PROVE  /\ OutboxOK' /\ Outbox' = Outbox
           /\ ToSet(wire') = Outbox
<1>1. PICK q \in Seq(Reports) :
          /\ InOrder(q) /\ ToSet(q) = Outbox \ ToSet(wire)
          /\ wire' \in Seq(Reports) /\ Len(wire') = Len(wire) + Len(q)
          /\ Len(wire) \in Nat /\ Len(q) \in Nat
          /\ \A i \in 1..Len(wire) : wire'[i] = wire[i]
          /\ \A i \in 1..Len(wire') : i \notin 1..Len(wire) =>
                i - Len(wire) \in 1..Len(q) /\ wire'[i] = q[i - Len(wire)]
    BY FlushFacts
<1>2. DOMAIN q = 1..Len(q) /\ DOMAIN wire = 1..Len(wire) /\ DOMAIN wire' = 1..Len(wire')
    BY <1>1, LenProperties DEF OutboxOK
<1>3. Outbox' = Outbox /\ pending' = pending /\ link = "opening" /\ link' = "up" /\ socket' = socket
    BY DEF FlushPending, Outbox, outside
<1>4. \A i \in 1..Len(q) : q[i] \in Outbox \ ToSet(wire) BY <1>1, <1>2 DEF ToSet
<1>5. \A i \in 1..Len(wire) : wire[i] \in Outbox /\ wire[i] \in ToSet(wire)
    BY <1>2 DEF OutboxOK, ToSet
<1>6. ASSUME NEW i \in 1..Len(wire'), NEW j \in 1..Len(wire'), i < j
      PROVE  wire'[i].no # wire'[j].no
  <2>1. CASE i \in 1..Len(wire) /\ j \in 1..Len(wire)
      BY <1>1, <1>6, <2>1 DEF OutboxOK
  <2>2. CASE i \in 1..Len(wire) /\ j \notin 1..Len(wire)
    <3>1. wire'[i] = wire[i] /\ wire[i] \in Outbox /\ wire[i] \in ToSet(wire)
      BY <1>1, <1>5, <2>2
    <3>2. wire'[j] \in Outbox \ ToSet(wire) BY <1>1, <1>4, <2>2
    <3> QED BY <3>1, <3>2, NumbersTell
  <2>3. CASE i \notin 1..Len(wire)
    <3>1. j \notin 1..Len(wire) /\ i - Len(wire) < j - Len(wire) BY <1>1, <1>6, <2>3
    <3>2. i - Len(wire) \in 1..Len(q) /\ j - Len(wire) \in 1..Len(q) BY <1>1, <2>3, <3>1
    <3>3. q[i - Len(wire)].no < q[j - Len(wire)].no BY <1>1, <3>1, <3>2 DEF InOrder
    <3>4. q[i - Len(wire)].no \in Nat /\ q[j - Len(wire)].no \in Nat
      BY <1>4, <3>2, OutboxTypes
    <3>5. q[i - Len(wire)].no # q[j - Len(wire)].no BY <3>3, <3>4
    <3> QED BY <1>1, <2>3, <3>1, <3>5
  <2> QED BY <2>1, <2>2, <2>3
<1>7. \A i, j \in 1..Len(wire') : i # j => wire'[i].no # wire'[j].no
  <2>1. \A i, j \in 1..Len(wire') : i # j => i < j \/ j < i BY <1>1
  <2> QED BY <1>6, <2>1
<1>8. \A i \in 1..Len(wire') : wire'[i] \in Outbox
    BY <1>1, <1>4, <1>5
<1>9. ASSUME NEW e \in Outbox PROVE e \in ToSet(wire')
  <2>1. CASE e \in ToSet(wire)
    <3>1. PICK i \in 1..Len(wire) : e = wire[i] BY <1>2, <2>1 DEF ToSet
    <3>2. i \in 1..Len(wire') BY <1>1
    <3> QED BY <1>1, <1>2, <3>1, <3>2 DEF ToSet
  <2>2. CASE e \notin ToSet(wire)
    <3>1. PICK k \in 1..Len(q) : e = q[k] BY <1>1, <1>2, <2>2 DEF ToSet
    <3> DEFINE i == Len(wire) + k
    <3>2. i \in 1..Len(wire') /\ i \notin 1..Len(wire) /\ i - Len(wire) = k BY <1>1
    <3> HIDE DEF i
    <3>3. wire'[i] = e BY <1>1, <3>1, <3>2
    <3> QED BY <1>2, <3>2, <3>3 DEF ToSet
  <2> QED BY <2>1, <2>2
<1>10. ToSet(wire') = Outbox
  <2>1. \A x \in ToSet(wire') : x \in Outbox BY <1>2, <1>8 DEF ToSet
  <2> QED BY <1>9, <2>1
<1> QED BY <1>1, <1>3, <1>7, <1>8, <1>10 DEF OutboxOK

\* What the runner reports, and what it adds.
LEMMA BodyTypes ==
    ASSUME TypeOK
    PROVE  /\ \A t \in {"accepted", "running", "failed", "persisted"} : [type |-> t] \in Bodies
           /\ made \in Views /\ tables \in Views /\ shown \in Views
           /\ [type |-> "completed", view |-> made] \in Bodies
           /\ \A kind \in Kinds : /\ TableOf(kind) \in Tables
                                  /\ NewRow(kind) \in Rows
                                  /\ NewRow(kind).kind = kind
                                  /\ NewRow(kind).n = Len(made[TableOf(kind)]) + 1
                                  /\ [type |-> "row", row |-> NewRow(kind)] \in Bodies
<1>1. made \in Views /\ tables \in Views /\ shown \in Views BY DEF TypeOK, Views, Tables
<1>2. ASSUME NEW kind \in Kinds
      PROVE  TableOf(kind) \in Tables /\ NewRow(kind) \in Rows
  <2>1. TableOf(kind) \in Tables BY DEF TableOf, Tables
  <2>2. Len(made[TableOf(kind)]) \in Nat BY <1>1, <2>1, LenProperties DEF Views
  <2> QED BY <2>1, <2>2 DEF NewRow, Rows
<1>3. \A kind \in Kinds : NewRow(kind).kind = kind /\ NewRow(kind).n = Len(made[TableOf(kind)]) + 1
    BY DEF NewRow
<1>4. \A row \in Rows : [type |-> "row", row |-> row] \in Bodies BY DEF Bodies
<1>5. \A v \in Views : [type |-> "completed", view |-> v] \in Bodies BY DEF Bodies
<1>6. \A t \in {"accepted", "running", "failed", "persisted"} : [type |-> t] \in Bodies
    BY DEF Bodies
<1> QED BY <1>1, <1>2, <1>3, <1>4, <1>5, <1>6

\* A step that touches neither outbox nor wire.
LEMMA OutboxRests ==
    ASSUME OutboxOK, UNCHANGED <<socket, pending, wire>>,
           link' = link \/ (socket /\ link = "down" /\ link' = "opening")
    PROVE  OutboxOK'
BY DEF OutboxOK, Outbox

\* update_task keeps the outbox in order.
LEMMA UpdateKeepsOutbox ==
    ASSUME OutboxOK, NEW new, NEW m \in Bodies, NEW next, NEW onError,
           UpdateTask(new, m, next, onError), UNCHANGED <<socket, link>>
    PROVE  OutboxOK'
<1>1. CASE socket /\ Emit(m) BY <1>1, SendKeepsOutbox DEF Emit
<1>2. CASE UNCHANGED outbox BY <1>2, OutboxRests DEF outbox
<1> QED BY <1>1, <1>2 DEF UpdateTask, Patch

\* So do add_artifact and add_event.
LEMMA AddRowKeepsOutbox ==
    ASSUME TypeOK, OutboxOK, NEW kind \in Kinds, NEW large, NEW next, NEW onError,
           AddRow(kind, large, next, onError), UNCHANGED <<socket, link>>
    PROVE  OutboxOK'
<1>1. CASE socket /\ Report(NewRow(kind), next)
    BY <1>1, BodyTypes, SendKeepsOutbox DEF Report, Emit
<1>2. CASE Upload(NewRow(kind), next, onError)
  <2>1. CASE socket /\ Send([type |-> "persisted"])
      BY <2>1, BodyTypes, SendKeepsOutbox
  <2>2. CASE UNCHANGED <<pending, wire>> BY <2>2, OutboxRests
  <2> QED BY <1>2, <2>1, <2>2 DEF Upload
<1> QED BY <1>1, <1>2 DEF AddRow

\* Every step keeps the outbox in order.
LEMMA NextKeepsOutbox ==
    ASSUME TypeOK, OutboxOK, Next
    PROVE  OutboxOK'
<1>1. CASE Connect
    BY <1>1, OutboxRests DEF Connect, outside, outbox
<1>2. CASE FlushPending BY <1>2, FlushKeepsOutbox
<1>3. CASE Break \/ Restart
  <2>1. pending' = pending /\ wire' = <<>> /\ link' = "down" /\ socket' = socket
    BY <1>3 DEF Break, Restart, outside
  <2> QED BY <2>1, EmptySeq DEF OutboxOK, Outbox
<1>4. CASE Handle
  <2>1. wire # <<>> /\ wire' = Tail(wire) /\ Handled /\ UNCHANGED <<socket, link>>
    BY <1>4 DEF Handle, outside
  <2> QED BY <2>1, HandleFacts
<1>9. CASE HandleCut
  <2>1. /\ wire # <<>> /\ wire' = <<>> /\ Handled /\ link' = "down" /\ socket' = socket
    BY <1>9 DEF HandleCut, outside
  <2>2. socket BY <2>1 DEF OutboxOK
  <2> QED BY <2>1, <2>2, HeadLeaves, EmptySeq DEF OutboxOK
<1>5. CASE Dispatch
  <2>1. socket /\ UNCHANGED <<socket, link>> BY <1>5 DEF Dispatch, outside
  <2>2. CASE Emit([type |-> "accepted"])
      BY <2>1, <2>2, BodyTypes, SendKeepsOutbox DEF Emit
  <2>3. CASE UNCHANGED outbox BY <2>1, <2>3, OutboxRests DEF outbox
  <2> QED BY <1>5, <2>2, <2>3 DEF Dispatch
<1>6. CASE Register \/ Lease \/ ExpireLease \/ Start \/ IssueToken \/ ListArtifacts
           \/ RecordBranch \/ Raise
  <2>1. UNCHANGED <<socket, pending, wire, link>>
    BY <1>6 DEF Register, Lease, ExpireLease, Start, IssueToken, ListArtifacts,
                RecordBranch, Raise, outside, outbox
  <2> QED BY <2>1, OutboxRests
<1>7. CASE BeginRun \/ Deliver \/ ReportFailure
  <2>1. UNCHANGED <<socket, link>> BY <1>7 DEF BeginRun, Deliver, ReportFailure, outside
  <2> QED BY <1>7, <2>1, BodyTypes, UpdateKeepsOutbox DEF BeginRun, Deliver, ReportFailure
<1>8. CASE AnnounceLease \/ RecordWorktree \/ Work \/ Announce \/ Explain
  <2>1. UNCHANGED <<socket, link>>
    BY <1>8 DEF AnnounceLease, RecordWorktree, Work, Announce, Explain, outside
  <2>2. \E kind \in Kinds : \E large, next, onError : AddRow(kind, large, next, onError)
    BY <1>8, Zenon DEF AnnounceLease, RecordWorktree, Work, Announce, Explain, Kinds
  <2> QED BY <2>1, <2>2, AddRowKeepsOutbox
<1> QED BY <1>1, <1>2, <1>3, <1>4, <1>5, <1>6, <1>7, <1>8, <1>9 DEF Next, Run

-----------------------------------------------------------------------------
(* Types                                                                   *)

Statuses == ActiveStatus \cup {"draft", "queued", "waiting_approval", "failed"}
Points   == {"register", "idle", "leased", "begin", "list", "branch", "worktree",
             "work", "announce", "failing", "explain"}

\* What the queue does to a row of jobs.
LEMMA JobTypes ==
    ASSUME NEW j \in Job
    PROVE  Renewed(j) \in Job /\ Completed(j) \in Job /\ Failed(j) \in Job /\ Leased(j) \in Job
<1>1. Renewed(j) \in Job BY DEF Renewed, Job
<1>2. Completed(j) \in Job BY DEF Completed, Job
<1>3. Failed(j) \in Job
  <2>1. CASE Retries(j) BY <2>1 DEF Failed, Job
  <2>2. CASE ~Retries(j) BY <2>2 DEF Failed, Job
  <2> QED BY <2>1, <2>2
<1>4. Leased(j) \in Job
  <2>1. j.attempts + 1 \in Nat BY DEF Job
  <2>2. \A n \in Nat : [j EXCEPT !.state = "leased", !.attempts = n] \in Job BY DEF Job
  <2>3. Leased(j) = [j EXCEPT !.state = "leased", !.attempts = j.attempts + 1]
    BY DEF Leased, Job
  <2> QED BY <2>1, <2>2, <2>3
<1> QED BY <1>1, <1>2, <1>3, <1>4

\* Recovery.
LEMMA RecoveredTypes ==
    ASSUME TypeOK
    PROVE  RecoveredJob \in Job /\ RecoveredStatus \in Statuses
<1>1. RecoveredJob \in Job BY DEF TypeOK, RecoveredJob, Job
<1>2. RecoveredStatus \in Statuses BY DEF TypeOK, RecoveredStatus, Statuses
<1> QED BY <1>1, <1>2

\* After a request the thread is where the caller wants it, and a fault that the
\* bound allows was counted.
LEMMA GoesTypes ==
    ASSUME TypeOK, NEW o \in Outcomes, NEW next \in Points, NEW onError \in Points,
           Goes(o, next, onError)
    PROVE  pc' \in Points /\ faults' \in 0..MaxFaults
<1>1. pc' \in Points BY DEF Goes
<1>2. faults \in 0..MaxFaults /\ MaxFaults \in Nat BY RemoteAssumption DEF TypeOK
<1>3. o = "answered" \/ Refused \/ faults < MaxFaults BY DEF Outcomes
<1> QED BY <1>1, <1>2, <1>3 DEF Goes

\* A row more in one of the tables.
LEMMA AddedTypes ==
    ASSUME NEW view \in Views, NEW row \in Rows
    PROVE  /\ Added(view, row) \in Views
           /\ TableOf(row.kind) \in Tables
           /\ Added(view, row)[TableOf(row.kind)] = Append(view[TableOf(row.kind)], row)
           /\ \A T \in Tables : T # TableOf(row.kind) => Added(view, row)[T] = view[T]
<1>1. TableOf(row.kind) \in Tables BY DEF TableOf, Tables
<1>2. Append(view[TableOf(row.kind)], row) \in Seq(Rows)
    BY <1>1, AppendProperties DEF Views
<1> QED BY <1>1, <1>2 DEF Added, Views

\* What update_task leaves.
LEMMA UpdateTypes ==
    ASSUME TypeOK, NEW new \in Statuses, NEW m, NEW next \in Points, NEW onError \in Points,
           UpdateTask(new, m, next, onError)
    PROVE  /\ status' \in Statuses /\ shown' \in Views /\ disturbed' \in BOOLEAN
           /\ pc' \in Points /\ faults' \in 0..MaxFaults
<1>0. status \in Statuses /\ shown \in Views /\ made \in Views /\ disturbed \in BOOLEAN
      /\ faults \in 0..MaxFaults
    BY BodyTypes DEF TypeOK, Statuses
<1>1. CASE socket /\ Emit(m) /\ pc' = next /\ UNCHANGED <<status, shown, faults>>
    BY <1>0, <1>1 DEF Emit
<1>2. CASE Patch(new, next, onError)
  <2>1. PICK o \in Outcomes :
            /\ status' = IF Acts(o) THEN new ELSE status
            /\ shown' = IF Acts(o) /\ new = "waiting_approval" THEN made ELSE shown
            /\ Goes(o, next, onError)
    BY <1>2 DEF Patch
  <2>2. pc' \in Points /\ faults' \in 0..MaxFaults BY <2>1, GoesTypes
  <2>3. disturbed' = disturbed BY <1>2 DEF Patch, outbox
  <2> QED BY <1>0, <2>1, <2>2, <2>3
<1> QED BY <1>1, <1>2 DEF UpdateTask

\* What add_artifact and add_event leave.
LEMMA AddRowTypes ==
    ASSUME TypeOK, NEW kind \in Kinds, NEW large, NEW next \in Points, NEW onError \in Points,
           AddRow(kind, large, next, onError)
    PROVE  /\ tables' \in Views /\ made' \in Views /\ cache' \in Seq(Rows)
           /\ disturbed' \in BOOLEAN /\ pc' \in Points /\ faults' \in 0..MaxFaults
<1> DEFINE row == NewRow(kind)
<1>0. /\ tables \in Views /\ made \in Views /\ cache \in Seq(Rows)
      /\ faults \in 0..MaxFaults /\ row \in Rows
    BY BodyTypes DEF TypeOK
<1>1. Added(tables, row) \in Views /\ Added(made, row) \in Views /\ Append(cache, row) \in Seq(Rows)
    BY <1>0, AddedTypes, AppendProperties
<1> HIDE DEF row
<1>2. CASE Report(row, next)
    BY <1>0, <1>1, <1>2 DEF Report, Emit
<1>3. CASE Upload(row, next, onError)
  <2>1. PICK o \in Outcomes :
            /\ tables' = IF Acts(o) THEN Added(tables, row) ELSE tables
            /\ made' = IF Acts(o) THEN Added(made, row) ELSE made
            /\ Goes(o, next, onError)
            /\ disturbed' = (disturbed \/ (socket /\ Acts(o) /\ OthersWait))
    BY <1>3 DEF Upload
  <2>2. pc' \in Points /\ faults' \in 0..MaxFaults BY <2>1, GoesTypes
  <2>3. cache' = cache BY <1>3 DEF Upload
  <2> QED BY <1>0, <1>1, <2>1, <2>2, <2>3
<1> QED BY <1>2, <1>3 DEF AddRow, row

\* What the server keeps of a report.
LEMMA HandleTypes ==
    ASSUME TypeOK, OutboxOK, Handle \/ HandleCut
    PROVE  status' \in Statuses /\ job' \in Job /\ tables' \in Views /\ shown' \in Views
<1>0. /\ status \in Statuses /\ job \in Job /\ tables \in Views /\ shown \in Views
    BY BodyTypes DEF TypeOK, Statuses
<1> DEFINE m == Head(wire).body
<1>1. m \in Bodies
  <2>1. wire # <<>> /\ Handled BY DEF Handle, HandleCut
  <2> QED BY <2>1, HeadLeaves, OutboxTypes
<1>2. ActsUpon(m) \/ HalfActs(m) \/ UNCHANGED <<server, shown>>
    BY DEF Handle, HandleCut
<1> HIDE DEF m
<1>3. CASE StoreRow(m)
  <2>1. m.row \in Rows BY <1>1, <1>3 DEF StoreRow, Bodies
  <2>2. tables' = Added(tables, m.row) BY <1>3 DEF StoreRow, Added
  <2>3. tables' \in Views BY <1>0, <2>1, <2>2, AddedTypes
  <2>4. UNCHANGED <<status, job, shown>> BY <1>3 DEF StoreRow
  <2> QED BY <1>0, <2>3, <2>4
<1>4. CASE Progress(m) BY <1>0, <1>4, JobTypes DEF Progress, Statuses, ActiveStatus
<1>5. CASE Persisted(m) BY <1>0, <1>5 DEF Persisted
<1>6. CASE TaskCompleted(m)
  <2>1. m.view \in Views BY <1>1, <1>6 DEF TaskCompleted, Bodies
  <2> QED BY <1>0, <1>6, <2>1, JobTypes DEF TaskCompleted, Statuses
<1>7. CASE TaskFailed(m) BY <1>0, <1>7, JobTypes DEF TaskFailed, Statuses
<1>8. CASE HalfActs(m)
  <2>1. m.type = "completed" => m.view \in Views BY <1>1 DEF Bodies
  <2> QED BY <1>0, <1>8, <2>1, JobTypes DEF HalfActs, Statuses
<1>9. CASE UNCHANGED <<server, shown>> BY <1>0, <1>9 DEF server
<1> QED BY <1>2, <1>3, <1>4, <1>5, <1>6, <1>7, <1>8, <1>9 DEF ActsUpon

\* A state has its type when each variable has.
LEMMA TypesTogether ==
    ASSUME OutboxOK',
           socket' \in BOOLEAN, known' \in BOOLEAN, directory' \in BOOLEAN,
           disturbed' \in BOOLEAN, torn' \in BOOLEAN,
           issued' \in 0..MaxTokens /\ held' \in 0..issued',
           status' \in Statuses, job' \in Job,
           tables' \in Views, made' \in Views, shown' \in Views,
           pc' \in Points, cache' \in Seq(Rows), link' \in {"down", "opening", "up"},
           starts' \in 0..MaxStarts, faults' \in 0..MaxFaults
    PROVE  TypeOK'
<1>1. ToSet(wire)' \subseteq ToSet(pending)'
  <2>1. DOMAIN wire' = 1..Len(wire') BY LenProperties DEF OutboxOK
  <2> QED BY <2>1 DEF OutboxOK, Outbox, ToSet
<1> QED BY <1>1 DEF TypeOK, Statuses, Points, Views, Tables

\* The types one by one.
LEMMA TypesApart ==
    ASSUME TypeOK
    PROVE  /\ socket \in BOOLEAN /\ known \in BOOLEAN /\ directory \in BOOLEAN
           /\ disturbed \in BOOLEAN /\ torn \in BOOLEAN
           /\ issued \in 0..MaxTokens /\ held \in 0..issued
           /\ status \in Statuses /\ job \in Job
           /\ tables \in Views /\ made \in Views /\ shown \in Views
           /\ pc \in Points /\ cache \in Seq(Rows) /\ link \in {"down", "opening", "up"}
           /\ starts \in 0..MaxStarts /\ faults \in 0..MaxFaults
BY DEF TypeOK, Statuses, Points, Views, Tables

\* Every step keeps the types.
LEMMA NextKeepsTypes ==
    ASSUME TypeOK, OutboxOK, Next
    PROVE  TypeOK'
<1>0. OutboxOK' BY NextKeepsOutbox
<1>a. {MaxRows, MaxStarts, MaxFaults, MaxTokens} \subseteq Nat BY RemoteAssumption
<1> USE TypesApart
<1>1. CASE Connect \/ FlushPending
    BY <1>0, <1>1, TypesTogether
    DEF Connect, FlushPending, outside, access, server, outbox
<1>2. CASE Break
    BY <1>0, <1>2, <1>a, TypesTogether DEF Break, outside, access, server
<1>3. CASE Restart
  <2>1. pc' \in Points /\ cache' \in Seq(Rows) /\ link' = "down"
    BY <1>3, EmptySeq DEF Restart, Points
  <2>2. held' \in 0..issued' /\ issued' \in 0..MaxTokens /\ faults' \in 0..MaxFaults
    BY <1>3, <1>a DEF Restart
  <2>3. torn' \in BOOLEAN BY <1>3 DEF Restart
  <2> QED BY <1>0, <1>3, <2>1, <2>2, <2>3, TypesTogether DEF Restart, outside, server
<1>4. CASE Handle
    BY <1>0, <1>4, HandleTypes, TypesTogether DEF Handle, outside, access
<1>15. CASE HandleCut
  <2>1. disturbed' \in BOOLEAN BY <1>15 DEF HandleCut
  <2>2. faults' \in 0..MaxFaults BY <1>15, <1>a DEF HandleCut
  <2> QED BY <1>0, <1>15, <2>1, <2>2, HandleTypes, TypesTogether
      DEF HandleCut, outside, access
<1>5. CASE Dispatch
  <2>1. status' \in Statuses /\ job' \in Job
    BY <1>5, RecoveredTypes, JobTypes DEF Dispatch, Statuses, ActiveStatus
  <2>2. pc' \in Points /\ disturbed' \in BOOLEAN
    BY <1>5 DEF Dispatch, Emit, Points, outbox
  <2> QED BY <1>0, <1>5, <2>1, <2>2, TypesTogether DEF Dispatch, outside, access
<1>6. CASE Register
  <2>1. pc' \in Points /\ faults' \in 0..MaxFaults
    BY <1>6, GoesTypes DEF Register, Points
  <2>2. known' \in BOOLEAN BY <1>6 DEF Register, KnownAfter
  <2> QED BY <1>0, <1>6, <2>1, <2>2, TypesTogether DEF Register, outside, server, outbox
<1>7. CASE Lease
  <2>1. PICK o \in Outcomes :
          /\ job' = IF ~Acts(o) THEN job
                    ELSE IF RecoveredJob.state = "pending" THEN Leased(RecoveredJob)
                    ELSE RecoveredJob
          /\ status' = IF ~Acts(o) THEN status
                       ELSE IF RecoveredJob.state = "pending" THEN "running"
                       ELSE RecoveredStatus
          /\ Goes(o, IF RecoveredJob.state = "pending" THEN "leased" ELSE "idle", "idle")
    BY <1>7 DEF Lease
  <2>2. job' \in Job /\ status' \in Statuses
    BY <2>1, RecoveredTypes, JobTypes DEF Statuses, ActiveStatus
  <2>3. pc' \in Points /\ faults' \in 0..MaxFaults
    BY <2>1, GoesTypes DEF Points
  <2> QED BY <1>0, <1>7, <2>2, <2>3, TypesTogether DEF Lease, outside, access, outbox
<1>8. CASE ExpireLease
  <2>1. job' \in Job BY <1>8 DEF ExpireLease, Job
  <2> QED BY <1>0, <1>8, <1>a, <2>1, TypesTogether DEF ExpireLease, outside, access, outbox
<1>9. CASE ListArtifacts \/ RecordBranch
  <2>1. pc' \in Points /\ faults' \in 0..MaxFaults
    <3>1. ASSUME NEW next \in Points, Asks(next) PROVE pc' \in Points /\ faults' \in 0..MaxFaults
      <4>1. "failing" \in Points BY DEF Points
      <4> QED BY <3>1, <4>1, GoesTypes DEF Asks
    <3>2. \E next \in Points : Asks(next)
      BY <1>9 DEF ListArtifacts, RecordBranch, Points
    <3> QED BY <3>1, <3>2
  <2>2. directory' \in BOOLEAN /\ torn' \in BOOLEAN BY <1>9 DEF ListArtifacts, RecordBranch
  <2> QED BY <1>0, <1>9, <2>1, <2>2, TypesTogether
          DEF ListArtifacts, RecordBranch, outside, access, server, outbox
<1>10. CASE BeginRun \/ Deliver \/ ReportFailure
  <2>1. /\ status' \in Statuses /\ shown' \in Views /\ disturbed' \in BOOLEAN
        /\ pc' \in Points /\ faults' \in 0..MaxFaults
    BY <1>10, UpdateTypes DEF BeginRun, Deliver, ReportFailure, Statuses, ActiveStatus, Points
  <2> QED BY <1>0, <1>10, <2>1, TypesTogether
          DEF BeginRun, Deliver, ReportFailure, outside, access
<1>11. CASE AnnounceLease \/ RecordWorktree \/ Work \/ Announce \/ Explain
  <2>1. \E kind \in Kinds, next \in Points, onError \in Points : \E large :
            AddRow(kind, large, next, onError)
    BY <1>11, Zenon
    DEF AnnounceLease, RecordWorktree, Work, Announce, Explain, Kinds, Points
  <2>2. /\ tables' \in Views /\ made' \in Views /\ cache' \in Seq(Rows)
        /\ disturbed' \in BOOLEAN /\ pc' \in Points /\ faults' \in 0..MaxFaults
    BY <2>1, AddRowTypes
  <2>3. torn' \in BOOLEAN
    BY <1>11 DEF AnnounceLease, RecordWorktree, Work, Announce, Explain
  <2>4. UNCHANGED <<outside, access, status, job, directory, link, shown>>
    BY <1>11 DEF AnnounceLease, RecordWorktree, Work, Announce, Explain
  <2> QED BY <1>0, <2>2, <2>3, <2>4, TypesTogether DEF outside, access
<1>12. CASE Raise
    BY <1>0, <1>12, TypesTogether DEF Raise, Points, outside, access, server, outbox
<1>13. CASE Start
  <2>1. job' \in Job /\ status' \in Statuses /\ starts' \in 0..MaxStarts
    BY <1>13, <1>a DEF Start, Job, Statuses
  <2> QED BY <1>0, <1>13, <2>1, TypesTogether DEF Start, access, outbox
<1>14. CASE IssueToken
    BY <1>0, <1>14, <1>a, TypesTogether DEF IssueToken, outside, server, outbox
<1> QED BY <1>1, <1>2, <1>3, <1>4, <1>5, <1>6, <1>7, <1>8, <1>9, <1>10, <1>11, <1>12,
           <1>13, <1>14, <1>15 DEF Next, Run

-----------------------------------------------------------------------------
(* The worktree                                                            *)

\* A record of the worktree stays in a list that grows.
LEMMA RecordStays ==
    ASSUME NEW s \in Seq(Rows), NEW row \in Rows,
           row.kind = "worktree" \/ \E i \in DOMAIN s : s[i].kind = "worktree"
    PROVE  \E i \in DOMAIN Append(s, row) : Append(s, row)[i].kind = "worktree"
<1>1. /\ DOMAIN s = 1..Len(s) /\ Len(s) \in Nat
      /\ DOMAIN Append(s, row) = 1..Len(s) + 1
      /\ \A i \in 1..Len(s) : Append(s, row)[i] = s[i]
      /\ Append(s, row)[Len(s) + 1] = row
    BY AppendProperties, LenProperties
<1>2. CASE row.kind = "worktree"
  <2>1. Len(s) + 1 \in DOMAIN Append(s, row) BY <1>1
  <2> QED BY <1>1, <1>2, <2>1
<1>3. ASSUME NEW i \in DOMAIN s, s[i].kind = "worktree"
      PROVE  \E k \in DOMAIN Append(s, row) : Append(s, row)[k].kind = "worktree"
  <2>1. i \in 1..Len(s) /\ i \in DOMAIN Append(s, row) BY <1>1
  <2> QED BY <1>1, <1>3, <2>1
<1> QED BY <1>2, <1>3

\* What the engine sees of a row it adds.
LEMMA AddRowListed ==
    ASSUME TypeOK, NEW kind \in Kinds, NEW large, NEW next, NEW onError,
           AddRow(kind, large, next, onError), UNCHANGED socket, WorktreeKnown,
           directory /\ ~torn /\ pc \notin {"branch", "worktree"}
    PROVE  KnowsWorktree'
<1> DEFINE row == NewRow(kind)
<1>0. /\ row \in Rows /\ cache \in Seq(Rows) /\ tables \in Views
      /\ tables.artifacts \in Seq(Rows)
    BY BodyTypes, TypesApart DEF Views, Tables
<1> HIDE DEF row
<1>1. \E i \in DOMAIN Listed : Listed[i].kind = "worktree" BY DEF WorktreeKnown, KnowsWorktree
<1>2. Listed' = Listed \/ Listed' = Append(Listed, row)
  <2>1. CASE socket
    <3>1. cache' = cache \/ cache' = Append(cache, row)
      BY DEF AddRow, Report, Upload, row
    <3> QED BY <2>1, <3>1 DEF Listed
  <2>2. CASE ~socket
    <3>1. tables' = tables \/ tables' = Added(tables, row)
      BY <2>2 DEF AddRow, Upload, row
    <3>2. tables'.artifacts = tables.artifacts \/ tables'.artifacts = Append(tables.artifacts, row)
      BY <1>0, <3>1, AddedTypes DEF Tables
    <3> QED BY <2>2, <3>2 DEF Listed, StoredArtifacts
  <2> QED BY <2>1, <2>2
<1>3. Listed \in Seq(Rows) BY <1>0 DEF Listed, StoredArtifacts
<1> QED BY <1>0, <1>1, <1>2, <1>3, RecordStays DEF KnowsWorktree

\* Every step keeps the record of the worktree, or it is torn.
LEMMA NextKeepsWorktree ==
    ASSUME TypeOK, OutboxOK, WorktreeKnown, Next
    PROVE  WorktreeKnown'
<1>1. CASE Connect \/ FlushPending \/ Break \/ ExpireLease \/ Start \/ IssueToken
  <2>1. UNCHANGED <<socket, tables, cache, directory, torn, pc>>
    BY <1>1 DEF Connect, FlushPending, Break, ExpireLease, Start, IssueToken, outside, server
  <2> QED BY <2>1 DEF WorktreeKnown, KnowsWorktree, Listed, StoredArtifacts
<1>2. CASE Register \/ Lease \/ BeginRun \/ Deliver \/ ReportFailure \/ Raise
  <2>1. UNCHANGED <<socket, tables, cache, directory, torn>>
    BY <1>2 DEF Register, Lease, BeginRun, Deliver, ReportFailure, Raise, outside, server
  <2>2. pc \notin {"branch", "worktree"}
    BY <1>2 DEF Register, Lease, BeginRun, Deliver, ReportFailure, Raise
  <2> QED BY <2>1, <2>2 DEF WorktreeKnown, KnowsWorktree, Listed, StoredArtifacts
<1>3. CASE Handle \/ HandleCut
  <2>1. UNCHANGED <<socket, cache, directory, torn, pc>>
    BY <1>3 DEF Handle, HandleCut, outside
  <2>2. socket BY <1>3 DEF Handle, HandleCut, OutboxOK
  <2> QED BY <2>1, <2>2 DEF WorktreeKnown, KnowsWorktree, Listed
<1>4. CASE Dispatch
  <2>1. UNCHANGED <<socket, tables, cache, directory, torn>> BY <1>4 DEF Dispatch, outside
  <2>2. pc' = pc \/ pc = "idle" BY <1>4 DEF Dispatch
  <2> QED BY <2>1, <2>2 DEF WorktreeKnown, KnowsWorktree, Listed, StoredArtifacts
<1>5. CASE ListArtifacts
  <2>1. UNCHANGED <<socket, tables, cache, torn>> /\ pc = "list"
    BY <1>5 DEF ListArtifacts, outside, server
  <2>2. directory' = (directory \/ pc' = "branch") BY <1>5 DEF ListArtifacts
  <2>3. CASE directory BY <2>1, <2>3 DEF WorktreeKnown, KnowsWorktree, Listed, StoredArtifacts
  <2>4. CASE ~directory BY <2>2, <2>4 DEF WorktreeKnown
  <2> QED BY <2>3, <2>4
<1>6. CASE RecordBranch
  <2>1. pc' \in {"worktree", "failing"} /\ torn' = (torn \/ pc' = "failing")
    BY <1>6 DEF RecordBranch, Asks, Goes
  <2> QED BY <2>1 DEF WorktreeKnown
<1>7. CASE RecordWorktree
  <2>1. UNCHANGED socket /\ torn' = (torn \/ (pc' = "failing" /\ tables' = tables))
    BY <1>7 DEF RecordWorktree, outside
  <2> DEFINE row == NewRow("worktree")
  <2>2. "worktree" \in Kinds BY DEF Kinds
  <2>3. /\ row \in Rows /\ row.kind = "worktree" /\ TableOf(row.kind) = "artifacts"
        /\ cache \in Seq(Rows) /\ tables \in Views
    BY <2>2, BodyTypes, TypesApart DEF TableOf
  <2>4. (socket /\ Report(row, "work")) \/ (~socket /\ Upload(row, "work", "failing"))
    BY <1>7 DEF RecordWorktree, AddRow
  <2> HIDE DEF row
  <2>5. CASE socket /\ Report(row, "work")
    <3>1. cache' = Append(cache, row) BY <2>3, <2>5 DEF Report
    <3>2. Listed' = Append(cache, row) BY <2>1, <2>5, <3>1 DEF Listed
    <3> QED BY <2>3, <3>2, RecordStays DEF WorktreeKnown, KnowsWorktree
  <2>6. CASE ~socket /\ Upload(row, "work", "failing")
    <3>1. \/ tables' = Added(tables, row)
          \/ tables' = tables /\ pc' = "failing"
      BY <2>6 DEF Upload, Acts, Goes
    <3>2. CASE tables' = Added(tables, row)
      <4>1. tables'.artifacts = Append(tables.artifacts, row) BY <2>3, <3>2, AddedTypes
      <4>2. tables.artifacts \in Seq(Rows) BY <2>3 DEF Views, Tables
      <4>3. Listed' = Append(tables.artifacts, row) BY <2>1, <2>6, <4>1 DEF Listed, StoredArtifacts
      <4> QED BY <2>3, <4>2, <4>3, RecordStays DEF WorktreeKnown, KnowsWorktree
    <3>3. CASE tables' = tables /\ pc' = "failing" BY <2>1, <3>3 DEF WorktreeKnown
    <3> QED BY <3>1, <3>2, <3>3
  <2> QED BY <2>4, <2>5, <2>6
<1>8. CASE AnnounceLease \/ Work \/ Announce \/ Explain
  <2>1. UNCHANGED <<socket, directory, torn>> /\ pc \notin {"branch", "worktree"}
    BY <1>8 DEF AnnounceLease, Work, Announce, Explain, outside
  <2>2. \E kind \in Kinds : \E large, next, onError : AddRow(kind, large, next, onError)
    BY <1>8, Zenon DEF AnnounceLease, Work, Announce, Explain, Kinds
  <2> QED BY <2>1, <2>2, AddRowListed DEF WorktreeKnown
<1>9. CASE Restart
  <2>1. UNCHANGED <<socket, tables, directory>> BY <1>9 DEF Restart, outside, server
  <2>2. torn' = (torn \/ (directory /\ (socket \/ pc \in {"branch", "worktree"})))
    BY <1>9 DEF Restart
  <2>3. CASE socket BY <2>1, <2>2, <2>3 DEF WorktreeKnown
  <2>4. CASE ~socket
      BY <2>1, <2>2, <2>4 DEF WorktreeKnown, KnowsWorktree, Listed, StoredArtifacts
  <2> QED BY <2>3, <2>4
<1> QED BY <1>1, <1>2, <1>3, <1>4, <1>5, <1>6, <1>7, <1>8, <1>9 DEF Next, Run

-----------------------------------------------------------------------------
(* The order on the wire                                                   *)

\* A step that touches neither outbox nor wire, or empties the wire.
LEMMA WireRests ==
    ASSUME OutboxOK, WireInOrder, pending' = pending,
           \/ wire' = wire /\ (link' = "up" => link = "up")
           \/ wire' = <<>> /\ link' # "up"
    PROVE  WireInOrder'
<1>1. Outbox' = Outbox BY DEF Outbox
<1>2. CASE wire' = wire /\ (link' = "up" => link = "up") BY <1>1, <1>2 DEF WireInOrder, ToSet
<1>3. CASE wire' = <<>> /\ link' # "up" BY <1>3 DEF WireInOrder
<1> QED BY <1>2, <1>3

\* A report that is sent after everything else was, or an announcement.
LEMMA SendKeepsWire ==
    ASSUME TypeOK, OutboxOK, WireInOrder, NEW m \in Bodies, Send(m), UNCHANGED link,
           link = "opening" /\ wire # pending => m.type = "persisted"
    PROVE  WireInOrder'
<1>1. PICK e \in Reports :
          /\ e.body = m /\ \A f \in Outbox : f.no < e.no
          /\ pending' \in Seq(Reports) /\ InOrder(pending)' /\ Outbox' = Outbox \cup {e}
          /\ wire' = IF link = "down" THEN wire ELSE Append(wire, e)
    BY SendFacts
<1>2. wire \in Seq(Reports) /\ \A i \in 1..Len(wire) : wire[i] \in Outbox BY DEF OutboxOK
<1>3. CASE link = "down"
  <2>1. wire' = <<>> BY <1>1, <1>3 DEF OutboxOK
  <2> QED BY <1>3, <2>1 DEF WireInOrder
<1>4. CASE link # "down"
  <2>1. /\ wire' \in Seq(Reports) /\ Len(wire') = Len(wire) + 1 /\ Len(wire) \in Nat
        /\ \A i \in 1..Len(wire) : wire'[i] = wire[i]
        /\ wire'[Len(wire) + 1] = e
    BY <1>1, <1>2, <1>4, AppendProperties, LenProperties
  <2>2. ToSet(wire') = ToSet(wire) \cup {e}
    BY <1>1, <1>2, <1>4, ToSetAppend
  <2>3. Plain(e) => Outbox \subseteq ToSet(wire)
    <3>1. CASE link = "up" BY <3>1 DEF WireInOrder
    <3>2. CASE wire = pending BY <3>2 DEF Outbox
    <3>3. CASE link # "up" /\ wire # pending
      <4>1. link = "opening" BY <1>4, <3>3, TypesApart
      <4> QED BY <1>1, <3>3, <4>1 DEF Plain
    <3> QED BY <3>1, <3>2, <3>3
  <2>4. ASSUME NEW i \in 1..Len(wire'), NEW j \in 1..Len(wire'), i < j,
               Plain(wire'[i]), Plain(wire'[j])
        PROVE  wire'[i].no < wire'[j].no
    <3>1. i \in 1..Len(wire) BY <2>1, <2>4
    <3>2. CASE j = Len(wire) + 1 BY <1>1, <1>2, <2>1, <3>1, <3>2
    <3>3. CASE j # Len(wire) + 1
      <4>1. j \in 1..Len(wire) BY <2>1, <3>3
      <4> QED BY <2>1, <2>4, <3>1, <4>1 DEF WireInOrder
    <3> QED BY <3>2, <3>3
  <2>5. ASSUME NEW i \in 1..Len(wire'), NEW f \in Outbox',
               Plain(wire'[i]), Plain(f), f.no < wire'[i].no
        PROVE  f \in ToSet(wire')
    <3>1. CASE f = e BY <2>2, <3>1
    <3>2. CASE f \in Outbox
      <4>1. CASE i \in 1..Len(wire) BY <2>1, <2>2, <2>5, <3>2, <4>1 DEF WireInOrder
      <4>2. CASE i \notin 1..Len(wire)
        <5>1. i = Len(wire) + 1 BY <2>1, <4>2
        <5> QED BY <2>1, <2>2, <2>3, <2>5, <3>2, <5>1
      <4> QED BY <4>1, <4>2
    <3> QED BY <1>1, <3>1, <3>2
  <2>6. link' = "up" => Outbox' \subseteq ToSet(wire')
    BY <1>1, <2>2 DEF WireInOrder
  <2> QED BY <2>4, <2>5, <2>6 DEF WireInOrder
<1> QED BY <1>3, <1>4

\* The flush sends the rest in order, and nothing of it belongs before what is
\* on the wire.
LEMMA FlushKeepsWire ==
    ASSUME OutboxOK, WireInOrder, FlushPending
    PROVE  WireInOrder'
<1>1. PICK q \in Seq(Reports) :
          /\ InOrder(q) /\ ToSet(q) = Outbox \ ToSet(wire)
          /\ wire' \in Seq(Reports) /\ Len(wire') = Len(wire) + Len(q)
          /\ Len(wire) \in Nat /\ Len(q) \in Nat
          /\ \A i \in 1..Len(wire) : wire'[i] = wire[i]
          /\ \A i \in 1..Len(wire') : i \notin 1..Len(wire) =>
                i - Len(wire) \in 1..Len(q) /\ wire'[i] = q[i - Len(wire)]
    BY FlushFacts
<1>2. Outbox' = Outbox /\ ToSet(wire') = Outbox BY FlushKeepsOutbox
<1>3. DOMAIN q = 1..Len(q) BY <1>1, LenProperties
<1>4. \A k \in 1..Len(q) : q[k] \in Outbox \ ToSet(wire) BY <1>1, <1>3 DEF ToSet
<1>5. ASSUME NEW i \in 1..Len(wire'), NEW j \in 1..Len(wire'), i < j,
             Plain(wire'[i]), Plain(wire'[j])
      PROVE  wire'[i].no < wire'[j].no
  <2>1. CASE i \in 1..Len(wire) /\ j \in 1..Len(wire)
      BY <1>1, <1>5, <2>1 DEF WireInOrder
  <2>2. CASE i \in 1..Len(wire) /\ j \notin 1..Len(wire)
    <3> DEFINE a == wire[i]
               b == q[j - Len(wire)]
    <3>1. wire'[i] = a /\ wire'[j] = b BY <1>1, <2>2
    <3>2. b \in Outbox \ ToSet(wire) /\ a \in Outbox
      BY <1>1, <1>4, <2>2 DEF OutboxOK
    <3>3. ~(b.no < a.no) BY <1>5, <2>2, <3>1, <3>2 DEF WireInOrder
    <3>4. a \in ToSet(wire)
      <4>1. DOMAIN wire = 1..Len(wire) BY LenProperties DEF OutboxOK
      <4> QED BY <2>2, <4>1 DEF ToSet
    <3>5. a.no \in Nat /\ b.no \in Nat BY <3>2, OutboxTypes
    <3> HIDE DEF a, b
    <3>6. a.no # b.no BY <3>2, <3>4, NumbersTell
    <3> QED BY <3>1, <3>3, <3>5, <3>6
  <2>3. CASE i \notin 1..Len(wire)
    <3>1. j \notin 1..Len(wire) /\ i - Len(wire) < j - Len(wire) BY <1>1, <1>5, <2>3
    <3>2. i - Len(wire) \in 1..Len(q) /\ j - Len(wire) \in 1..Len(q) BY <1>1, <2>3, <3>1
    <3>3. q[i - Len(wire)].no < q[j - Len(wire)].no BY <1>1, <3>1, <3>2 DEF InOrder
    <3> QED BY <1>1, <2>3, <3>1, <3>3
  <2> QED BY <2>1, <2>2, <2>3
<1> QED BY <1>2, <1>5 DEF WireInOrder

\* What the server handles is the oldest of the reports, or an announcement.
LEMMA HeadIsOldest ==
    ASSUME OutboxOK, WireInOrder, wire # <<>>, Plain(Head(wire))
    PROVE  \A e \in Outbox : Plain(e) /\ e # Head(wire) => Head(wire).no < e.no
<1> DEFINE h == Head(wire)
<1>1. /\ Len(wire) \in Nat \ {0} /\ DOMAIN wire = 1..Len(wire) /\ h = wire[1]
      /\ 1 \in 1..Len(wire)
    BY LenProperties, EmptySeq DEF OutboxOK
<1>2. h \in Outbox BY <1>1 DEF OutboxOK
<1>3. SUFFICES ASSUME NEW e \in Outbox, Plain(e), e # h PROVE h.no < e.no OBVIOUS
<1> HIDE DEF h
<1>4. h.no \in Nat /\ e.no \in Nat BY <1>2, OutboxTypes
<1>5. h.no # e.no BY <1>2, <1>3, NumbersTell
<1>6. CASE e.no < h.no
  <2>1. e \in ToSet(wire) BY <1>1, <1>3, <1>6 DEF WireInOrder, h
  <2>2. PICK k \in 1..Len(wire) : e = wire[k] BY <1>1, <2>1 DEF ToSet
  <2>3. k # 1 /\ 1 < k BY <1>1, <1>3, <2>2
  <2> QED BY <1>1, <1>3, <2>2, <2>3 DEF WireInOrder, h
<1> QED BY <1>4, <1>5, <1>6

\* The rest of the wire stays in order.
LEMMA HandleKeepsWire ==
    ASSUME OutboxOK, WireInOrder, wire # <<>>, wire' = Tail(wire), Handled,
           UNCHANGED <<socket, link>>
    PROVE  WireInOrder'
<1>1. /\ Head(wire) \in Outbox /\ Outbox' = Outbox \ {Head(wire)}
      /\ \A i \in 1..Len(wire') : i + 1 \in 1..Len(wire) /\ wire'[i] = wire[i + 1]
      /\ ToSet(wire') = ToSet(wire) \ {Head(wire)}
    BY HandleFacts
<1>2. ASSUME NEW i \in 1..Len(wire'), NEW j \in 1..Len(wire'), i < j,
             Plain(wire'[i]), Plain(wire'[j])
      PROVE  wire'[i].no < wire'[j].no
  <2>1. i + 1 < j + 1 BY <1>2
  <2> QED BY <1>1, <1>2, <2>1 DEF WireInOrder
<1>3. ASSUME NEW i \in 1..Len(wire'), NEW e \in Outbox',
             Plain(wire'[i]), Plain(e), e.no < wire'[i].no
      PROVE  e \in ToSet(wire')
    BY <1>1, <1>3 DEF WireInOrder
<1>4. link' = "up" => Outbox' \subseteq ToSet(wire') BY <1>1 DEF WireInOrder
<1> QED BY <1>2, <1>3, <1>4 DEF WireInOrder

-----------------------------------------------------------------------------
(* Rows and deliveries in the outbox                                       *)

\* Lengths are numbers, and so are the numbers of rows.
LEMMA RowNumbers ==
    ASSUME TypeOK, OutboxOK
    PROVE  /\ \A T \in Tables : /\ tables[T] \in Seq(Rows) /\ made[T] \in Seq(Rows)
                                /\ shown[T] \in Seq(Rows)
                                /\ Len(tables[T]) \in Nat /\ Len(made[T]) \in Nat
                                /\ Len(shown[T]) \in Nat
           /\ \A e \in Outbox : IsRow(e) => /\ e.body.row \in Rows /\ e.body.row.n \in Nat
                                            /\ RowTable(e) \in Tables
           /\ \A e \in Outbox : IsView(e) =>
                 /\ e.body.view \in Views
                 /\ \A T \in Tables : /\ e.body.view[T] \in Seq(Rows)
                                      /\ Len(e.body.view[T]) \in Nat
<1>1. \A v \in Views : \A T \in Tables : v[T] \in Seq(Rows) /\ Len(v[T]) \in Nat
    BY LenProperties DEF Views
<1>2. tables \in Views /\ made \in Views /\ shown \in Views BY TypesApart
<1>3. ASSUME NEW e \in Outbox, IsRow(e)
      PROVE  e.body.row \in Rows /\ e.body.row.n \in Nat /\ RowTable(e) \in Tables
  <2>1. e.body \in Bodies BY OutboxTypes
  <2>2. e.body.row \in Rows BY <1>3, <2>1 DEF IsRow, Bodies
  <2> QED BY <2>2 DEF Rows, RowTable, TableOf, Tables
<1>4. ASSUME NEW e \in Outbox, IsView(e) PROVE e.body.view \in Views
  <2>1. e.body \in Bodies BY OutboxTypes
  <2> QED BY <1>4, <2>1 DEF IsView, Bodies
<1> QED BY <1>1, <1>2, <1>3, <1>4

\* Reports come and go that are no rows, and deliveries go.
LEMMA RowsRest ==
    ASSUME RowsInOrder, ViewsInOrder, UNCHANGED <<tables, made>>,
           \A e \in Outbox' : IsRow(e) \/ IsView(e) => e \in Outbox,
           \A e \in Outbox : IsRow(e) => e \in Outbox'
    PROVE  RowsInOrder' /\ ViewsInOrder'
<1>1. RowsInOrder' BY DEF RowsInOrder
<1>2. ViewsInOrder' BY DEF ViewsInOrder
<1> QED BY <1>1, <1>2

\* A delivery is reported: it speaks of all that was made.
LEMMA ViewSent ==
    ASSUME TypeOK, OutboxOK, RowsInOrder, ViewsInOrder, UNCHANGED <<tables, made>>,
           NEW e, e.body = [type |-> "completed", view |-> made],
           Outbox' = Outbox \cup {e}, \A f \in Outbox : f.no < e.no
    PROVE  RowsInOrder' /\ ViewsInOrder'
<1>1. IsView(e) /\ ~IsRow(e) /\ e.body.view = made BY DEF IsView, IsRow
<1>2. RowsInOrder' BY <1>1 DEF RowsInOrder
<1>3. ASSUME NEW T \in Tables
      PROVE  /\ Len(tables[T]) <= Len(made[T]) /\ Heads(made[T], made[T])
             /\ \A f \in Outbox' : IsRow(f) /\ RowTable(f) = T =>
                   (f.no < e.no <=> f.body.row.n <= Len(made[T]))
  <2>1. Len(tables[T]) <= Len(made[T]) BY DEF RowsInOrder, Heads
  <2>2. Heads(made[T], made[T]) BY RowNumbers DEF Heads
  <2>3. \A f \in Outbox : IsRow(f) /\ RowTable(f) = T => f.body.row.n <= Len(made[T])
    BY RowNumbers DEF RowsInOrder
  <2> QED BY <1>1, <2>1, <2>2, <2>3
<1>4. ASSUME NEW g \in Outbox', IsView(g), NEW T \in Tables
      PROVE  /\ Len(tables[T]) <= Len(g.body.view[T])
             /\ Heads(g.body.view[T], made[T])
             /\ \A f \in Outbox' : IsRow(f) /\ RowTable(f) = T =>
                   (f.no < g.no <=> f.body.row.n <= Len(g.body.view[T]))
  <2>1. CASE g = e BY <1>1, <1>3, <2>1
  <2>2. CASE g \in Outbox BY <1>1, <1>4, <2>2 DEF ViewsInOrder
  <2> QED BY <2>1, <2>2
<1>5. ViewsInOrder' BY <1>4 DEF ViewsInOrder
<1> QED BY <1>2, <1>5

\* A row is made and reported.
LEMMA RowSent ==
    ASSUME TypeOK, OutboxOK, RowsInOrder, ViewsInOrder, NEW kind \in Kinds,
           tables' = tables, made' = Added(made, NewRow(kind)),
           NEW e, e.body = [type |-> "row", row |-> NewRow(kind)], e.no \in Nat,
           Outbox' = Outbox \cup {e}, \A f \in Outbox : f.no < e.no
    PROVE  RowsInOrder' /\ ViewsInOrder'
<1> DEFINE row == NewRow(kind)
           K == TableOf(kind)
<1>1. /\ row \in Rows /\ row.kind = kind /\ row.n = Len(made[K]) + 1 /\ K \in Tables
      /\ made \in Views
    BY BodyTypes
<1>2. IsRow(e) /\ ~IsView(e) /\ e.body.row = row /\ RowTable(e) = K
    BY <1>1 DEF IsRow, IsView, RowTable
<1>3. made'[K] = Append(made[K], row) /\ \A T \in Tables : T # K => made'[T] = made[T]
    BY <1>1, AddedTypes
<1> HIDE DEF row, K
<1>4. \A T \in Tables : /\ tables[T] \in Seq(Rows) /\ made[T] \in Seq(Rows)
                        /\ Len(tables[T]) \in Nat /\ Len(made[T]) \in Nat
    BY RowNumbers
<1>5. /\ Len(made'[K]) = Len(made[K]) + 1
      /\ \A i \in 1..Len(made[K]) : made'[K][i] = made[K][i]
      /\ made'[K][Len(made[K]) + 1] = row
    BY <1>1, <1>3, <1>4, AppendProperties
<1>6. ASSUME NEW T \in Tables
      PROVE  /\ Len(made'[T]) \in Nat /\ Len(made[T]) <= Len(made'[T])
             /\ \A i \in 1..Len(made[T]) : made'[T][i] = made[T][i]
             /\ Heads(tables[T], made'[T])
  <2>1. Heads(tables[T], made[T]) BY DEF RowsInOrder
  <2>2. CASE T = K
    <3>1. tables[K] \in Seq(Rows) /\ made[K] \in Seq(Rows) /\ Heads(tables[K], made[K])
      BY <1>1, <1>4, <2>1, <2>2
    <3>2. Heads(tables[K], Append(made[K], row)) BY <1>1, <3>1, HeadsGrow
    <3>3. Len(made[K]) \in Nat BY <1>1, <1>4
    <3>4. Len(made[K]) + 1 \in Nat /\ Len(made[K]) <= Len(made[K]) + 1 BY <3>3
    <3> QED BY <1>3, <1>5, <2>2, <3>2, <3>4
  <2>3. CASE T # K BY <1>3, <1>4, <2>1, <2>3
  <2> QED BY <2>2, <2>3
<1>7. ASSUME NEW f \in Outbox, IsRow(f)
      PROVE  /\ f.body.row.n \in Len(tables[RowTable(f)]) + 1 .. Len(made[RowTable(f)])
             /\ f.body.row.n \in Len(tables[RowTable(f)]) + 1 .. Len(made'[RowTable(f)])
             /\ made'[RowTable(f)][f.body.row.n] = f.body.row
  <2> DEFINE n == f.body.row.n
             T == RowTable(f)
  <2>1. /\ n \in Len(tables[T]) + 1 .. Len(made[T]) /\ made[T][n] = f.body.row /\ T \in Tables
        /\ n \in Nat
    BY <1>7, RowNumbers DEF RowsInOrder
  <2> HIDE DEF n, T
  <2>2. n \in 1..Len(made[T]) /\ n \in Len(tables[T]) + 1 .. Len(made'[T])
    BY <1>4, <1>6, <2>1
  <2> QED BY <1>6, <2>1, <2>2 DEF n, T
<1>8. /\ row.n \in Len(tables[K]) + 1 .. Len(made'[K])
      /\ \A f \in Outbox : IsRow(f) /\ RowTable(f) = K => f.body.row.n < row.n
  <2>1. Len(tables[K]) <= Len(made[K]) BY <1>1 DEF RowsInOrder, Heads
  <2>2. row.n \in Len(tables[K]) + 1 .. Len(made'[K]) BY <1>1, <1>4, <1>5, <2>1
  <2>3. ASSUME NEW f \in Outbox, IsRow(f), RowTable(f) = K PROVE f.body.row.n < row.n
    <3>1. f.body.row.n \in Nat /\ f.body.row.n <= Len(made[K]) BY <1>7, <2>3, RowNumbers
    <3> QED BY <1>1, <1>4, <3>1
  <2> QED BY <2>2, <2>3
<1>9. \A f \in Outbox : f.no \in Nat BY OutboxTypes
<1>10. RowsInOrder'
  <2>1. ASSUME NEW f \in Outbox', IsRow(f)
        PROVE  /\ f.body.row.n \in Len(tables'[RowTable(f)]) + 1 .. Len(made'[RowTable(f)])
               /\ made'[RowTable(f)][f.body.row.n] = f.body.row
    BY <1>1, <1>2, <1>5, <1>7, <1>8, <2>1
  <2>2. ASSUME NEW f \in Outbox', NEW g \in Outbox', IsRow(f), IsRow(g),
               RowTable(f) = RowTable(g), f.no < g.no
        PROVE  f.body.row.n < g.body.row.n
    <3>1. CASE f \in Outbox /\ g \in Outbox BY <2>2, <3>1 DEF RowsInOrder
    <3>2. CASE f \in Outbox /\ g = e BY <1>2, <1>8, <2>2, <3>2
    <3>3. CASE f = e BY <1>9, <2>2, <3>3
    <3> QED BY <3>1, <3>2, <3>3
  <2>3. ASSUME NEW T \in Tables, NEW n \in Len(tables'[T]) + 1 .. Len(made'[T])
        PROVE  \E f \in Outbox' : IsRow(f) /\ RowTable(f) = T /\ f.body.row.n = n
    <3>1. CASE n <= Len(made[T])
      <4>1. n \in Len(tables[T]) + 1 .. Len(made[T]) BY <1>4, <1>6, <3>1
      <4> QED BY <4>1 DEF RowsInOrder
    <3>2. CASE ~(n <= Len(made[T]))
      <4>1. T = K /\ n = Len(made[K]) + 1 BY <1>3, <1>4, <1>5, <3>2
      <4> QED BY <1>1, <1>2, <4>1
    <3> QED BY <3>1, <3>2
  <2> QED BY <1>6, <2>1, <2>2, <2>3 DEF RowsInOrder
<1>11. ViewsInOrder'
  <2>1. ASSUME NEW g \in Outbox', IsView(g), NEW T \in Tables
        PROVE  /\ Len(tables'[T]) <= Len(g.body.view[T])
               /\ Heads(g.body.view[T], made'[T])
               /\ \A f \in Outbox' : IsRow(f) /\ RowTable(f) = T =>
                     (f.no < g.no <=> f.body.row.n <= Len(g.body.view[T]))
    <3>1. g \in Outbox BY <1>2, <2>1
    <3>2. /\ Len(tables[T]) <= Len(g.body.view[T])
          /\ Heads(g.body.view[T], made[T])
          /\ \A f \in Outbox : IsRow(f) /\ RowTable(f) = T =>
                (f.no < g.no <=> f.body.row.n <= Len(g.body.view[T]))
      BY <2>1, <3>1 DEF ViewsInOrder
    <3>3. Len(g.body.view[T]) \in Nat BY <2>1, <3>1, RowNumbers
    <3>4. Heads(g.body.view[T], made'[T])
      BY <1>4, <1>6, <3>2, <3>3 DEF Heads
    <3>5. T = K => ~(e.no < g.no) /\ ~(row.n <= Len(g.body.view[T]))
      <4>1. ~(e.no < g.no) BY <1>9, <3>1
      <4>2. T = K => Len(g.body.view[T]) <= Len(made[K]) BY <3>2 DEF Heads
      <4> QED BY <1>1, <1>4, <3>3, <4>1, <4>2
    <3> QED BY <1>2, <3>2, <3>4, <3>5
  <2> QED BY <2>1 DEF ViewsInOrder
<1> QED BY <1>10, <1>11

\* The oldest report is a row, and the server stores it.
LEMMA RowStored ==
    ASSUME TypeOK, OutboxOK, RowsInOrder, ViewsInOrder, NEW h \in Outbox, IsRow(h),
           \A e \in Outbox : Plain(e) /\ e # h => h.no < e.no,
           Outbox' = Outbox \ {h}, made' = made, tables' = Added(tables, h.body.row)
    PROVE  RowsInOrder' /\ ViewsInOrder'
<1> DEFINE row == h.body.row
           K == TableOf(row.kind)
<1>1. row \in Rows /\ row.n \in Nat /\ K \in Tables /\ RowTable(h) = K
    BY RowNumbers DEF RowTable
<1>2. tables'[K] = Append(tables[K], row) /\ \A T \in Tables : T # K => tables'[T] = tables[T]
    BY <1>1, TypesApart, AddedTypes
<1>3. \A T \in Tables : /\ tables[T] \in Seq(Rows) /\ made[T] \in Seq(Rows)
                        /\ Len(tables[T]) \in Nat /\ Len(made[T]) \in Nat
    BY RowNumbers
<1>4. row.n \in Len(tables[K]) + 1 .. Len(made[K]) /\ made[K][row.n] = row
    BY <1>1 DEF RowsInOrder
<1> HIDE DEF row, K
<1>5. \A e \in Outbox : IsRow(e) \/ IsView(e) => Plain(e) BY DEF IsRow, IsView, Plain
<1>6. ASSUME NEW e \in Outbox, e # h, IsRow(e), RowTable(e) = K PROVE row.n < e.body.row.n
    BY <1>1, <1>5, <1>6 DEF RowsInOrder, row
<1>7. row.n = Len(tables[K]) + 1
  <2>1. Len(tables[K]) \in Nat /\ Len(made[K]) \in Nat BY <1>1, <1>3
  <2>2. Len(tables[K]) + 1 \in Len(tables[K]) + 1 .. Len(made[K]) BY <1>1, <1>4, <2>1
  <2>3. PICK e \in Outbox : IsRow(e) /\ RowTable(e) = K /\ e.body.row.n = Len(tables[K]) + 1
    BY <1>1, <2>2 DEF RowsInOrder
  <2>4. CASE e = h BY <2>3, <2>4 DEF row
  <2>5. CASE e # h
    <3>1. row.n < Len(tables[K]) + 1 BY <1>6, <2>3, <2>5
    <3> QED BY <1>1, <1>4, <2>1, <3>1
  <2> QED BY <2>4, <2>5
<1>8. Len(tables'[K]) = row.n /\ Heads(tables'[K], made[K])
  <2>1. tables[K] \in Seq(Rows) /\ made[K] \in Seq(Rows) /\ Heads(tables[K], made[K])
    BY <1>1, <1>3 DEF RowsInOrder
  <2>2. Len(tables[K]) < Len(made[K]) BY <1>1, <1>3, <1>4, <1>7
  <2>3. Heads(Append(tables[K], row), made[K]) BY <1>1, <1>4, <1>7, <2>1, <2>2, HeadsGrow
  <2>4. Len(Append(tables[K], row)) = Len(tables[K]) + 1 BY <1>1, <2>1, AppendProperties
  <2> QED BY <1>2, <1>7, <2>3, <2>4
<1>9. RowsInOrder'
  <2>1. \A T \in Tables : Heads(tables'[T], made'[T]) BY <1>2, <1>8 DEF RowsInOrder
  <2>2. ASSUME NEW e \in Outbox', IsRow(e)
        PROVE  /\ e.body.row.n \in Len(tables'[RowTable(e)]) + 1 .. Len(made'[RowTable(e)])
               /\ made'[RowTable(e)][e.body.row.n] = e.body.row
    <3>1. e \in Outbox /\ e # h OBVIOUS
    <3>2. /\ e.body.row.n \in Len(tables[RowTable(e)]) + 1 .. Len(made[RowTable(e)])
          /\ made[RowTable(e)][e.body.row.n] = e.body.row
          /\ RowTable(e) \in Tables /\ e.body.row.n \in Nat
      BY <2>2, <3>1, RowNumbers DEF RowsInOrder
    <3>3. CASE RowTable(e) = K
      <4>1. row.n < e.body.row.n BY <1>6, <2>2, <3>1, <3>3
      <4>2. Len(made[K]) \in Nat /\ e.body.row.n \in Nat /\ e.body.row.n <= Len(made[K])
        BY <1>1, <1>3, <3>2, <3>3
      <4>3. e.body.row.n \in row.n + 1 .. Len(made[K]) BY <1>1, <4>1, <4>2
      <4> QED BY <1>8, <3>2, <3>3, <4>3
    <3>4. CASE RowTable(e) # K BY <1>2, <3>2, <3>4
    <3> QED BY <3>3, <3>4
  <2>3. \A e, f \in Outbox' : IsRow(e) /\ IsRow(f) /\ RowTable(e) = RowTable(f) /\ e.no < f.no
            => e.body.row.n < f.body.row.n
    BY DEF RowsInOrder
  <2>4. ASSUME NEW T \in Tables, NEW n \in Len(tables'[T]) + 1 .. Len(made'[T])
        PROVE  \E e \in Outbox' : IsRow(e) /\ RowTable(e) = T /\ e.body.row.n = n
    <3>1. CASE T = K
      <4>1. n \in Len(tables[K]) + 1 .. Len(made[K]) /\ n # row.n
        BY <1>1, <1>3, <1>7, <1>8, <3>1
      <4>2. PICK e \in Outbox : IsRow(e) /\ RowTable(e) = K /\ e.body.row.n = n
        BY <1>1, <4>1 DEF RowsInOrder
      <4>3. e # h BY <4>1, <4>2 DEF row
      <4> QED BY <3>1, <4>2, <4>3
    <3>2. CASE T # K
      <4>1. n \in Len(tables[T]) + 1 .. Len(made[T]) BY <1>2, <3>2
      <4>2. PICK e \in Outbox : IsRow(e) /\ RowTable(e) = T /\ e.body.row.n = n
        BY <4>1 DEF RowsInOrder
      <4>3. e # h BY <1>1, <3>2, <4>2
      <4> QED BY <4>2, <4>3
    <3> QED BY <3>1, <3>2
  <2> QED BY <2>1, <2>2, <2>3, <2>4 DEF RowsInOrder
<1>10. ViewsInOrder'
  <2>1. ASSUME NEW g \in Outbox', IsView(g), NEW T \in Tables
        PROVE  Len(tables'[T]) <= Len(g.body.view[T])
    <3>1. g \in Outbox /\ g # h OBVIOUS
    <3>2. CASE T = K
      <4>1. h.no < g.no BY <1>5, <2>1, <3>1
      <4>2. row.n <= Len(g.body.view[K]) BY <1>1, <2>1, <3>1, <4>1 DEF ViewsInOrder, row
      <4> QED BY <1>8, <3>2, <4>2
    <3>3. CASE T # K BY <1>2, <2>1, <3>1, <3>3 DEF ViewsInOrder
    <3> QED BY <3>2, <3>3
  <2> QED BY <2>1 DEF ViewsInOrder
<1> QED BY <1>9, <1>10

\* A row goes past the outbox into its table, while the outbox holds no delivery
\* and no row of that table.
LEMMA RowUploaded ==
    ASSUME TypeOK, OutboxOK, RowsInOrder, ViewsInOrder, NEW row \in Rows,
           \A e \in Outbox : ~IsView(e) /\ (IsRow(e) => RowTable(e) # TableOf(row.kind)),
           tables' = Added(tables, row), made' = Added(made, row),
           \A e \in Outbox' : IsRow(e) \/ IsView(e) => e \in Outbox,
           \A e \in Outbox : IsRow(e) => e \in Outbox'
    PROVE  RowsInOrder' /\ ViewsInOrder' /\ Len(tables[TableOf(row.kind)]) = Len(made[TableOf(row.kind)])
<1> DEFINE K == TableOf(row.kind)
<1>1. K \in Tables /\ tables \in Views /\ made \in Views BY AddedTypes, TypesApart
<1>2. /\ tables'[K] = Append(tables[K], row) /\ made'[K] = Append(made[K], row)
      /\ \A T \in Tables : T # K => tables'[T] = tables[T] /\ made'[T] = made[T]
    BY <1>1, AddedTypes
<1> HIDE DEF K
<1>3. \A T \in Tables : /\ tables[T] \in Seq(Rows) /\ made[T] \in Seq(Rows)
                        /\ Len(tables[T]) \in Nat /\ Len(made[T]) \in Nat
    BY RowNumbers
<1>4. Len(tables[K]) = Len(made[K])
  <2>1. Len(tables[K]) \in Nat /\ Len(made[K]) \in Nat BY <1>1, <1>3
  <2>2. Len(tables[K]) <= Len(made[K]) BY <1>1 DEF RowsInOrder, Heads
  <2>3. CASE Len(tables[K]) < Len(made[K])
    <3>1. Len(tables[K]) + 1 \in Len(tables[K]) + 1 .. Len(made[K]) BY <2>1, <2>3
    <3>2. PICK e \in Outbox : IsRow(e) /\ RowTable(e) = K BY <1>1, <3>1 DEF RowsInOrder
    <3> QED BY <3>2 DEF K
  <2> QED BY <2>1, <2>2, <2>3
<1>5. Heads(tables'[K], made'[K]) /\ Len(tables'[K]) = Len(made'[K])
  <2>1. tables[K] \in Seq(Rows) /\ made[K] \in Seq(Rows) /\ Heads(tables[K], made[K])
    BY <1>1, <1>3 DEF RowsInOrder
  <2>2. Heads(Append(tables[K], row), Append(made[K], row)) BY <1>4, <2>1, HeadsGrow
  <2>3. /\ Len(Append(tables[K], row)) = Len(tables[K]) + 1
        /\ Len(Append(made[K], row)) = Len(made[K]) + 1
    BY <2>1, AppendProperties
  <2> QED BY <1>2, <1>4, <2>2, <2>3
<1>6. Len(tables'[K]) \in Nat /\ Len(made'[K]) \in Nat
  <2>1. tables'[K] \in Seq(Rows) /\ made'[K] \in Seq(Rows) BY <1>1, <1>2, <1>3, AppendProperties
  <2> QED BY <2>1, LenProperties
<1>7. RowsInOrder'
  <2>1. \A T \in Tables : Heads(tables'[T], made'[T]) BY <1>2, <1>5 DEF RowsInOrder
  <2>2. ASSUME NEW e \in Outbox', IsRow(e)
        PROVE  /\ e \in Outbox /\ RowTable(e) \in Tables /\ RowTable(e) # K
               /\ e.body.row.n \in Len(tables'[RowTable(e)]) + 1 .. Len(made'[RowTable(e)])
               /\ made'[RowTable(e)][e.body.row.n] = e.body.row
    <3>1. e \in Outbox /\ RowTable(e) # K BY <2>2 DEF K
    <3>2. RowTable(e) \in Tables BY <2>2, <3>1, RowNumbers
    <3> QED BY <1>2, <2>2, <3>1, <3>2 DEF RowsInOrder
  <2>3. \A e, f \in Outbox' : IsRow(e) /\ IsRow(f) /\ RowTable(e) = RowTable(f) /\ e.no < f.no
            => e.body.row.n < f.body.row.n
    BY <2>2 DEF RowsInOrder
  <2>4. ASSUME NEW T \in Tables, NEW n \in Len(tables'[T]) + 1 .. Len(made'[T])
        PROVE  \E e \in Outbox' : IsRow(e) /\ RowTable(e) = T /\ e.body.row.n = n
    <3>1. T # K BY <1>5, <1>6
    <3>2. n \in Len(tables[T]) + 1 .. Len(made[T]) BY <1>2, <3>1
    <3> QED BY <3>2 DEF RowsInOrder
  <2> QED BY <2>1, <2>2, <2>3, <2>4 DEF RowsInOrder
<1>8. ViewsInOrder' BY DEF ViewsInOrder
<1> QED BY <1>4, <1>7, <1>8 DEF K

-----------------------------------------------------------------------------
(* The status under which artifacts are made                               *)

\* What reopens a task, or leaves it as it is, while reports come and go.
LEMMA ReopenedFacts ==
    ASSUME NEW S, NEW st, NEW e, \A g \in S : g.no \in Nat, e.no \in Nat
    PROVE  /\ Reopened(st, S) => \A st2 : st2 = st \/ st2 # "waiting_approval" => Reopened(st2, S)
           /\ Reopened(st, S) /\ ~IsView(e) => Reopened(st, S \cup {e})
           /\ Marks(e) /\ (\A g \in S : g.no < e.no) => Reopened(st, S \cup {e})
<1>1. Reopened(st, S) => \A st2 : st2 = st \/ st2 # "waiting_approval" => Reopened(st2, S)
    BY DEF Reopened
<1>2. Reopened(st, S) /\ ~IsView(e) => Reopened(st, S \cup {e})
    BY DEF Reopened
<1>3. Marks(e) /\ (\A g \in S : g.no < e.no) => Reopened(st, S \cup {e})
    BY DEF Reopened, Marks, IsView
<1> QED BY <1>1, <1>2, <1>3

\* The oldest report h of S is handled, and the task has the status st2.
LEMMA ReopenedHandled ==
    ASSUME NEW S, NEW st, NEW st2, NEW h, Reopened(st, S),
           \A g \in S \cup {h} : g.no \in Nat,
           Plain(h) => \A g \in S : Plain(g) /\ g # h => h.no < g.no,
           \/ st2 = st /\ ~Marks(h) /\ ~IsView(h)
           \/ st2 # "waiting_approval" /\ Marks(h)
           \/ IsView(h) /\ h \in S
    PROVE  Reopened(st2, S \ {h})
<1>1. \A g : IsView(g) => Plain(g) /\ ~Marks(g) BY DEF IsView, Plain, Marks
<1>2. \A g : Marks(g) => Plain(g) BY DEF Marks, Plain
<1>3. CASE st2 = st /\ ~Marks(h) /\ ~IsView(h) BY <1>3 DEF Reopened
<1>4. CASE st2 # "waiting_approval" /\ Marks(h)
  <2>1. CASE \E f \in S : f # h /\ Marks(f) /\ \A g \in S : IsView(g) => g.no < f.no
    BY <2>1 DEF Reopened
  <2>2. CASE ~ \E f \in S : f # h /\ Marks(f) /\ \A g \in S : IsView(g) => g.no < f.no
    <3>1. \A g \in S : IsView(g) => g.no < h.no BY <2>2 DEF Reopened
    <3>2. ASSUME NEW g \in S, IsView(g) PROVE FALSE
      <4>1. g.no < h.no /\ h.no < g.no BY <1>1, <1>2, <1>4, <3>1, <3>2
      <4>2. g.no \in Nat /\ h.no \in Nat OBVIOUS
      <4> QED BY <4>1, <4>2
    <3> QED BY <1>4, <3>2 DEF Reopened
  <2> QED BY <2>1, <2>2
<1>5. CASE IsView(h) /\ h \in S
  <2>1. PICK f \in S : Marks(f) /\ \A g \in S : IsView(g) => g.no < f.no
    BY <1>5 DEF Reopened
  <2>2. f # h BY <1>1, <1>5, <2>1
  <2> QED BY <2>1, <2>2 DEF Reopened
<1> QED BY <1>3, <1>4, <1>5

\* No report comes or goes; the status may leave the delivered one.
LEMMA ReopenRests ==
    ASSUME OutboxOK, ArtifactsReopen, Outbox' = Outbox,
           status' = status \/ status' # "waiting_approval",
           pc' \in Working => pc \in Working
    PROVE  ArtifactsReopen'
<1>1. \A e : Before(e)' = Before(e) BY DEF Before
<1>2. ASSUME NEW S PROVE Reopened(status, S) => Reopened(status', S)
    BY DEF Reopened
<1>3. \A e \in Outbox : IsRow(e) /\ RowTable(e) = "artifacts" => Reopened(status', Before(e)')
    BY <1>1, <1>2 DEF ArtifactsReopen
<1>4. pc' \in Working => Reopened(status', Outbox') BY <1>2 DEF ArtifactsReopen
<1> QED BY <1>3, <1>4 DEF ArtifactsReopen, Reopened

\* A report is made: artifacts by a run at work, and a mark by what begins one.
LEMMA ReopenSends ==
    ASSUME OutboxOK, ArtifactsReopen, NEW e, e.no \in Nat, \A f \in Outbox : f.no < e.no,
           Outbox' = Outbox \cup {e},
           status' = status \/ status' # "waiting_approval",
           IsRow(e) /\ RowTable(e) = "artifacts" => pc \in Working,
           pc' \in Working => Marks(e) \/ (pc \in Working /\ ~IsView(e))
    PROVE  ArtifactsReopen'
<1>0. \A f \in Outbox : f.no \in Nat BY OutboxTypes
<1>1. ASSUME NEW f \in Outbox PROVE Before(f)' = Before(f)
  <2>1. ~(e.no < f.no) BY <1>0
  <2> QED BY <2>1 DEF Before
<1>2. Before(e)' = Outbox
  <2>1. ~(e.no < e.no) OBVIOUS
  <2> QED BY <2>1 DEF Before
<1>3. ASSUME NEW S PROVE Reopened(status, S) => Reopened(status', S)
    BY DEF Reopened
<1>4. ASSUME NEW f \in Outbox', IsRow(f), RowTable(f) = "artifacts"
      PROVE  Reopened(status', Before(f)')
  <2>1. CASE f = e BY <1>2, <1>3, <1>4, <2>1 DEF ArtifactsReopen
  <2>2. CASE f \in Outbox BY <1>1, <1>3, <1>4, <2>2 DEF ArtifactsReopen
  <2> QED BY <2>1, <2>2
<1>5. ASSUME pc' \in Working PROVE Reopened(status', Outbox')
  <2>1. CASE Marks(e) BY <1>0, <2>1, ReopenedFacts
  <2>2. CASE pc \in Working /\ ~IsView(e)
    <3>1. Reopened(status', Outbox) BY <1>3, <2>2 DEF ArtifactsReopen
    <3> QED BY <1>0, <2>2, <3>1, ReopenedFacts
  <2> QED BY <1>5, <2>1, <2>2
<1> QED BY <1>4, <1>5 DEF ArtifactsReopen, Reopened

\* The oldest report is handled.
LEMMA ReopenHandles ==
    ASSUME OutboxOK, ArtifactsReopen, NEW h \in Outbox, Outbox' = Outbox \ {h}, pc' = pc,
           Plain(h) => \A e \in Outbox : Plain(e) /\ e # h => h.no < e.no,
           \/ status' = status /\ ~Marks(h) /\ ~IsView(h)
           \/ status' # "waiting_approval" /\ Marks(h)
           \/ IsView(h)
    PROVE  ArtifactsReopen'
<1>0. \A f \in Outbox : f.no \in Nat BY OutboxTypes
<1>1. ASSUME NEW e PROVE Before(e)' = Before(e) \ {h} BY DEF Before
<1>2. ASSUME NEW e \in Outbox', IsRow(e), RowTable(e) = "artifacts"
      PROVE  Reopened(status', Before(e)')
  <2>1. e \in Outbox /\ e # h /\ Plain(e) BY <1>2 DEF IsRow, Plain
  <2>2. IsView(h) => h \in Before(e) BY <2>1 DEF IsView, Plain, Before
  <2>3. Reopened(status, Before(e)) BY <1>2, <2>1 DEF ArtifactsReopen
  <2>4. Before(e) \subseteq Outbox BY DEF Before
  <2>5. Reopened(status', Before(e) \ {h})
    <3>1. \A g \in Before(e) \cup {h} : g.no \in Nat BY <1>0, <2>4
    <3>2. Plain(h) => \A g \in Before(e) : Plain(g) /\ g # h => h.no < g.no BY <2>4
    <3> QED BY <2>2, <2>3, <3>1, <3>2, ReopenedHandled
  <2> QED BY <1>1, <2>5
<1>3. ASSUME pc' \in Working PROVE Reopened(status', Outbox')
  <2>1. Reopened(status, Outbox) BY <1>3 DEF ArtifactsReopen
  <2>2. \A g \in Outbox \cup {h} : g.no \in Nat BY <1>0
  <2> QED BY <2>1, <2>2, ReopenedHandled
<1> QED BY <1>2, <1>3 DEF ArtifactsReopen, Reopened

-----------------------------------------------------------------------------
(* What is shown of a delivered task                                       *)

\* Two heads of one sequence that are equally long are heads of each other.
LEMMA HeadsMeet ==
    ASSUME NEW s, NEW t, NEW u, Heads(s, u), Heads(t, u), Len(s) = Len(t), Len(s) \in Nat
    PROVE  Heads(s, t)
BY DEF Heads

\* The status leaves the delivered one, or nothing changes that is shown.
LEMMA ShownRests ==
    ASSUME ShownInOrder,
           \/ status' # "waiting_approval"
           \/ UNCHANGED <<status, tables, shown>>
    PROVE  ShownInOrder'
BY DEF ShownInOrder

\* A row is stored, and no artifact of a delivered task.
LEMMA ShownGrows ==
    ASSUME TypeOK, OutboxOK, ShownInOrder, UNCHANGED <<status, shown>>, NEW row \in Rows,
           tables' = Added(tables, row),
           TableOf(row.kind) = "artifacts" => status # "waiting_approval"
    PROVE  ShownInOrder'
<1> DEFINE K == TableOf(row.kind)
<1>1. SUFFICES ASSUME status = "waiting_approval"
               PROVE  /\ \A T \in Tables : Heads(shown[T], tables'[T])
                      /\ Len(shown.artifacts) = Len(tables'.artifacts)
    BY DEF ShownInOrder
<1>2. /\ K \in Tables /\ tables'[K] = Append(tables[K], row)
      /\ \A T \in Tables : T # K => tables'[T] = tables[T]
    BY TypesApart, AddedTypes
<1>3. K # "artifacts" BY <1>1
<1> HIDE DEF K
<1>4. \A T \in Tables : Heads(shown[T], tables[T]) BY <1>1 DEF ShownInOrder
<1>5. Len(shown.artifacts) = Len(tables.artifacts) BY <1>1 DEF ShownInOrder
<1>6. Heads(shown[K], tables'[K])
  <2>1. shown[K] \in Seq(Rows) /\ tables[K] \in Seq(Rows) /\ Heads(shown[K], tables[K])
    BY <1>2, <1>4, RowNumbers
  <2>2. Heads(shown[K], Append(tables[K], row)) BY <2>1, HeadsGrow
  <2> QED BY <1>2, <2>2
<1>7. "artifacts" \in Tables BY DEF Tables
<1>8. tables'["artifacts"] = tables["artifacts"] BY <1>2, <1>3, <1>7
<1> QED BY <1>2, <1>4, <1>5, <1>6, <1>8

\* The oldest report is a delivery: all it speaks of is stored, and no more.
LEMMA DeliveryHandled ==
    ASSUME TypeOK, OutboxOK, RowsInOrder, ViewsInOrder, NEW h \in Outbox, IsView(h),
           \A e \in Outbox : Plain(e) /\ e # h => h.no < e.no,
           tables' = tables, shown' = h.body.view
    PROVE  ShownInOrder'
<1>1. ASSUME NEW T \in Tables
      PROVE  Len(h.body.view[T]) = Len(tables[T]) /\ Heads(h.body.view[T], tables[T])
  <2>1. /\ Len(tables[T]) \in Nat /\ Len(made[T]) \in Nat /\ Len(h.body.view[T]) \in Nat
    BY RowNumbers
  <2>2. /\ Len(tables[T]) <= Len(h.body.view[T]) /\ Heads(h.body.view[T], made[T])
        /\ Heads(tables[T], made[T]) /\ Len(h.body.view[T]) <= Len(made[T])
    BY DEF ViewsInOrder, RowsInOrder, Heads
  <2>3. CASE Len(tables[T]) < Len(h.body.view[T])
    <3> DEFINE n == Len(tables[T]) + 1
    <3>1. n \in Len(tables[T]) + 1 .. Len(made[T]) /\ n <= Len(h.body.view[T])
      BY <2>1, <2>2, <2>3
    <3>2. PICK e \in Outbox : IsRow(e) /\ RowTable(e) = T /\ e.body.row.n = n
      BY <3>1 DEF RowsInOrder
    <3> HIDE DEF n
    <3>3. e.no < h.no BY <3>1, <3>2 DEF ViewsInOrder
    <3>4. h.no < e.no BY <3>2 DEF IsRow, IsView, Plain
    <3>5. e.no \in Nat /\ h.no \in Nat BY OutboxTypes
    <3> QED BY <3>3, <3>4, <3>5
  <2>4. Len(h.body.view[T]) = Len(tables[T]) BY <2>1, <2>2, <2>3
  <2> QED BY <2>1, <2>2, <2>4, HeadsMeet
<1>2. "artifacts" \in Tables BY DEF Tables
<1>3. Len(h.body.view["artifacts"]) = Len(tables["artifacts"]) BY <1>1, <1>2
<1> QED BY <1>1, <1>3 DEF ShownInOrder

\* With nothing in the outbox the tables hold what was made.
LEMMA AllStored ==
    ASSUME TypeOK, OutboxOK, RowsInOrder, Outbox = {}, NEW T \in Tables
    PROVE  Len(made[T]) = Len(tables[T]) /\ Heads(made[T], tables[T])
<1>1. Len(tables[T]) \in Nat /\ Len(made[T]) \in Nat /\ made[T] \in Seq(Rows) BY RowNumbers
<1>2. Len(tables[T]) <= Len(made[T]) /\ Heads(tables[T], made[T]) BY DEF RowsInOrder, Heads
<1>3. CASE Len(tables[T]) < Len(made[T])
  <2>1. Len(tables[T]) + 1 \in Len(tables[T]) + 1 .. Len(made[T]) BY <1>1, <1>3
  <2> QED BY <2>1 DEF RowsInOrder
<1>4. Len(made[T]) = Len(tables[T]) BY <1>1, <1>2, <1>3
<1>5. Heads(made[T], made[T]) BY <1>1 DEF Heads
<1> QED BY <1>1, <1>2, <1>4, <1>5, HeadsMeet

\* A delivery by HTTP shows what was made.
LEMMA DeliveryPatched ==
    ASSUME TypeOK, OutboxOK, RowsInOrder, Outbox = {}, tables' = tables, shown' = made
    PROVE  ShownInOrder'
<1>1. "artifacts" \in Tables BY DEF Tables
<1>2. Len(made["artifacts"]) = Len(tables["artifacts"]) BY <1>1, AllStored
<1> QED BY <1>2, AllStored DEF ShownInOrder

\* An artifact is the oldest report, or no mark and no delivery is left: the task
\* is not a delivered one.
LEMMA NotDelivered ==
    ASSUME NEW st, NEW S, Reopened(st, S), \A f \in S : ~Marks(f)
    PROVE  st # "waiting_approval" /\ \A f \in S : ~IsView(f)
BY DEF Reopened

-----------------------------------------------------------------------------
(* The steps of a run in which nothing was disturbed                       *)

\* The outbox, the tables and what was made stay as they are.
LEMMA QuietStep ==
    ASSUME OutboxOK, InStep, UNCHANGED <<pending, tables, made, shown>>,
           \/ wire' = wire /\ (link' = "up" => link = "up")
           \/ wire' = <<>> /\ link' # "up",
           status' = status \/ status' # "waiting_approval",
           pc' \in Working => pc \in Working
    PROVE  InStep'
<1>1. Outbox' = Outbox BY DEF Outbox
<1>2. WireInOrder' BY WireRests DEF InStep
<1>3. RowsInOrder' /\ ViewsInOrder' BY <1>1, RowsRest DEF InStep
<1>4. ArtifactsReopen' BY <1>1, ReopenRests DEF InStep
<1>5. ShownInOrder' BY ShownRests DEF InStep
<1> QED BY <1>2, <1>3, <1>4, <1>5 DEF InStep

\* _flush_pending
LEMMA FlushStep ==
    ASSUME OutboxOK, InStep, FlushPending
    PROVE  InStep'
<1>1. /\ UNCHANGED <<pending, tables, made, shown, status, pc>>
    BY DEF FlushPending, server
<1>2. Outbox' = Outbox BY <1>1 DEF Outbox
<1>3. WireInOrder' BY FlushKeepsWire DEF InStep
<1>4. RowsInOrder' /\ ViewsInOrder' BY <1>1, <1>2, RowsRest DEF InStep
<1>5. ArtifactsReopen' BY <1>1, <1>2, ReopenRests DEF InStep
<1>6. ShownInOrder' BY <1>1, ShownRests DEF InStep
<1> QED BY <1>3, <1>4, <1>5, <1>6 DEF InStep

\* The server acts upon the report at the head of the wire, or does the half of a
\* delivery, or nothing about one.
LEMMA ActStep ==
    ASSUME TypeOK, OutboxOK, InStep, wire # <<>>, Handled, WireInOrder',
           UNCHANGED <<pc, made>>,
           \/ ActsUpon(Head(wire).body)
           \/ /\ Head(wire).body.type = "completed"
              /\ HalfActs(Head(wire).body) \/ UNCHANGED <<server, shown>>
    PROVE  InStep'
<1> DEFINE h == Head(wire)
           m == h.body
<1>1. UNCHANGED <<pc, made>> OBVIOUS
<1>2. h \in Outbox /\ Outbox' = Outbox \ {h} BY HeadLeaves
<1>3. WireInOrder' OBVIOUS
<1>4. Plain(h) => \A e \in Outbox : Plain(e) /\ e # h => h.no < e.no
    BY HeadIsOldest DEF InStep
<1>5. \/ ActsUpon(m)
      \/ m.type = "completed" /\ (HalfActs(m) \/ UNCHANGED <<server, shown>>)
    OBVIOUS
<1> HIDE DEF h
<1>6. CASE StoreRow(m)
  <2>1. IsRow(h) /\ Plain(h) /\ ~Marks(h) /\ ~IsView(h)
    BY <1>6 DEF StoreRow, IsRow, Plain, Marks, IsView
  <2>2. h.body.row \in Rows BY <1>2, <2>1, RowNumbers
  <2>3. tables' = Added(tables, h.body.row) /\ UNCHANGED <<status, shown>>
    BY <1>6 DEF StoreRow, Added
  <2>4. RowsInOrder' /\ ViewsInOrder' BY <1>1, <1>2, <1>4, <2>1, <2>3, RowStored DEF InStep
  <2>5. ArtifactsReopen' BY <1>1, <1>2, <1>4, <2>1, <2>3, ReopenHandles DEF InStep
  <2>6. ASSUME TableOf(h.body.row.kind) = "artifacts" PROVE status # "waiting_approval"
    <3>1. Reopened(status, Before(h))
      BY <1>2, <2>1, <2>6 DEF InStep, ArtifactsReopen, RowTable
    <3>2. ASSUME NEW f \in Before(h), Marks(f) PROVE FALSE
      <4>1. f \in Outbox /\ f.no < h.no /\ Plain(f) BY <3>2 DEF Before, Marks, Plain
      <4>2. f.no \in Nat /\ h.no \in Nat BY <1>2, <4>1, OutboxTypes
      <4>3. f = h \/ h.no < f.no BY <1>4, <2>1, <4>1
      <4> QED BY <4>1, <4>2, <4>3
    <3> QED BY <3>1, <3>2, NotDelivered
  <2>7. ShownInOrder' BY <2>2, <2>3, <2>6, ShownGrows DEF InStep
  <2> QED BY <1>3, <2>4, <2>5, <2>7 DEF InStep
<1>7. CASE Progress(m) \/ TaskFailed(m)
  <2>1. Marks(h) /\ ~IsRow(h)
    BY <1>7 DEF Progress, TaskFailed, IsRow, Marks
  <2>2. status' # "waiting_approval" /\ UNCHANGED <<tables, shown>>
    BY <1>7 DEF Progress, TaskFailed
  <2>3. RowsInOrder' /\ ViewsInOrder' BY <1>1, <1>2, <2>1, <2>2, RowsRest DEF InStep
  <2>4. ArtifactsReopen' BY <1>1, <1>2, <1>4, <2>1, <2>2, ReopenHandles DEF InStep
  <2>5. ShownInOrder' BY <2>2, ShownRests DEF InStep
  <2> QED BY <1>3, <2>3, <2>4, <2>5 DEF InStep
<1>8. CASE Persisted(m)
  <2>1. ~Marks(h) /\ ~IsRow(h) /\ ~IsView(h) BY <1>8 DEF Persisted, IsRow, Marks, IsView
  <2>2. UNCHANGED <<status, tables, shown>> BY <1>8 DEF Persisted
  <2>3. RowsInOrder' /\ ViewsInOrder' BY <1>1, <1>2, <2>1, <2>2, RowsRest DEF InStep
  <2>4. ArtifactsReopen' BY <1>1, <1>2, <1>4, <2>1, <2>2, ReopenHandles DEF InStep
  <2>5. ShownInOrder' BY <2>2, ShownRests DEF InStep
  <2> QED BY <1>3, <2>3, <2>4, <2>5 DEF InStep
<1>9. CASE TaskCompleted(m) \/ (m.type = "completed" /\ HalfActs(m))
  <2>1. IsView(h) /\ Plain(h) /\ ~IsRow(h) BY <1>9 DEF TaskCompleted, IsRow, Plain, IsView
  <2>2. tables' = tables /\ shown' = h.body.view BY <1>9 DEF TaskCompleted, HalfActs
  <2>3. RowsInOrder' /\ ViewsInOrder' BY <1>1, <1>2, <2>1, <2>2, RowsRest DEF InStep
  <2>4. ArtifactsReopen' BY <1>1, <1>2, <1>4, <2>1, ReopenHandles DEF InStep
  <2>5. ShownInOrder' BY <1>2, <1>4, <2>1, <2>2, DeliveryHandled DEF InStep
  <2> QED BY <1>3, <2>3, <2>4, <2>5 DEF InStep
<1>10. CASE m.type = "completed" /\ UNCHANGED <<server, shown>>
  <2>1. IsView(h) /\ ~IsRow(h) BY <1>10 DEF IsRow, IsView
  <2>2. UNCHANGED <<status, tables, shown>> BY <1>10 DEF server
  <2>3. RowsInOrder' /\ ViewsInOrder' BY <1>1, <1>2, <2>1, <2>2, RowsRest DEF InStep
  <2>4. ArtifactsReopen' BY <1>1, <1>2, <1>4, <2>1, ReopenHandles DEF InStep
  <2>5. ShownInOrder' BY <2>2, ShownRests DEF InStep
  <2> QED BY <1>3, <2>3, <2>4, <2>5 DEF InStep
<1> QED BY <1>5, <1>6, <1>7, <1>8, <1>9, <1>10 DEF ActsUpon

\* The server handles the report at the head of the wire.
LEMMA HandleStep ==
    ASSUME TypeOK, OutboxOK, InStep, Handle
    PROVE  InStep'
<1>1. /\ wire # <<>> /\ wire' = Tail(wire) /\ Handled /\ UNCHANGED <<socket, link>>
      /\ UNCHANGED <<pc, made>> /\ ActsUpon(Head(wire).body)
    BY DEF Handle, outside
<1>2. WireInOrder' BY <1>1, HandleKeepsWire DEF InStep
<1> QED BY <1>1, <1>2, ActStep

\* The connection ends while it does so.
LEMMA CutStep ==
    ASSUME TypeOK, OutboxOK, InStep, HandleCut, ~disturbed'
    PROVE  InStep'
<1> DEFINE m == Head(wire).body
<1>1. wire # <<>> /\ Handled /\ UNCHANGED <<pc, made>> BY DEF HandleCut
<1>2. WireInOrder' BY DEF HandleCut, WireInOrder
<1>3. \/ ActsUpon(m)
      \/ m.type = "completed" /\ (HalfActs(m) \/ UNCHANGED <<server, shown>>)
    BY DEF HandleCut
<1> QED BY <1>1, <1>2, <1>3, ActStep

\* A report is made that is no row; a run goes to work only under a mark.
LEMMA SendStep ==
    ASSUME TypeOK, OutboxOK, InStep, NEW m \in Bodies, Send(m),
           UNCHANGED <<link, tables, made>>,
           (status' = status /\ shown' = shown) \/ status' # "waiting_approval",
           link = "opening" /\ wire # pending => m.type = "persisted",
           m.type # "row",
           m.type = "completed" => m = [type |-> "completed", view |-> made],
           pc' \in Working => \/ m.type \in {"accepted", "running", "failed"}
                              \/ pc \in Working /\ m.type # "completed"
    PROVE  InStep'
<1>1. WireInOrder' BY SendKeepsWire DEF InStep
<1>2. PICK e \in Reports :
          e.body = m /\ (\A f \in Outbox : f.no < e.no) /\ Outbox' = Outbox \cup {e}
    BY SendFacts
<1>3. e.no \in Nat BY DEF Reports
<1>4. ~IsRow(e) /\ (IsView(e) <=> m.type = "completed")
      /\ (Marks(e) <=> m.type \in {"accepted", "running", "failed"})
    BY <1>2 DEF IsRow, IsView, Marks
<1>5. RowsInOrder' /\ ViewsInOrder'
  <2>1. CASE IsView(e) BY <1>2, <1>4, <2>1, ViewSent DEF InStep
  <2>2. CASE ~IsView(e) BY <1>2, <1>4, <2>2, RowsRest DEF InStep
  <2> QED BY <2>1, <2>2
<1>6. ArtifactsReopen' BY <1>2, <1>3, <1>4, ReopenSends DEF InStep
<1>7. ShownInOrder' BY ShownRests DEF InStep
<1> QED BY <1>1, <1>5, <1>6, <1>7 DEF InStep

\* add_artifact and add_event by a report
LEMMA ReportStep ==
    ASSUME TypeOK, OutboxOK, InStep, NEW kind \in Kinds, NEW next,
           Report(NewRow(kind), next), ~disturbed', UNCHANGED <<link, status, shown>>,
           kind # "log" => pc \in Working,
           next \in Working => pc \in Working
    PROVE  InStep'
<1> DEFINE m == [type |-> "row", row |-> NewRow(kind)]
<1>1. m \in Bodies /\ NewRow(kind).kind = kind BY BodyTypes
<1>2. /\ Send(m) /\ ~(link = "opening" /\ wire # pending)
      /\ made' = Added(made, NewRow(kind)) /\ pc' = next /\ tables' = tables
    BY DEF Report, Emit
<1>3. m.type = "row" /\ m.row = NewRow(kind) OBVIOUS
<1> HIDE DEF m
<1>4. WireInOrder' BY <1>1, <1>2, SendKeepsWire DEF InStep
<1>5. PICK e \in Reports :
          e.body = m /\ (\A f \in Outbox : f.no < e.no) /\ Outbox' = Outbox \cup {e}
    BY <1>1, <1>2, SendFacts
<1>6. e.no \in Nat BY DEF Reports
<1>7. ~IsView(e) /\ RowTable(e) = TableOf(kind) BY <1>1, <1>3, <1>5 DEF IsView, RowTable
<1>8. RowsInOrder' /\ ViewsInOrder' BY <1>2, <1>5, <1>6, RowSent DEF InStep, m
<1>9. RowTable(e) = "artifacts" => pc \in Working BY <1>7 DEF TableOf
<1>10. ArtifactsReopen' BY <1>2, <1>5, <1>6, <1>7, <1>9, ReopenSends DEF InStep
<1>11. ShownInOrder' BY <1>2, ShownRests DEF InStep
<1> QED BY <1>4, <1>8, <1>10, <1>11 DEF InStep

\* add_artifact and add_event by HTTP: an upload passes nothing that matters.
LEMMA UploadStep ==
    ASSUME TypeOK, OutboxOK, InStep, NEW kind \in Kinds, NEW next, NEW onError,
           Upload(NewRow(kind), next, onError), ~disturbed', UNCHANGED <<link, status, shown>>,
           kind # "log" => pc \in Working,
           kind = "log" => ~socket,
           next \in Working => pc \in Working,
           onError \in Working => pc \in Working
    PROVE  InStep'
<1> DEFINE row == NewRow(kind)
<1>1. PICK o \in Outcomes :
          /\ tables' = IF Acts(o) THEN Added(tables, row) ELSE tables
          /\ made' = IF Acts(o) THEN Added(made, row) ELSE made
          /\ Goes(o, next, onError)
          /\ IF socket /\ o = "answered" THEN Send([type |-> "persisted"])
             ELSE UNCHANGED <<pending, wire>>
          /\ disturbed' = (disturbed \/ (socket /\ Acts(o) /\ OthersWait))
    BY DEF Upload
<1>2. row \in Rows /\ row.kind = kind /\ [type |-> "persisted"] \in Bodies BY BodyTypes
<1> HIDE DEF row
<1>3. pc' \in Working => pc \in Working BY <1>1 DEF Goes
<1>4. CASE ~Acts(o)
  <2>1. UNCHANGED <<pending, wire, tables, made>> BY <1>1, <1>4 DEF Acts
  <2> QED BY <1>3, <2>1, QuietStep
<1>5. CASE Acts(o)
  <2>1. tables' = Added(tables, row) /\ made' = Added(made, row) BY <1>1, <1>5
  <2>2. ASSUME NEW e \in Outbox
        PROVE  ~Marks(e) /\ ~IsView(e) /\ (IsRow(e) => RowTable(e) # TableOf(kind))
    <3>1. socket
      <4>1. ~socket => Outbox = {} BY DEF OutboxOK, Outbox, ToSet
      <4> QED BY <4>1
    <3>2. ~OthersWait BY <1>1, <1>5, <3>1
    <3>3. e.body.type \in {"row", "persisted"} /\ (IsRow(e) => e.body.row.kind = "log")
      BY <3>2 DEF OthersWait, Outbox, IsRow
    <3>4. kind # "log" BY <3>1
    <3> QED BY <3>3, <3>4 DEF Marks, IsView, IsRow, RowTable, TableOf
  <2>3. ASSUME kind # "log" PROVE status # "waiting_approval"
    <3>1. Reopened(status, Outbox) BY <2>3 DEF InStep, ArtifactsReopen
    <3> QED BY <2>2, <3>1, NotDelivered
  <2>4. TableOf(row.kind) = "artifacts" => status # "waiting_approval"
    BY <1>2, <2>3 DEF TableOf
  <2>5. ShownInOrder' BY <1>2, <2>1, <2>4, ShownGrows DEF InStep
  <2>6. CASE Send([type |-> "persisted"])
    <3> DEFINE m == [type |-> "persisted"]
    <3>1. m \in Bodies /\ m.type = "persisted" /\ Send(m) BY <1>2, <2>6
    <3> HIDE DEF m
    <3>2. WireInOrder' BY <3>1, SendKeepsWire DEF InStep
    <3>3. PICK e \in Reports :
              e.body = m /\ (\A f \in Outbox : f.no < e.no) /\ Outbox' = Outbox \cup {e}
      BY <3>1, SendFacts
    <3>4. e.no \in Nat /\ ~IsRow(e) /\ ~IsView(e) BY <3>1, <3>3 DEF Reports, IsRow, IsView
    <3>5. RowsInOrder' /\ ViewsInOrder'
      BY <1>2, <2>1, <2>2, <3>3, <3>4, RowUploaded DEF InStep
    <3>6. ArtifactsReopen' BY <1>3, <3>3, <3>4, ReopenSends DEF InStep
    <3> QED BY <2>5, <3>2, <3>5, <3>6 DEF InStep
  <2>7. CASE UNCHANGED <<pending, wire>>
    <3>1. Outbox' = Outbox BY <2>7 DEF Outbox
    <3>2. WireInOrder' BY <2>7, WireRests DEF InStep
    <3>3. RowsInOrder' /\ ViewsInOrder' BY <1>2, <2>1, <2>2, <3>1, RowUploaded DEF InStep
    <3>4. ArtifactsReopen' BY <1>3, <3>1, ReopenRests DEF InStep
    <3> QED BY <2>5, <3>2, <3>3, <3>4 DEF InStep
  <2> QED BY <1>1, <2>6, <2>7
<1> QED BY <1>4, <1>5

\* add_artifact and add_event
LEMMA AddRowStep ==
    ASSUME TypeOK, OutboxOK, InStep, NEW kind \in Kinds, NEW large, NEW next, NEW onError,
           AddRow(kind, large, next, onError), ~disturbed', UNCHANGED <<link, status, shown>>,
           kind # "log" => pc \in Working,
           kind = "log" => ~large,
           next \in Working => pc \in Working,
           onError \in Working => pc \in Working
    PROVE  InStep'
<1>1. CASE socket /\ ~large /\ Report(NewRow(kind), next) BY <1>1, ReportStep
<1>2. CASE (~socket \/ large) /\ Upload(NewRow(kind), next, onError) BY <1>2, UploadStep
<1> QED BY <1>1, <1>2 DEF AddRow

\* update_task by a report, or by HTTP; a run goes to work under another status.
LEMMA UpdateStep ==
    ASSUME TypeOK, OutboxOK, InStep, NEW new, NEW m \in Bodies, NEW next, NEW onError,
           UpdateTask(new, m, next, onError), ~disturbed', UNCHANGED <<link, tables, made>>,
           m.type # "row",
           m.type = "completed" => m = [type |-> "completed", view |-> made],
           next \in Working => /\ m.type \in {"accepted", "running", "failed"}
                               /\ new # "waiting_approval",
           onError \notin Working
    PROVE  InStep'
<1>1. CASE socket /\ Emit(m) /\ pc' = next /\ UNCHANGED <<status, shown, faults>>
  <2>1. Send(m) /\ ~(link = "opening" /\ wire # pending) BY <1>1 DEF Emit
  <2> QED BY <1>1, <2>1, SendStep
<1>2. CASE ~socket /\ Patch(new, next, onError)
  <2>1. PICK o \in Outcomes :
          /\ status' = IF Acts(o) THEN new ELSE status
          /\ shown' = IF Acts(o) /\ new = "waiting_approval" THEN made ELSE shown
          /\ Goes(o, next, onError)
    BY <1>2 DEF Patch
  <2>2. UNCHANGED <<pending, wire>> BY <1>2 DEF Patch, outbox
  <2>3. Outbox = {} /\ Outbox' = {} BY <1>2, <2>2 DEF OutboxOK, Outbox, ToSet
  <2>4. WireInOrder' BY <2>2, WireRests DEF InStep
  <2>5. RowsInOrder' /\ ViewsInOrder' BY <2>3, RowsRest DEF InStep
  <2>6. ASSUME pc' \in Working PROVE status' # "waiting_approval"
    <3>1. o = "answered" /\ next \in Working BY <2>1, <2>6 DEF Goes
    <3> QED BY <2>1, <3>1 DEF Acts
  <2>7. ArtifactsReopen' BY <2>3, <2>6 DEF ArtifactsReopen, Reopened
  <2>8. ShownInOrder'
    <3>1. CASE Acts(o) /\ new = "waiting_approval" BY <2>1, <2>3, <3>1, DeliveryPatched DEF InStep
    <3>2. CASE Acts(o) /\ new # "waiting_approval" BY <2>1, <3>2, ShownRests DEF InStep
    <3>3. CASE ~Acts(o) BY <2>1, <3>3, ShownRests DEF InStep
    <3> QED BY <3>1, <3>2, <3>3
  <2> QED BY <2>4, <2>5, <2>7, <2>8 DEF InStep
<1> QED BY <1>1, <1>2 DEF UpdateTask

\* Every step keeps the order of what was not disturbed.
LEMMA NextKeepsUntouched ==
    ASSUME TypeOK, OutboxOK, Untouched, Next
    PROVE  Untouched'
<1>0. disturbed => disturbed'
  <2>1. CASE Run
    BY <2>1 DEF Run, AnnounceLease, BeginRun, ListArtifacts, RecordBranch, RecordWorktree, Work,
        Deliver, Announce, Raise, ReportFailure, Explain, AddRow, UpdateTask, Report, Upload,
        Patch, Emit, outbox
  <2>2. CASE Handle \/ HandleCut BY <2>2 DEF Handle, HandleCut
  <2> QED BY <2>1, <2>2 DEF Next, Connect, FlushPending, Break, Dispatch, Register, Lease,
        ExpireLease, Start, IssueToken, Restart, Emit, outbox
<1>1. SUFFICES ASSUME InStep, ~disturbed, ~disturbed' PROVE InStep' BY <1>0 DEF Untouched
<1>2. CASE Connect
    BY <1>1, <1>2, QuietStep DEF Connect, server, outbox
<1>3. CASE FlushPending BY <1>1, <1>3, FlushStep
<1>4. CASE Break
    BY <1>1, <1>4, QuietStep DEF Break, server
<1>5. CASE Restart
  <2>1. pc' \notin Working BY <1>5 DEF Restart, Working
  <2> QED BY <1>1, <1>5, <2>1, QuietStep DEF Restart, server
<1>6. CASE Handle BY <1>1, <1>6, HandleStep
<1>13. CASE HandleCut BY <1>1, <1>13, CutStep
<1>7. CASE Dispatch
  <2>1. UNCHANGED <<link, tables, made, shown>> BY <1>7 DEF Dispatch
  <2>2. CASE /\ status' = "assigned" /\ Emit([type |-> "accepted"])
             /\ pc' = IF pc = "idle" THEN "begin" ELSE pc
    <3>1. [type |-> "accepted"] \in Bodies BY BodyTypes
    <3>2. Send([type |-> "accepted"]) /\ ~(link = "opening" /\ wire # pending)
      BY <1>1, <2>2 DEF Emit
    <3> QED BY <1>1, <2>1, <2>2, <3>1, <3>2, SendStep
  <2>3. CASE Expired /\ status' = RecoveredStatus /\ UNCHANGED <<pc, outbox>>
    <3>1. status' = "queued" BY <2>3 DEF RecoveredStatus
    <3> QED BY <1>1, <2>1, <2>3, <3>1, QuietStep DEF outbox
  <2> QED BY <1>7, <2>2, <2>3 DEF Dispatch
<1>8. CASE Register \/ ExpireLease \/ Start \/ IssueToken \/ Raise
  <2>1. /\ UNCHANGED <<pending, tables, made, shown, wire, link>>
        /\ status' = status \/ status' # "waiting_approval"
    BY <1>8 DEF Register, ExpireLease, Start, IssueToken, Raise, server, outbox
  <2>2. pc' \in Working => pc \in Working
    BY <1>8 DEF Register, ExpireLease, Start, IssueToken, Raise, Goes, Working
  <2> QED BY <1>1, <2>1, <2>2, QuietStep
<1>9. CASE Lease
  <2>1. PICK o \in Outcomes :
          /\ status' = IF ~Acts(o) THEN status
                       ELSE IF RecoveredJob.state = "pending" THEN "running"
                       ELSE RecoveredStatus
          /\ Goes(o, IF RecoveredJob.state = "pending" THEN "leased" ELSE "idle", "idle")
    BY <1>9 DEF Lease
  <2>2. UNCHANGED <<pending, tables, made, shown, wire, link>> BY <1>9 DEF Lease, outbox
  <2>3. status' = status \/ status' # "waiting_approval" BY <2>1 DEF RecoveredStatus
  <2>4. pc' \notin Working BY <2>1 DEF Goes, Working
  <2> QED BY <1>1, <2>2, <2>3, <2>4, QuietStep
<1>10. CASE ListArtifacts \/ RecordBranch
  <2>1. UNCHANGED <<pending, tables, made, shown, wire, link, status>>
    BY <1>10 DEF ListArtifacts, RecordBranch, server, outbox
  <2>2. pc \in Working BY <1>10 DEF ListArtifacts, RecordBranch, Working
  <2> QED BY <1>1, <2>1, <2>2, QuietStep
<1>11. CASE BeginRun \/ Deliver \/ ReportFailure
  <2>1. UNCHANGED <<link, tables, made>> BY <1>11 DEF BeginRun, Deliver, ReportFailure
  <2>2. CASE BeginRun
    <3>1. UpdateTask("running", [type |-> "running"], "list", "failing") BY <2>2 DEF BeginRun
    <3> QED BY <1>1, <2>1, <3>1, BodyTypes, UpdateStep DEF Working
  <2>3. CASE Deliver
    <3>1. UpdateTask("waiting_approval", [type |-> "completed", view |-> made], "announce", "failing")
      BY <2>3 DEF Deliver
    <3> QED BY <1>1, <2>1, <3>1, BodyTypes, UpdateStep DEF Working
  <2>4. CASE ReportFailure
    <3>1. UpdateTask("failed", [type |-> "failed"], "explain", "idle") BY <2>4 DEF ReportFailure
    <3> QED BY <1>1, <2>1, <3>1, BodyTypes, UpdateStep DEF Working
  <2> QED BY <1>11, <2>2, <2>3, <2>4
<1>12. CASE AnnounceLease \/ RecordWorktree \/ Work \/ Announce \/ Explain
  <2>1. UNCHANGED <<link, status, shown>>
    BY <1>12 DEF AnnounceLease, RecordWorktree, Work, Announce, Explain
  <2>2. \E kind \in Kinds : \E large, next, onError :
            /\ AddRow(kind, large, next, onError)
            /\ kind # "log" => pc \in Working
            /\ kind = "log" => ~large
            /\ next \in Working => pc \in Working
            /\ onError \in Working => pc \in Working
    <3>0. /\ "log" \in Kinds /\ ~("log" # "log") /\ ~FALSE
          /\ \A p \in {"begin", "idle", "failing"} : p \notin Working
      BY DEF Kinds, Working
    <3>1. CASE AnnounceLease
      <4>1. AddRow("log", FALSE, "begin", "idle") BY <3>1 DEF AnnounceLease
      <4> QED BY <3>0, <4>1, Zenon
    <3>2. CASE RecordWorktree BY <3>2, Zenon DEF RecordWorktree, Kinds, Working
    <3>3. CASE Work
      <4>1. PICK kind \in {"diff", "log"}, large \in BOOLEAN :
                (large => kind = "diff") /\ AddRow(kind, large, "work", "failing")
        BY <3>3 DEF Work
      <4>2. pc \in Working BY <3>3 DEF Work, Working
      <4>3. kind = "log" => ~large BY <4>1
      <4>4. kind \in Kinds BY DEF Kinds
      <4> QED BY <4>1, <4>2, <4>3, <4>4, Zenon
    <3>4. CASE Announce
      <4>1. AddRow("log", FALSE, "idle", "failing") BY <3>4 DEF Announce
      <4> QED BY <3>0, <4>1, Zenon
    <3>5. CASE Explain
      <4>1. AddRow("log", FALSE, "idle", "idle") BY <3>5 DEF Explain
      <4> QED BY <3>0, <4>1, Zenon
    <3> QED BY <1>12, <3>1, <3>2, <3>3, <3>4, <3>5
  <2> QED BY <1>1, <2>1, <2>2, AddRowStep
<1> QED BY <1>2, <1>3, <1>4, <1>5, <1>6, <1>7, <1>8, <1>9, <1>10, <1>11, <1>12, <1>13
    DEF Next, Run

-----------------------------------------------------------------------------
(* The theorems                                                            *)

\* It holds at the start, when there is no report and no row.
LEMMA InitRemote ==
    ASSUME Init
    PROVE  RemoteInv
<1>0. {MaxRows, MaxStarts, MaxFaults, MaxTokens} \subseteq Nat BY RemoteAssumption
<1>1. <<>> \in Seq(Rows) /\ <<>> \in Seq(Reports) /\ Len(<<>>) = 0 BY EmptySeq
<1>2. Empty \in Views /\ \A T \in Tables : Empty[T] = <<>>
  <2>1. Empty = [T \in {"artifacts", "events"} |-> <<>>] BY DEF Empty
  <2> QED BY <1>1, <2>1 DEF Views, Tables
<1>3. Outbox = {} BY DEF Init, Outbox, ToSet
<1>4. OutboxOK
  <2>1. pending = <<>> /\ wire = <<>> /\ link = "down" BY DEF Init
  <2> QED BY <1>1, <2>1 DEF OutboxOK, InOrder
<1>5. TypeOK
  <2>1. ToSet(wire) \subseteq ToSet(pending) BY DEF Init
  <2>2. job \in Job BY DEF Init, Job
  <2>3. cache \in Seq(Rows) /\ made \in Views /\ tables \in Views /\ shown \in Views
    BY <1>1, <1>2 DEF Init
  <2>4. {socket, known, directory, disturbed, torn} \subseteq BOOLEAN
    BY Zenon DEF Init
  <2>5. /\ issued \in 0..MaxTokens /\ held \in 0..issued
        /\ starts \in 0..MaxStarts /\ faults \in 0..MaxFaults
    BY <1>0 DEF Init
  <2>6. /\ status \in ActiveStatus \cup {"draft", "queued", "waiting_approval", "failed"}
        /\ pc \in {"register", "idle", "leased", "begin", "list", "branch", "worktree",
                   "work", "announce", "failing", "explain"}
        /\ link \in {"down", "opening", "up"}
    BY DEF Init
  <2> QED BY <2>1, <2>2, <2>3, <2>4, <2>5, <2>6 DEF TypeOK, Views, Tables
<1>6. InStep
  <2>1. tables = Empty /\ made = Empty /\ wire = <<>> /\ link = "down" /\ status = "draft"
    BY DEF Init
  <2>2. WireInOrder BY <1>1, <2>1 DEF WireInOrder
  <2>3. \A T \in Tables : Len(tables[T]) = 0 /\ Len(made[T]) = 0 BY <1>1, <1>2, <2>1
  <2>4. RowsInOrder
    <3>1. \A T \in Tables : Heads(tables[T], made[T]) BY <2>3 DEF Heads
    <3>2. \A T \in Tables : Len(tables[T]) + 1 .. Len(made[T]) = {} BY <2>3
    <3> QED BY <1>3, <3>1, <3>2 DEF RowsInOrder
  <2>5. ViewsInOrder BY <1>3 DEF ViewsInOrder
  <2>6. ArtifactsReopen BY <1>3, <2>1 DEF ArtifactsReopen, Reopened
  <2>7. ShownInOrder BY <2>1 DEF ShownInOrder
  <2> QED BY <2>2, <2>4, <2>5, <2>6, <2>7 DEF InStep
<1>7. WorktreeKnown BY DEF Init, WorktreeKnown
<1> QED BY <1>4, <1>5, <1>6, <1>7 DEF RemoteInv, Untouched

\* Every step keeps it.
LEMMA NextRemote ==
    ASSUME RemoteInv, [Next]_vars
    PROVE  RemoteInv'
<1>1. CASE Next
    BY <1>1, NextKeepsTypes, NextKeepsOutbox, NextKeepsUntouched, NextKeepsWorktree DEF RemoteInv
<1>2. CASE UNCHANGED vars
  <2>1. UNCHANGED <<socket, starts, known, issued, held, status, job, tables, pc, cache,
                    directory, pending, wire, disturbed, link, made, shown, torn, faults>>
    BY <1>2 DEF vars, outside, access, server, outbox
  <2>2. OutboxOK' BY <2>1, OutboxRests DEF RemoteInv
  <2>3. TypeOK' BY <2>1, <2>2, TypesApart, TypesTogether DEF RemoteInv
  <2>4. Untouched' BY <2>1, QuietStep DEF RemoteInv, Untouched
  <2>5. WorktreeKnown'
    BY <2>1 DEF RemoteInv, WorktreeKnown, KnowsWorktree, Listed, StoredArtifacts
  <2> QED BY <2>2, <2>3, <2>4, <2>5 DEF RemoteInv
<1> QED BY <1>1, <1>2

\* The inductive invariant of a run on a Local Runner: what is in the outbox is
\* the rest of what the tables hold, in the order in which the engine wrote it,
\* until a report or an upload passes another, or one is recorded and not acted upon.
THEOREM RemoteInvariant == Spec => []RemoteInv
<1>1. Init => RemoteInv BY InitRemote
<1>2. RemoteInv /\ [Next]_vars => RemoteInv' BY NextRemote
<1> QED BY <1>1, <1>2, PTL DEF Spec

\* RemoteStorage, the gateway and the tables keep their types.
THEOREM RemoteTypes == Spec => []TypeOK
<1>1. RemoteInv => TypeOK BY DEF RemoteInv
<1> QED BY <1>1, RemoteInvariant, PTL

\* A retry goes on in the worktree of the run before: when the run lists the
\* artifacts and the directory exists, the list has its record, unless a restart
\* or a failed request lost it.
THEOREM WorktreeIsFound == Spec => []RetryFindsWorktree
<1>1. RemoteInv => RetryFindsWorktree
    BY DEF RemoteInv, WorktreeKnown, RetryFindsWorktree
<1> QED BY <1>1, RemoteInvariant, PTL

\* Who is asked to approve sees the whole run: the tables hold every artifact and
\* event the runner added before it reported the delivery, in its order, whatever
\* connections, requests and restarts lay between, unless a report passed another
\* or was recorded and not acted upon.
THEOREM DeliveryIsShown == Spec => []DeliveredIsShown
<1>1. ASSUME RemoteInv PROVE DeliveredIsShown
  <2>1. SUFFICES ASSUME status = "waiting_approval", ~disturbed
                 PROVE  /\ tables.artifacts = shown.artifacts
                        /\ IsPrefix(shown.events, tables.events)
    BY DEF DeliveredIsShown
  <2>2. TypeOK /\ OutboxOK /\ ShownInOrder BY <1>1, <2>1 DEF RemoteInv, Untouched, InStep
  <2>3. \A T \in Tables : /\ Heads(shown[T], tables[T])
                          /\ shown[T] \in Seq(Rows) /\ tables[T] \in Seq(Rows)
    BY <2>1, <2>2, RowNumbers DEF ShownInOrder
  <2>4. "artifacts" \in Tables /\ "events" \in Tables BY DEF Tables
  <2>5. Len(shown["artifacts"]) = Len(tables["artifacts"]) BY <2>1, <2>2 DEF ShownInOrder
  <2>6. shown["artifacts"] = tables["artifacts"] BY <2>3, <2>4, <2>5, HeadsPrefix
  <2>7. IsPrefix(shown["events"], tables["events"]) BY <2>3, <2>4, HeadsPrefix
  <2> QED BY <2>6, <2>7
<1> QED BY <1>1, RemoteInvariant, PTL
=============================================================================
