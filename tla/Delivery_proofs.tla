--------------------------- MODULE Delivery_proofs ---------------------------
(***************************************************************************)
(* Proofs about Delivery, for any number of overlapping approvals and      *)
(* publications, any target branches and any retention periods.            *)
(***************************************************************************)
EXTENDS Delivery, TLAPS

-----------------------------------------------------------------------------
(* The inductive invariant                                                 *)

\* The states of a task that has no result yet.  A task never comes back to
\* them: only a failed task is started again.
Pending == task.status \in {"failed", "queued", "running"}

\* While there is no result nothing is changed or committed, and the handlers
\* have refused everybody.
NoResultYet ==
    Pending => /\ ~tree.dirty
               /\ commits = 0
               /\ \A a \in Approvers : app[a] = "idle"
               /\ \A p \in Publishers : pub[p].pc = "idle"

\* The result is in the worktree or on the branch, and never in both.
ResultIsSomewhere ==
    /\ tree.dirty => commits = 0
    /\ commits <= 1
    /\ ~Pending /\ tree.dir /\ ~tree.dirty => commits > 0

\* The artifact of the worktree is never younger than the verdict, so that
\* maintenance cannot delete the verdict and keep the worktree.
VerdictOutlivesWorktree ==
    /\ art["worktree"] <= now
    /\ ~Pending => art["worktree"] <= art["acceptance"]

\* What a handler has read still holds when it acts.
HandlersAreRight ==
    /\ \A a \in Approvers : app[a] = "commit" => accepted
    /\ \A p \in Publishers :
          /\ pub[p].pc # "idle" => accepted /\ pub[p].base \in Bases
          /\ pub[p].pc = "push" => commits > 0
          /\ pub[p].pc \in {"open", "record"} => remote > 0
          /\ pub[p].pc = "record" => pub[p].base \in opened

\* The cleaner lists no worktree of a running task, unless the run is the later.
CleanerIsRight == cleaner = "listed" /\ task.status = "running" => raced

DeliveryInv ==
    /\ TypeOK
    /\ NoResultYet
    /\ ResultIsSomewhere
    /\ VerdictOutlivesWorktree
    /\ HandlersAreRight
    /\ CleanerIsRight
    /\ CommittedOnce
    /\ OnlyAcceptedIsCommitted
    /\ MergeRequestShowsResult
    /\ RunKeepsItsWorktree

-----------------------------------------------------------------------------
(* One lemma per group of actions                                          *)

\* Before the first run nothing is there but perhaps a clean worktree.
LEMMA InitDeliveryInv == Init => DeliveryInv
<1> SUFFICES ASSUME Init PROVE DeliveryInv
    OBVIOUS
<1>1. TypeOK
  <2>1. /\ task \in [status : Terminal \cup {"queued", "running"}, updated : Nat]
        /\ tree \in [dir : BOOLEAN, registered : BOOLEAN, dirty : BOOLEAN]
    BY DEF Init, Terminal
  <2>2. art \in [Kinds -> Nat \cup {Absent}]
    BY DEF Init, Kinds, Absent
  <2>3. pub \in [Publishers -> [pc : {"idle", "status", "commit", "push", "open", "record"},
                               base : Bases \cup {NoBase}]]
    BY DEF Init, NotPublishing
  <2>4. {commits, remote} \subseteq Nat /\ remote <= commits /\ now \in Nat
    BY DEF Init
  <2>5. accepted \in BOOLEAN /\ raced \in BOOLEAN /\ opened \subseteq Bases
    BY DEF Init
  <2> QED BY <2>1, <2>2, <2>3, <2>4, <2>5 DEF Init, TypeOK
<1>2. NoResultYet /\ ResultIsSomewhere /\ CleanerIsRight
    BY DEF Init, Pending, NoResultYet, ResultIsSomewhere, CleanerIsRight, NotPublishing
<1>3. VerdictOutlivesWorktree /\ HandlersAreRight
    BY DEF Init, Pending, VerdictOutlivesWorktree, HandlersAreRight, NotPublishing,
           Kinds, Absent
<1>4. /\ CommittedOnce /\ OnlyAcceptedIsCommitted
      /\ MergeRequestShowsResult /\ RunKeepsItsWorktree
    BY DEF Init, CommittedOnce, OnlyAcceptedIsCommitted, MergeRequestShowsResult,
           RunKeepsItsWorktree, Has, Kinds, Absent
<1> QED BY <1>1, <1>2, <1>3, <1>4 DEF DeliveryInv

\* A run is the only way to a result, and the end of runs.
LEMMA RunKeepsInv ==
    ASSUME DeliveryInv, Start \/ BeginRun \/ EndRun \/ RequestCancel
    PROVE  DeliveryInv'
<1> USE DEF DeliveryInv, TypeOK, Pending
<1>1. TypeOK'
  <2>1. task' \in [status : Terminal \cup {"queued", "running"}, updated : Nat]
    BY DEF Start, BeginRun, EndRun, RequestCancel, SetStatus, Terminal
  <2>2. /\ tree' \in [dir : BOOLEAN, registered : BOOLEAN, dirty : BOOLEAN]
        /\ accepted' \in BOOLEAN
    <3>1. CASE BeginRun
      <4>1. \/ tree' = tree
            \/ tree' = [dir |-> TRUE, registered |-> TRUE, dirty |-> FALSE]
        BY <3>1 DEF BeginRun
      <4>2. accepted' = accepted
        BY <3>1 DEF BeginRun
      <4>3. [dir |-> TRUE, registered |-> TRUE, dirty |-> FALSE]
                \in [dir : BOOLEAN, registered : BOOLEAN, dirty : BOOLEAN]
        OBVIOUS
      <4> QED BY <4>1, <4>2, <4>3, Zenon
    <3>2. CASE EndRun
      BY <3>2 DEF EndRun
    <3> QED BY <3>1, <3>2 DEF Start, RequestCancel
  <2>3. art' \in [Kinds -> Nat \cup {Absent}]
    BY DEF Start, BeginRun, EndRun, RequestCancel, Store, Kinds
  <2>4. raced' \in BOOLEAN
    BY DEF Start, BeginRun, EndRun, RequestCancel
  <2> QED BY <2>1, <2>2, <2>3, <2>4 DEF Start, BeginRun, EndRun, RequestCancel
<1>2. NoResultYet' /\ ResultIsSomewhere' /\ CommittedOnce'
    BY DEF Start, BeginRun, EndRun, RequestCancel, SetStatus, NoResultYet,
           ResultIsSomewhere, CommittedOnce
<1>3. VerdictOutlivesWorktree'
    BY DEF Start, BeginRun, EndRun, RequestCancel, SetStatus, Store, Kinds, Absent,
           VerdictOutlivesWorktree
<1>4. HandlersAreRight' /\ OnlyAcceptedIsCommitted'
    BY DEF Start, BeginRun, EndRun, RequestCancel, SetStatus, NoResultYet,
           HandlersAreRight, OnlyAcceptedIsCommitted
<1>5. MergeRequestShowsResult'
    BY DEF Start, BeginRun, EndRun, RequestCancel, Store, Has, Kinds, MergeRequestShowsResult
<1>6. CleanerIsRight' /\ RunKeepsItsWorktree'
  <2>1. CASE BeginRun
    <3>1. \/ task'.status = "failed"
          \/ tree.dir /\ tree' = tree
          \/ tree' = [dir |-> TRUE, registered |-> TRUE, dirty |-> FALSE]
      BY <2>1 DEF BeginRun, SetStatus
    <3>2. (task'.status = "running" => tree'.dir)
      BY <3>1
    <3>3. cleaner' = cleaner /\ (cleaner = "listed" => raced')
      BY <2>1 DEF BeginRun
    <3> QED BY <3>2, <3>3 DEF CleanerIsRight, RunKeepsItsWorktree
  <2>2. CASE Start \/ EndRun \/ RequestCancel
    BY <2>2 DEF Start, EndRun, RequestCancel, SetStatus, CleanerIsRight,
                RunKeepsItsWorktree
  <2> QED BY <2>1, <2>2
<1> QED BY <1>1, <1>2, <1>3, <1>4, <1>5, <1>6

\* An approval commits what is dirty, once, and only what was accepted.
LEMMA ApproverKeepsInv ==
    ASSUME DeliveryInv, NEW a \in Approvers, ApproverStep(a)
    PROVE  DeliveryInv'
<1> USE DEF DeliveryInv, TypeOK, Pending
<1>1. ~Pending
    BY DEF ApproverStep, ApprovePlain, ApproveCommit, ApproverCommits, ApproverRecords,
           ApproverCompletes, NoResultYet
<1>2. CASE ApprovePlain(a) \/ ApproveCommit(a)
  <2>1. /\ app' \in [Approvers -> {"idle", "commit", "record", "complete"}]
        /\ \A b \in Approvers : app'[b] = "commit" => accepted
    BY <1>1, <1>2 DEF ApprovePlain, ApproveCommit, MayCommit, Has, HandlersAreRight,
                      VerdictOutlivesWorktree, Kinds, Absent
  <2> QED BY <1>1, <1>2, <2>1
          DEF ApprovePlain, ApproveCommit, NoResultYet, ResultIsSomewhere,
              VerdictOutlivesWorktree, HandlersAreRight, CleanerIsRight, CommittedOnce,
              OnlyAcceptedIsCommitted, MergeRequestShowsResult, RunKeepsItsWorktree, Has
<1>3. CASE ApproverCommits(a)
  <2>1. TypeOK'
    <3>1. {commits', remote'} \subseteq Nat /\ remote' <= commits'
      BY <1>3 DEF ApproverCommits, Commit
    <3>2. tree' \in [dir : BOOLEAN, registered : BOOLEAN, dirty : BOOLEAN]
      BY <1>3 DEF ApproverCommits, Commit
    <3> QED BY <1>3, <3>1, <3>2 DEF ApproverCommits
  <2>2. /\ ResultIsSomewhere' /\ HandlersAreRight'
        /\ OnlyAcceptedIsCommitted' /\ CommittedOnce'
    BY <1>1, <1>3 DEF ApproverCommits, Commit, CanCommit, ResultIsSomewhere,
                      HandlersAreRight, OnlyAcceptedIsCommitted, CommittedOnce
  <2> QED BY <1>1, <1>3, <2>1, <2>2
          DEF ApproverCommits, Commit, NoResultYet, VerdictOutlivesWorktree,
              CleanerIsRight, MergeRequestShowsResult, RunKeepsItsWorktree, Has
<1>4. CASE ApproverRecords(a)
    BY <1>1, <1>4
    DEF ApproverRecords, Store, NoResultYet, ResultIsSomewhere, VerdictOutlivesWorktree,
        HandlersAreRight, CleanerIsRight, CommittedOnce, OnlyAcceptedIsCommitted,
        MergeRequestShowsResult, RunKeepsItsWorktree, Has, Kinds
<1>5. CASE ApproverCompletes(a)
    BY <1>1, <1>5
    DEF ApproverCompletes, SetStatus, Terminal, NoResultYet, ResultIsSomewhere,
        VerdictOutlivesWorktree, HandlersAreRight, CleanerIsRight, CommittedOnce,
        OnlyAcceptedIsCommitted, MergeRequestShowsResult, RunKeepsItsWorktree, Has
<1> QED BY <1>2, <1>3, <1>4, <1>5 DEF ApproverStep

\* A publication commits what is dirty and pushes before it opens.
LEMMA PublisherKeepsInv ==
    ASSUME DeliveryInv, NEW p \in Publishers, PublisherStep(p)
    PROVE  DeliveryInv'
<1> USE DEF DeliveryInv, TypeOK, Pending
<1>1. ~Pending
    BY DEF PublisherStep, Publish, PublisherLooks, PublisherCommits, PublisherPushes,
           PublisherOpens, PublisherRecords, NoResultYet
<1>2. ASSUME NEW base \in Bases, Publish(p, base) PROVE DeliveryInv'
    BY <1>1, <1>2
    DEF Publish, NoResultYet, ResultIsSomewhere, VerdictOutlivesWorktree,
        HandlersAreRight, CleanerIsRight, CommittedOnce, OnlyAcceptedIsCommitted,
        MergeRequestShowsResult, RunKeepsItsWorktree, Has
<1>3. CASE PublisherLooks(p)
    BY <1>1, <1>3
    DEF PublisherLooks, Goto, Fails, NotPublishing, NoResultYet, ResultIsSomewhere,
        VerdictOutlivesWorktree, HandlersAreRight, CleanerIsRight, CommittedOnce,
        OnlyAcceptedIsCommitted, MergeRequestShowsResult, RunKeepsItsWorktree, Has
<1>4. CASE PublisherCommits(p)
  <2>1. TypeOK'
    <3>1. {commits', remote'} \subseteq Nat /\ remote' <= commits'
      BY <1>4 DEF PublisherCommits, Commit
    <3>2. tree' \in [dir : BOOLEAN, registered : BOOLEAN, dirty : BOOLEAN]
      BY <1>4 DEF PublisherCommits, Commit
    <3> QED BY <1>4, <3>1, <3>2 DEF PublisherCommits, Goto, Fails, NotPublishing
  <2>2. /\ ResultIsSomewhere' /\ HandlersAreRight'
        /\ OnlyAcceptedIsCommitted' /\ CommittedOnce'
    BY <1>1, <1>4 DEF PublisherCommits, Commit, CanCommit, Goto, Fails, NotPublishing,
                      ResultIsSomewhere, HandlersAreRight, OnlyAcceptedIsCommitted,
                      CommittedOnce
  <2> QED BY <1>1, <1>4, <2>1, <2>2
          DEF PublisherCommits, Commit, NoResultYet, VerdictOutlivesWorktree,
              CleanerIsRight, MergeRequestShowsResult, RunKeepsItsWorktree, Has
<1>5. CASE PublisherPushes(p)
    BY <1>1, <1>5
    DEF PublisherPushes, Goto, Fails, NotPublishing, NoResultYet, ResultIsSomewhere,
        VerdictOutlivesWorktree, HandlersAreRight, CleanerIsRight, CommittedOnce,
        OnlyAcceptedIsCommitted, MergeRequestShowsResult, RunKeepsItsWorktree, Has
<1>6. CASE PublisherOpens(p)
    BY <1>1, <1>6
    DEF PublisherOpens, Goto, Fails, NotPublishing, NoResultYet, ResultIsSomewhere,
        VerdictOutlivesWorktree, HandlersAreRight, CleanerIsRight, CommittedOnce,
        OnlyAcceptedIsCommitted, MergeRequestShowsResult, RunKeepsItsWorktree, Has
<1>7. CASE PublisherRecords(p)
    BY <1>1, <1>7
    DEF PublisherRecords, Store, Fails, NotPublishing, NoResultYet, ResultIsSomewhere,
        VerdictOutlivesWorktree, HandlersAreRight, CleanerIsRight, CommittedOnce,
        OnlyAcceptedIsCommitted, MergeRequestShowsResult, RunKeepsItsWorktree, Has, Kinds
<1> QED BY <1>2, <1>3, <1>4, <1>5, <1>6, <1>7 DEF PublisherStep

\* Maintenance takes the worktree of a task that rests, and with a verdict the
\* worktree it is about.
LEMMA CleanerKeepsInv ==
    ASSUME DeliveryInv, CleanerLists \/ CleanerRemoves \/ CleanerDeletes
    PROVE  DeliveryInv'
<1> USE DEF DeliveryInv, TypeOK, Pending
<1>1. CASE CleanerLists
    BY <1>1
    DEF CleanerLists, Stale, Terminal, NoResultYet, ResultIsSomewhere,
        VerdictOutlivesWorktree, HandlersAreRight, CleanerIsRight, CommittedOnce,
        OnlyAcceptedIsCommitted, MergeRequestShowsResult, RunKeepsItsWorktree, Has
<1>2. CASE CleanerRemoves
    BY <1>2, ZenonT(40)
    DEF CleanerRemoves, NoResultYet, ResultIsSomewhere, VerdictOutlivesWorktree,
        HandlersAreRight, CleanerIsRight, CommittedOnce, OnlyAcceptedIsCommitted,
        MergeRequestShowsResult, RunKeepsItsWorktree, Has
<1>3. CASE CleanerDeletes
  <2>1. TypeOK' /\ VerdictOutlivesWorktree'
    BY <1>3, DeliveryConstants
    DEF CleanerDeletes, Disposable, VerdictOutlivesWorktree, Kinds, Absent
  <2>2. MergeRequestShowsResult'
    BY <1>3 DEF CleanerDeletes, Disposable, MergeRequestShowsResult, Has, Kinds
  <2> QED BY <1>3, <2>1, <2>2
          DEF CleanerDeletes, NoResultYet, ResultIsSomewhere, HandlersAreRight,
              CleanerIsRight, CommittedOnce, OnlyAcceptedIsCommitted, RunKeepsItsWorktree
<1> QED BY <1>1, <1>2, <1>3

\* The server stops and time passes.
LEMMA OthersKeepInv ==
    ASSUME DeliveryInv, Crash \/ Tick \/ UNCHANGED vars
    PROVE  DeliveryInv'
<1> USE DEF DeliveryInv, TypeOK, Pending
<1>1. CASE Crash
    BY <1>1
    DEF Crash, NotPublishing, NoResultYet, ResultIsSomewhere, VerdictOutlivesWorktree,
        HandlersAreRight, CleanerIsRight, CommittedOnce, OnlyAcceptedIsCommitted,
        MergeRequestShowsResult, RunKeepsItsWorktree, Has
<1>2. CASE Tick
    BY <1>2
    DEF Tick, NoResultYet, ResultIsSomewhere, VerdictOutlivesWorktree, HandlersAreRight,
        CleanerIsRight, CommittedOnce, OnlyAcceptedIsCommitted, MergeRequestShowsResult,
        RunKeepsItsWorktree, Has, Kinds, Absent
<1>3. CASE UNCHANGED vars
    BY <1>3
    DEF vars, NoResultYet, ResultIsSomewhere, VerdictOutlivesWorktree, HandlersAreRight,
        CleanerIsRight, CommittedOnce, OnlyAcceptedIsCommitted, MergeRequestShowsResult,
        RunKeepsItsWorktree, Has
<1> QED BY <1>1, <1>2, <1>3

-----------------------------------------------------------------------------

\* Everything below follows from one induction.
LEMMA SpecDeliveryInv == Spec => []DeliveryInv
<1>1. DeliveryInv /\ [Next]_vars => DeliveryInv'
    BY RunKeepsInv, ApproverKeepsInv, PublisherKeepsInv, CleanerKeepsInv, OthersKeepInv
    DEF Next
<1> QED BY <1>1, InitDeliveryInv, PTL DEF Spec

\* The rows, the worktree and the handlers stay in their types, and the platform
\* never has more commits than the branch.
THEOREM DeliveryTypes == Spec => []TypeOK
BY SpecDeliveryInv, PTL DEF DeliveryInv

\* However many approvals and publications overlap, wherever the server stops and
\* whatever maintenance removes, approve and publish_task commit a result once.
THEOREM ResultIsCommittedOnce == Spec => []CommittedOnce
BY SpecDeliveryInv, PTL DEF DeliveryInv

\* approve("commit") and publish_task commit nothing that was not accepted, for
\* every pair of retention periods in which worktrees go first.
THEOREM CommitsAreAccepted == Spec => []OnlyAcceptedIsCommitted
BY SpecDeliveryInv, PTL DEF DeliveryInv

\* GitPublisher opens no merge request for a branch without the result, and the
\* merge request a task names is open.
THEOREM MergeRequestsShowResults == Spec => []MergeRequestShowsResult
BY SpecDeliveryInv, PTL DEF DeliveryInv

\* maintenance.cleanup takes the worktree of a running task only if the run began
\* after the worktree was listed.
THEOREM RunsKeepWorktrees == Spec => []RunKeepsItsWorktree
BY SpecDeliveryInv, PTL DEF DeliveryInv

=============================================================================
