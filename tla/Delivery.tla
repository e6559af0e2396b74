------------------------------ MODULE Delivery ------------------------------
(***************************************************************************)
(* What happens to the result of a task on the server: people approve it   *)
(* (WorkflowEngine.approve) and publish it (publish_task, GitPublisher),   *)
(* the task may be started again, and maintenance removes what is old      *)
(* (maintenance.cleanup).  All of them read the task and its artifacts     *)
(* first and act later, on a worktree and a Git platform that have no      *)
(* transactions.                                                           *)
(*                                                                         *)
(* The task has no runner, does not synchronise to the source and does not *)
(* commit by itself: for the first two kinds of task approve("commit") or  *)
(* publish refuse at once.  Module Workflow has the steps of a run; here   *)
(* it only uses its worktree.                                              *)
(***************************************************************************)
EXTENDS Integers, FiniteSets

CONSTANTS
    Approvers,      \* request threads of POST /tasks/{id}/approve
    Publishers,     \* request threads of POST /tasks/{id}/publish
    Bases,          \* target branches a publisher may ask for
    WorktreeKeep,   \* worktree_retention_days, in ticks
    ExecutionKeep,  \* execution_retention_days
    MaxNow          \* bound: the clock stops here

ASSUME DeliveryConstants ==
    /\ {WorktreeKeep, ExecutionKeep, MaxNow} \subseteq Nat
    /\ WorktreeKeep <= ExecutionKeep

VARIABLES
    now,
    task,       \* tasks: status and updated_at
    art,        \* artifacts: when the newest of a kind was stored; Absent if none
    accepted,   \* the verdict of the last acceptance artifact
    recorded,   \* the merge request the artifact names
    tree,       \* the worktree: its directory, git's record of it, its changes
    commits,    \* commits of the result on the task's branch
    remote,     \* the commits the platform's branch has
    opened,     \* open merge requests, by their target branch
    app,        \* approvals in progress
    pub,        \* publications in progress
    cleaner,    \* the maintenance process
    raced       \* history: a run began while the cleaner had its worktree listed

vars == <<now, task, art, accepted, recorded, tree, commits, remote, opened,
          app, pub, cleaner, raced>>

Absent == -1
Kinds == {"worktree", "acceptance", "commit", "merge_request"}
Terminal == {"failed", "waiting_approval", "completed"}
NoBase == "none"

Has(kind) == art[kind] # Absent
Store(kind) == art' = [art EXCEPT ![kind] = now]
SetStatus(s) == task' = [status |-> s, updated |-> now]

TypeOK ==
    /\ now \in Nat
    /\ task \in [status : Terminal \cup {"queued", "running"}, updated : Nat]
    /\ art \in [Kinds -> Nat \cup {Absent}]
    /\ accepted \in BOOLEAN
    /\ recorded \in Bases \cup {NoBase}
    /\ tree \in [dir : BOOLEAN, registered : BOOLEAN, dirty : BOOLEAN]
    /\ {commits, remote} \subseteq Nat
    /\ remote <= commits
    /\ opened \subseteq Bases
    /\ app \in [Approvers -> {"idle", "commit", "record", "complete"}]
    /\ pub \in [Publishers ->
                  [pc : {"idle", "status", "commit", "push", "open", "record"},
                   base : Bases \cup {NoBase}]]
    /\ cleaner \in {"idle", "listed", "none_listed", "rows"}
    /\ raced \in BOOLEAN

NotPublishing == [pc |-> "idle", base |-> NoBase]

\* A task that failed after it had made its worktree, or that was never run.
Init ==
    /\ now = 0
    /\ \E made \in BOOLEAN :
          /\ art = [k \in Kinds |-> IF made /\ k = "worktree" THEN 0 ELSE Absent]
          /\ tree = [dir |-> made, registered |-> made, dirty |-> FALSE]
          /\ task = [status |-> IF made THEN "failed" ELSE "queued", updated |-> 0]
    /\ accepted = FALSE
    /\ recorded = NoBase
    /\ commits = 0 /\ remote = 0 /\ opened = {}
    /\ app = [a \in Approvers |-> "idle"]
    /\ pub = [p \in Publishers |-> NotPublishing]
    /\ cleaner = "idle"
    /\ raced = FALSE

-----------------------------------------------------------------------------
(* Runs of the task                                                        *)

Start ==
    /\ task.status = "failed"
    /\ SetStatus("queued")
    /\ UNCHANGED <<now, art, accepted, recorded, tree, commits, remote, opened, app, pub,
                   cleaner, raced>>

\* _run takes up the stored worktree or makes one; git refuses to make one at a
\* path it still has registered.
BeginRun ==
    /\ task.status = "queued"
    /\ \/ /\ Has("worktree") /\ tree.dir
          /\ SetStatus("running")
          /\ UNCHANGED <<art, tree>>
       \/ /\ ~(Has("worktree") /\ tree.dir)
          /\ ~tree.dir /\ ~tree.registered
          /\ SetStatus("running")
          /\ tree' = [dir |-> TRUE, registered |-> TRUE, dirty |-> FALSE]
          /\ Store("worktree")
       \/ /\ ~(Has("worktree") /\ tree.dir)
          /\ tree.dir \/ tree.registered
          /\ SetStatus("failed")
          /\ UNCHANGED <<art, tree>>
    /\ raced' = (raced \/ cleaner = "listed")
    /\ UNCHANGED <<now, accepted, recorded, commits, remote, opened, app, pub, cleaner>>

\* The changes are in the worktree and judged, or the run fails.
EndRun ==
    /\ task.status = "running"
    /\ \/ /\ tree.dir
          /\ tree' = [tree EXCEPT !.dirty = TRUE]
          /\ Store("acceptance")
          /\ accepted' \in BOOLEAN
          /\ SetStatus("waiting_approval")
       \/ /\ SetStatus("failed")
          /\ UNCHANGED <<tree, art, accepted>>
    /\ UNCHANGED <<now, recorded, commits, remote, opened, app, pub, cleaner, raced>>

\* A mutant of RequestCancel: a task that does not run is cancelled at once.
RequestCancelEnds ==
    /\ task.status \in {"failed", "waiting_approval"}
    /\ SetStatus("cancelled")
    /\ UNCHANGED <<now, art, accepted, recorded, tree, commits, remote, opened, app, pub,
                   cleaner, raced>>

\* cancel, for a task in these states: the flag is set and updated_at moves.
RequestCancel ==
    /\ task.status \in {"failed", "waiting_approval"}
    /\ task.updated # now
    /\ SetStatus(task.status)
    /\ UNCHANGED <<now, art, accepted, recorded, tree, commits, remote, opened, app, pub,
                   cleaner, raced>>

-----------------------------------------------------------------------------
(* Repository.commit: git add and git commit; with nothing to commit or no *)
(* worktree it raises.                                                     *)

\* A mutant of CanCommit: git commit --allow-empty
CanCommitEmpty == tree.dir

CanCommit == tree.dir /\ tree.dirty

Commit ==
    /\ CanCommit
    /\ tree' = [tree EXCEPT !.dirty = FALSE]
    /\ commits' = commits + 1

-----------------------------------------------------------------------------
(* approve("commit"); approve without a commit is ApprovePlain             *)

\* The verdict counts only while its artifact is there.  Findings of the review
\* are one more reason to answer 409, which changes nothing.
MayCommit == Has("worktree") /\ (Has("acceptance") => accepted)

ApprovePlain(a) ==
    /\ app[a] = "idle"
    /\ task.status = "waiting_approval"
    /\ app' = [app EXCEPT ![a] = "complete"]
    /\ UNCHANGED <<now, task, art, accepted, recorded, tree, commits, remote, opened, pub,
                   cleaner, raced>>

ApproveCommit(a) ==
    /\ app[a] = "idle"
    /\ task.status = "waiting_approval"
    /\ MayCommit
    /\ app' = [app EXCEPT ![a] = IF Has("commit") THEN "complete" ELSE "commit"]
    /\ UNCHANGED <<now, task, art, accepted, recorded, tree, commits, remote, opened, pub,
                   cleaner, raced>>

\* A second approval that read the artifacts before the first stored its commit
\* finds nothing to commit and answers 409.
ApproverCommits(a) ==
    /\ app[a] = "commit"
    /\ \/ Commit /\ app' = [app EXCEPT ![a] = "record"]
       \/ ~CanCommit /\ app' = [app EXCEPT ![a] = "idle"] /\ UNCHANGED <<tree, commits>>
    /\ UNCHANGED <<now, task, art, accepted, recorded, remote, opened, pub, cleaner, raced>>

ApproverRecords(a) ==
    /\ app[a] = "record"
    /\ Store("commit")
    /\ app' = [app EXCEPT ![a] = "complete"]
    /\ UNCHANGED <<now, task, accepted, recorded, tree, commits, remote, opened, pub, cleaner,
                   raced>>

ApproverCompletes(a) ==
    /\ app[a] = "complete"
    /\ SetStatus("completed")
    /\ app' = [app EXCEPT ![a] = "idle"]
    /\ UNCHANGED <<now, art, accepted, recorded, tree, commits, remote, opened, pub, cleaner,
                   raced>>

-----------------------------------------------------------------------------
(* publish_task                                                            *)

Goto(p, pc) == pub' = [pub EXCEPT ![p].pc = pc]
Fails(p) == pub' = [pub EXCEPT ![p] = NotPublishing]

\* A recorded merge request is returned as it is; acceptance and worktree must
\* be there.
Publish(p, base) ==
    /\ pub[p].pc = "idle"
    /\ task.status \in {"waiting_approval", "completed"}
    /\ ~Has("merge_request")
    /\ Has("acceptance") /\ accepted /\ Has("worktree")
    /\ pub' = [pub EXCEPT ![p] = [pc |-> "status", base |-> base]]
    /\ UNCHANGED <<now, task, art, accepted, recorded, tree, commits, remote, opened, app,
                   cleaner, raced>>

\* A mutant of PublisherLooks: only a task that waits for approval has changes.
PublisherTrustsStatus(p) ==
    /\ pub[p].pc = "status"
    /\ IF tree.dir
       THEN Goto(p, IF task.status = "waiting_approval" /\ tree.dirty THEN "commit" ELSE "push")
       ELSE Fails(p)
    /\ UNCHANGED <<now, task, art, accepted, recorded, tree, commits, remote, opened, app,
                   cleaner, raced>>

PublisherLooks(p) ==
    /\ pub[p].pc = "status"
    /\ IF tree.dir THEN Goto(p, IF tree.dirty THEN "commit" ELSE "push") ELSE Fails(p)
    /\ UNCHANGED <<now, task, art, accepted, recorded, tree, commits, remote, opened, app,
                   cleaner, raced>>

\* The commit is not recorded as an artifact.
PublisherCommits(p) ==
    /\ pub[p].pc = "commit"
    /\ \/ Commit /\ Goto(p, "push")
       \/ ~CanCommit /\ Fails(p) /\ UNCHANGED <<tree, commits>>
    /\ UNCHANGED <<now, task, art, accepted, recorded, remote, opened, app, cleaner, raced>>

\* push_with_token pushes HEAD.
PublisherPushes(p) ==
    /\ pub[p].pc = "push"
    /\ \/ tree.dir /\ remote' = commits /\ Goto(p, "open")
       \/ Fails(p) /\ UNCHANGED remote
    /\ UNCHANGED <<now, task, art, accepted, recorded, tree, commits, opened, app, cleaner, raced>>

\* The platform has at most one open request per source and target: a second
\* POST is refused and the code looks the first one up.  The answer to a POST
\* that worked may be lost.
PublisherOpens(p) ==
    /\ pub[p].pc = "open"
    /\ \/ opened' = opened \cup {pub[p].base} /\ Goto(p, "record")
       \/ opened' = opened \cup {pub[p].base} /\ Fails(p)
       \/ UNCHANGED opened /\ Fails(p)
    /\ UNCHANGED <<now, task, art, accepted, recorded, tree, commits, remote, app, cleaner, raced>>

PublisherRecords(p) ==
    /\ pub[p].pc = "record"
    /\ Store("merge_request")
    /\ recorded' = pub[p].base
    /\ Fails(p)
    /\ UNCHANGED <<now, task, accepted, tree, commits, remote, opened, app, cleaner, raced>>

\* The server stops; its requests end where they are.
Crash ==
    /\ \/ \E a \in Approvers : app[a] # "idle"
       \/ \E p \in Publishers : pub[p].pc # "idle"
    /\ app' = [a \in Approvers |-> "idle"]
    /\ pub' = [p \in Publishers |-> NotPublishing]
    /\ UNCHANGED <<now, task, art, accepted, recorded, tree, commits, remote, opened, cleaner,
                   raced>>

-----------------------------------------------------------------------------
(* maintenance.cleanup: list, remove the directories, delete the rows      *)

\* A mutant of Stale: the status of the task is not asked.
StaleWhateverStatus == Has("worktree") /\ task.updated + WorktreeKeep < now

\* list_stale_worktrees
Stale ==
    /\ Has("worktree")
    /\ task.updated + WorktreeKeep < now
    /\ task.status \in Terminal

CleanerLists ==
    /\ cleaner = "idle"
    /\ cleaner' = IF Stale THEN "listed" ELSE "none_listed"
    /\ UNCHANGED <<now, task, art, accepted, recorded, tree, commits, remote, opened, app, pub,
                   raced>>

\* shutil.rmtree; git still has the worktree registered.
CleanerRemoves ==
    /\ cleaner \in {"listed", "none_listed"}
    /\ tree' = IF cleaner = "listed" THEN [tree EXCEPT !.dir = FALSE, !.dirty = FALSE] ELSE tree
    /\ cleaner' = "rows"
    /\ UNCHANGED <<now, task, art, accepted, recorded, commits, remote, opened, app, pub, raced>>

\* A mutant of Disposable: the path of the worktree is kept like the delivery.
DisposableButWorktree == {k \in Kinds \ {"commit", "worktree"} : art[k] + ExecutionKeep < now}

\* The artifacts cleanup_expired_data deletes of a task in a final state.
Disposable == {k \in Kinds \ {"commit"} : art[k] + ExecutionKeep < now}

CleanerDeletes ==
    /\ cleaner = "rows"
    /\ art' = [k \in Kinds |->
                 IF task.status \in Terminal /\ k \in Disposable THEN Absent ELSE art[k]]
    /\ recorded' = IF art'["merge_request"] = Absent THEN NoBase ELSE recorded
    /\ cleaner' = "idle"
    /\ UNCHANGED <<now, task, accepted, tree, commits, remote, opened, app, pub, raced>>

Tick ==
    /\ now < MaxNow
    /\ now' = now + 1
    /\ UNCHANGED <<task, art, accepted, recorded, tree, commits, remote, opened, app, pub, cleaner,
                   raced>>

ApproverStep(a) ==
    ApprovePlain(a) \/ ApproveCommit(a) \/ ApproverCommits(a) \/ ApproverRecords(a)
        \/ ApproverCompletes(a)

PublisherStep(p) ==
    \/ \E base \in Bases : Publish(p, base)
    \/ PublisherLooks(p) \/ PublisherCommits(p) \/ PublisherPushes(p) \/ PublisherOpens(p)
    \/ PublisherRecords(p)

Next ==
    \/ Start \/ BeginRun \/ EndRun \/ RequestCancel
    \/ \E a \in Approvers : ApproverStep(a)
    \/ \E p \in Publishers : PublisherStep(p)
    \/ CleanerLists \/ CleanerRemoves \/ CleanerDeletes
    \/ Crash \/ Tick

Spec == Init /\ [][Next]_vars

-----------------------------------------------------------------------------
(* Properties                                                              *)

\* However approvals, publications and their repetitions overlap, and wherever
\* the server stops, the result is committed at most once.
CommittedOnce == commits <= 1

\* Only an accepted result is committed, also after maintenance has deleted the
\* verdict: the worktree's artifact is older and goes with it.
OnlyAcceptedIsCommitted == commits > 0 => accepted

\* A merge request shows the committed result: nobody opens one for a branch
\* that was pushed without it, and the one a task names is open.
MergeRequestShowsResult ==
    /\ opened # {} => remote > 0
    /\ Has("merge_request") => recorded \in opened

\* A run has its worktree from the beginning to the end, unless it began between
\* the cleaner's list and its removals.
RunKeepsItsWorktree == task.status = "running" => tree.dir \/ raced

=============================================================================
