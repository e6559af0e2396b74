------------------------------ MODULE Workflow ------------------------------
(***************************************************************************)
(* The run of one task: WorkflowEngine._run and approve of                 *)
(* app/workflow.py, with the git operations of app/repository.py that they *)
(* rest on.  A run may fail or be cut off at any point and is then started *)
(* again by the job queue; what the next run finds are the artifacts, the  *)
(* worktree and the user's repository as the last one left them.  One      *)
(* action is one durable effect: an artifact, a git command, a task row.   *)
(*                                                                         *)
(* Artifacts are reduced to what a later step reads of them.  What the     *)
(* agents answer, whether a command passes and whether a patch applies are *)
(* choices.                                                                *)
(***************************************************************************)
EXTENDS Integers

CONSTANTS
    Options,     \* the task options to consider, a set of Option
    MaxProduct,  \* AUTOFLOW_MAX_PRODUCT_ITERATIONS
    MaxAccept,   \* AUTOFLOW_MAX_ACCEPTANCE_ITERATIONS
    MaxFixes,    \* AUTOFLOW_MAX_FIX_ATTEMPTS
    MaxRuns,     \* bound: runs of the task, retries and restarts included
    MaxCrashes,  \* bound: runs and approvals that are cut off
    MaxHeads     \* bound: the commits the user's branch goes through

\* The commands of _run_validation_cycle, each of which a task may do without.
Commands == {"build", "test", "run"}

\* local: include_local_changes, and there are some.  sync: sync_to_source.
\* commit: auto_commit.  apply: auto_apply.  branch: the target branch exists
\* and has commits of its own.  cmds: the commands the task has.
Option == [local : BOOLEAN, sync : BOOLEAN, commit : BOOLEAN, apply : BOOLEAN,
           branch : BOOLEAN, cmds : SUBSET Commands]

ASSUME BoundsAssumption ==
    /\ Options \subseteq Option
    /\ MaxProduct \in Nat \ {0}
    /\ MaxAccept \in Nat
    /\ MaxFixes \in Nat
    /\ MaxRuns \in Nat
    /\ MaxCrashes \in Nat
    /\ MaxHeads \in Nat \ {0}

VARIABLES
    opts,       \* the options of the task
    status,     \* tasks.status
    cancelReq,  \* tasks.cancel_requested
    art,        \* the kinds of artifact that are stored
    headArt,    \* the content of the artifact source_head
    spec,       \* the last product_spec and requirement_assessment
    verdict,    \* the last review and acceptance, see Verdicts
    told,       \* the last delivery manifest: was it accepted, was it applied
    fresh,      \* the artifacts about, and the commands passed by, the code as it is
    tree,       \* the worktree
    source,     \* the user's repository; code: what it holds of the task, see Codes
    pc,         \* where the run is; "idle": there is none; "settle": over, its job
                \* not yet; "lost": cut off, its job still leased
    loc,        \* the locals of the run
    apc,        \* where approve("commit") is
    runs, crashes

durable == <<art, headArt, spec, verdict, told, fresh, tree, source>>
counts  == <<runs, crashes>>
vars    == <<opts, status, cancelReq, durable, pc, loc, apc, counts>>

-----------------------------------------------------------------------------

AgentKinds == {"plan", "reading", "design", "code_summary"}
Kinds == AgentKinds \cup
         {"worktree", "source_head", "base_branch", "local_snapshot",
          "product_spec", "requirement_assessment", "diff", "validation",
          "review", "acceptance", "source_sync", "delivery", "commit"}

\* What the gate of the acceptance loop makes of review and acceptance:
\* "pass": it is accepted; "soft": the agent accepts and the review has no
\* findings, but the score, the criteria, the hygiene check or the wording of
\* the review's conclusion fail; "no": rejected.
Verdicts == {"pass", "soft", "no"}

\* What the program put into the user's repository: nothing yet, the changes the
\* worktree holds as they are, or changes the worktree no longer holds like that.
Codes == {"none", "tree", "older"}

Elsewhere == 0          \* a commit that is not on the user's branch
Heads     == 1..MaxHeads

Locals == [snap : SUBSET Kinds, existing : BOOLEAN, head : {Elsewhere} \cup Heads,
           iter : Nat, fixes : Nat, accepted : BOOLEAN, applied : BOOLEAN]

NoLocals == [snap |-> {}, existing |-> FALSE, head |-> Elsewhere, iter |-> 0,
             fixes |-> 0, accepted |-> FALSE, applied |-> FALSE]

Init ==
    /\ opts \in Options
    /\ status = "queued"
    /\ cancelReq = FALSE
    /\ art = {}
    /\ headArt = Elsewhere
    /\ spec = [ready |-> FALSE, approved |-> FALSE, paired |-> FALSE]
    /\ verdict = "no"
    /\ told = [accepted |-> FALSE, applied |-> FALSE]
    /\ fresh = {}
    /\ tree = [dir |-> FALSE, base |-> Elsewhere, local |-> "none", dirty |-> FALSE]
    /\ source = [head |-> 1, code |-> "none"]
    /\ pc = "idle"
    /\ loc = NoLocals
    /\ apc = "idle"
    /\ runs = 0
    /\ crashes = 0

\* The run goes on at point p, having stored the artifacts in K.
Goes(p)   == pc' = p
Stores(K) == art' = art \cup K

\* What a step that touches no repository and no verdict leaves alone.
Keeps == UNCHANGED <<opts, cancelReq, apc, counts>>

\* _run_guarded is over and the task has status s.
Ends(s) == /\ status' = s
           /\ pc' = "settle"
           /\ loc' = NoLocals

Raises == Ends("failed") /\ UNCHANGED durable

\* _enter and _check_cancelled: past this point the cancel flag was down.
NotCancelled == ~cancelReq

-----------------------------------------------------------------------------
(* _run, part one: the worktree.                                           *)

\* The artifacts are read once; every later test is against this snapshot.
Begin ==
    /\ pc = "idle" /\ apc = "idle"
    /\ status = "queued"
    /\ runs < MaxRuns
    /\ runs' = runs + 1
    /\ status' = "running"
    /\ LET existing == "worktree" \in art
           resumes  == existing /\ tree.dir
       IN  /\ loc' = [NoLocals EXCEPT
                        !.snap = art, !.existing = existing,
                        !.head = IF resumes /\ "source_head" \in art
                                 THEN headArt ELSE source.head]
           /\ Goes(IF resumes THEN "check_head" ELSE "create")
    /\ UNCHANGED <<opts, cancelReq, durable, apc, crashes>>

CreateWorktree ==
    /\ pc = "create"
    /\ ~tree.dir
    /\ tree' = [dir |-> TRUE, local |-> "none", dirty |-> FALSE,
                base |-> IF opts.branch THEN Elsewhere ELSE source.head]
    /\ Goes("record_worktree")
    /\ UNCHANGED <<status, loc, art, headArt, spec, verdict, told, fresh, source>>
    /\ Keeps

\* "Worktree destination already exists"
CreateWorktreeFails ==
    /\ pc = "create"
    /\ tree.dir
    /\ Raises /\ Keeps

RecordWorktree ==
    /\ pc = "record_worktree"
    /\ Stores({"worktree"})
    /\ Goes("record_head")
    /\ UNCHANGED <<status, loc, headArt, spec, verdict, told, fresh, tree, source>>
    /\ Keeps

RecordHead ==
    /\ pc = "record_head"
    /\ Stores({"source_head", "base_branch"})
    /\ headArt' = loc.head
    /\ Goes("check_head")
    /\ UNCHANGED <<status, loc, spec, verdict, told, fresh, tree, source>>
    /\ Keeps

HeadMismatch == ~loc.existing /\ opts.sync /\ tree.base # loc.head

CopiesLocal == opts.local /\ ~loc.existing

CheckHead ==
    /\ pc = "check_head"
    /\ ~HeadMismatch
    /\ Goes(IF CopiesLocal THEN "copy" ELSE "product")
    /\ UNCHANGED <<status, loc, durable>>
    /\ Keeps

CheckHeadFails ==
    /\ pc = "check_head"
    /\ HeadMismatch
    /\ Raises /\ Keeps

\* copy_local_changes_to: files first, then the baseline commit.  It refuses a
\* worktree that does not start at the source's HEAD.
CopyLocal ==
    /\ pc = "copy"
    /\ tree.base = source.head
    /\ tree' = [tree EXCEPT !.local = "copied"]
    /\ Goes("baseline")
    /\ UNCHANGED <<status, loc, art, headArt, spec, verdict, told, fresh, source>>
    /\ Keeps

\* It also refuses links, protected paths and snapshots over the size limit.
CopyLocalFails ==
    /\ pc = "copy"
    /\ Raises /\ Keeps

CommitBaseline ==
    /\ pc = "baseline"
    /\ tree' = [tree EXCEPT !.local = "baseline"]
    /\ Goes("record_snapshot")
    /\ UNCHANGED <<status, loc, art, headArt, spec, verdict, told, fresh, source>>
    /\ Keeps

RecordSnapshot ==
    /\ pc = "record_snapshot"
    /\ Stores({"local_snapshot"})
    /\ Goes("product")
    /\ UNCHANGED <<status, loc, headArt, spec, verdict, told, fresh, tree, source>>
    /\ Keeps

-----------------------------------------------------------------------------
(* Part two: the requirement.  _align_product_requirement.                 *)

Aligned(s) == s.ready /\ s.approved

\* The stored spec and the stored assessment are taken if they look aligned.
ReuseSpec ==
    /\ pc = "product"
    /\ {"product_spec", "requirement_assessment"} \subseteq loc.snap
    /\ Aligned(spec)
    /\ Goes("plan")
    /\ UNCHANGED <<status, loc, durable>>
    /\ Keeps

AlignSpec ==
    /\ pc = "product"
    /\ ~( /\ {"product_spec", "requirement_assessment"} \subseteq loc.snap
          /\ Aligned(spec) )
    /\ loc' = [loc EXCEPT !.iter = 1]
    /\ Goes("write_spec")
    /\ UNCHANGED <<status, durable>>
    /\ Keeps

WriteSpec ==
    /\ pc = "write_spec"
    /\ NotCancelled
    /\ \E ready \in BOOLEAN :
           spec' = [spec EXCEPT !.ready = ready, !.paired = FALSE]
    /\ Stores({"product_spec"})
    /\ Goes("assess")
    /\ UNCHANGED <<status, loc, headArt, verdict, told, fresh, tree, source>>
    /\ Keeps

Assess ==
    /\ pc = "assess"
    /\ \E approved \in BOOLEAN :
           /\ spec' = [spec EXCEPT !.approved = approved, !.paired = TRUE]
           /\ Goes(IF Aligned(spec') THEN "plan" ELSE "misaligned")
    /\ Stores({"requirement_assessment"})
    /\ loc' = [loc EXCEPT !.iter = @ + 1]
    /\ UNCHANGED <<status, headArt, verdict, told, fresh, tree, source>>
    /\ Keeps

AlignAgain ==
    /\ pc = "misaligned"
    /\ NotCancelled
    /\ loc.iter <= MaxProduct
    /\ Goes("write_spec")
    /\ UNCHANGED <<status, loc, durable>>
    /\ Keeps

AlignFails ==
    /\ pc = "misaligned"
    /\ NotCancelled
    /\ loc.iter > MaxProduct
    /\ Raises /\ Keeps

-----------------------------------------------------------------------------
(* Part three: planner, reader, architecture and coder, each skipped when  *)
(* its artifact was there at the beginning.  A skipped design is the one   *)
(* step after which the cancel flag is not read.                           *)

NextPoint == [plan |-> "reading", reading |-> "design", design |-> "code_summary",
              code_summary |-> "build"]

SkipAgent ==
    /\ pc \in AgentKinds
    /\ pc \in loc.snap
    /\ pc # "design" => NotCancelled
    /\ Goes(NextPoint[pc])
    /\ loc' = [loc EXCEPT !.iter = 0, !.fixes = 0]
    /\ UNCHANGED <<status, durable>>
    /\ Keeps

RunAgent ==
    /\ pc \in AgentKinds \ {"code_summary"}
    /\ pc \notin loc.snap
    /\ NotCancelled
    /\ Stores({pc})
    /\ Goes(NextPoint[pc])
    /\ UNCHANGED <<status, loc, headArt, spec, verdict, told, fresh, tree, source>>
    /\ Keeps

\* _apply_code: the files change, and every description of them is out of date;
\* what an earlier run put into the user's repository is not this code.  Or
\* nothing changes: the task does not let them, or the answer has no changes.
WritesCode == \/ /\ opts.apply
                 /\ tree' = [tree EXCEPT !.dirty = TRUE]
                 /\ fresh' = {}
                 /\ source' = [source EXCEPT
                                  !.code = IF @ = "none" THEN @ ELSE "older"]
              \/ UNCHANGED <<tree, fresh, source>>

RunCoder ==
    /\ pc = "code_summary"
    /\ pc \notin loc.snap
    /\ NotCancelled
    /\ WritesCode
    /\ Goes("record_code")
    /\ loc' = [loc EXCEPT !.iter = 0, !.fixes = 0]
    /\ UNCHANGED <<status, art, headArt, spec, verdict, told>>
    /\ Keeps

RecordCode ==
    /\ pc = "record_code"
    /\ Stores({"code_summary"})
    /\ Goes("build")
    /\ UNCHANGED <<status, loc, headArt, spec, verdict, told, fresh, tree, source>>
    /\ Keeps

-----------------------------------------------------------------------------
(* Part four: _acceptance_loop, round by round.  _run_validation_cycle runs *)
(* the commands one after the other; _validate_with_fixes repeats the one   *)
(* that fails.                                                              *)

NextCommand == [build |-> "test", test |-> "run", run |-> "evidence"]

CommandSkipped ==
    /\ pc \in Commands \ opts.cmds
    /\ pc # "run" => NotCancelled
    /\ Goes(NextCommand[pc])
    /\ UNCHANGED <<status, loc, durable>>
    /\ Keeps

CommandPasses ==
    /\ pc \in opts.cmds
    /\ NotCancelled
    /\ fresh' = fresh \cup {pc}
    /\ loc' = [loc EXCEPT !.fixes = 0]
    /\ Goes(NextCommand[pc])
    /\ UNCHANGED <<status, art, headArt, spec, verdict, told, tree, source>>
    /\ Keeps

\* The command failed, the coder changes the code, the command is run again;
\* the ones before it are not.
CommandFix ==
    /\ pc \in opts.cmds
    /\ NotCancelled
    /\ loc.fixes < MaxFixes
    /\ WritesCode
    /\ loc' = [loc EXCEPT !.fixes = @ + 1]
    /\ UNCHANGED <<status, pc, art, headArt, spec, verdict, told>>
    /\ Keeps

CommandFails ==
    /\ pc \in opts.cmds
    /\ loc.fixes = MaxFixes
    /\ Raises /\ Keeps

RecordValidation ==
    /\ pc = "evidence"
    /\ Stores({"diff", "validation"})
    /\ fresh' = fresh \cup {"diff", "validation"}
    /\ Goes("review")
    /\ UNCHANGED <<status, loc, headArt, spec, verdict, told, tree, source>>
    /\ Keeps

Review ==
    /\ pc = "review"
    /\ NotCancelled
    /\ Stores({"review"})
    /\ fresh' = fresh \cup {"review"}
    /\ Goes("accept")
    /\ UNCHANGED <<status, loc, headArt, spec, verdict, told, tree, source>>
    /\ Keeps

AfterVerdict(v) == IF v = "pass" \/ loc.iter >= MaxAccept THEN "sync" ELSE "correct"

Accept ==
    /\ pc = "accept"
    /\ NotCancelled
    /\ \E v \in Verdicts :
           /\ verdict' = v
           /\ loc' = [loc EXCEPT !.accepted = (v = "pass")]
           /\ Goes(AfterVerdict(v))
    /\ Stores({"acceptance"})
    /\ fresh' = fresh \cup {"acceptance"}
    /\ UNCHANGED <<status, headArt, spec, told, tree, source>>
    /\ Keeps

Correct_SkipsRound ==
    /\ pc = "correct"
    /\ NotCancelled
    /\ WritesCode
    /\ loc' = [loc EXCEPT !.iter = @ + 1]
    /\ Goes("sync")
    /\ UNCHANGED <<status, art, headArt, spec, verdict, told>>
    /\ Keeps

Correct_NotCounted ==
    /\ pc = "correct"
    /\ NotCancelled
    /\ WritesCode
    /\ Goes("record_code")
    /\ UNCHANGED <<status, loc, art, headArt, spec, verdict, told>>
    /\ Keeps

Correct ==
    /\ pc = "correct"
    /\ NotCancelled
    /\ WritesCode
    /\ loc' = [loc EXCEPT !.iter = @ + 1]
    /\ Goes("record_code")
    /\ UNCHANGED <<status, art, headArt, spec, verdict, told>>
    /\ Keeps

-----------------------------------------------------------------------------
(* Part five: synchronisation and delivery.                                *)

\* Nothing is applied: not asked for, done by an earlier run (whatever this one
\* made of the code since), or not accepted.
SyncSkipped ==
    /\ pc = "sync"
    /\ ~opts.sync \/ "source_sync" \in loc.snap \/ ~loc.accepted
    /\ loc' = [loc EXCEPT !.applied = opts.sync /\ "source_sync" \in loc.snap]
    /\ Goes("deliver")
    /\ UNCHANGED <<status, durable>>
    /\ Keeps

MayApply_Unaccepted == opts.sync /\ "source_sync" \notin loc.snap

MayApply == opts.sync /\ "source_sync" \notin loc.snap /\ loc.accepted

SyncApplied_Unreported ==
    /\ pc = "sync"
    /\ MayApply
    /\ source.head = loc.head
    /\ tree.dirty => source.code # "tree"
    /\ source' = [source EXCEPT !.code = "tree"]
    /\ Goes("record_sync")
    /\ UNCHANGED <<status, loc, art, headArt, spec, verdict, told, fresh, tree>>
    /\ Keeps

\* apply_patch: an empty patch is done at once; git apply changes all files or
\* none, and refuses changes that are there, the user's own included.  Changes an
\* earlier run left there may be in its way or not.
SyncApplied ==
    /\ pc = "sync"
    /\ MayApply
    /\ source.head = loc.head
    /\ tree.dirty => source.code # "tree"
    /\ tree.local # "copied"
    /\ source' = [source EXCEPT !.code = "tree"]
    /\ loc' = [loc EXCEPT !.applied = TRUE]
    /\ Goes("record_sync")
    /\ UNCHANGED <<status, art, headArt, spec, verdict, told, fresh, tree>>
    /\ Keeps

\* HEAD moved, or a file the patch touches changed: reported, not raised.
SyncRefused ==
    /\ pc = "sync"
    /\ MayApply
    /\ Goes("deliver")
    /\ UNCHANGED <<status, loc, durable>>
    /\ Keeps

RecordSync ==
    /\ pc = "record_sync"
    /\ Stores({"source_sync"})
    /\ Goes("deliver")
    /\ UNCHANGED <<status, loc, headArt, spec, verdict, told, fresh, tree, source>>
    /\ Keeps

Deliver ==
    /\ pc = "deliver"
    /\ Stores({"delivery"})
    /\ told' = [accepted |-> loc.accepted, applied |-> loc.applied]
    /\ fresh' = fresh \cup {"delivery"}
    /\ Goes("enter_delivery")
    /\ UNCHANGED <<status, loc, headArt, spec, verdict, tree, source>>
    /\ Keeps

AutoCommits == opts.commit /\ loc.accepted /\ ~opts.sync

EnterDelivery ==
    /\ pc = "enter_delivery"
    /\ NotCancelled
    /\ Goes(IF AutoCommits THEN "commit" ELSE "finish")
    /\ UNCHANGED <<status, loc, durable>>
    /\ Keeps

\* git commit refuses when there is nothing to commit.
AutoCommit ==
    /\ pc = "commit"
    /\ tree.dirty
    /\ tree' = [tree EXCEPT !.dirty = FALSE]
    /\ Goes("record_commit")
    /\ UNCHANGED <<status, loc, art, headArt, spec, verdict, told, fresh, source>>
    /\ Keeps

AutoCommitFails ==
    /\ pc = "commit"
    /\ ~tree.dirty
    /\ Raises /\ Keeps

RecordCommit ==
    /\ pc = "record_commit"
    /\ Stores({"commit"})
    /\ Goes("finish")
    /\ UNCHANGED <<status, loc, headArt, spec, verdict, told, fresh, tree, source>>
    /\ Keeps

Finish ==
    /\ pc = "finish"
    /\ Ends("waiting_approval")
    /\ UNCHANGED durable
    /\ Keeps

-----------------------------------------------------------------------------
(* How a run ends early.                                                   *)

\* The points at which the run asks a model or runs git, which may raise (after
\* the cancel flag was read, so whatever it says now).
Fallible == AgentKinds \cup Commands \cup
            {"create", "check_head", "baseline", "product", "write_spec", "assess",
             "evidence", "review", "accept", "correct", "sync", "commit"}

RunFailed ==
    /\ pc \in Fallible
    /\ Raises /\ Keeps

\* write_changes refuses a protected path: what it wrote before remains.
WriteRefused ==
    /\ \/ pc = "code_summary" /\ pc \notin loc.snap
       \/ pc = "correct"
       \/ pc \in opts.cmds /\ loc.fixes < MaxFixes
    /\ opts.apply
    /\ WritesCode
    /\ Ends("failed")
    /\ UNCHANGED <<art, headArt, spec, verdict, told>>
    /\ Keeps

\* The points that begin with _enter or _check_cancelled.
Checked == AgentKinds \cup Commands \cup
           {"write_spec", "misaligned", "review", "accept", "correct",
            "enter_delivery"}

RunCancelled ==
    /\ pc \in Checked
    /\ ~(pc = "design" /\ pc \in loc.snap)
    /\ ~(pc = "run" /\ pc \notin opts.cmds)
    /\ cancelReq
    /\ Ends("cancelled")
    /\ UNCHANGED durable
    /\ Keeps

\* _execute_job finishes the job: one that failed is queued again or not.
Settle ==
    /\ pc = "settle"
    /\ Goes("idle")
    /\ status' \in IF status = "failed" THEN {"failed", "queued"} ELSE {status}
    /\ UNCHANGED <<loc, durable>>
    /\ Keeps

\* The process dies: the effects so far remain, and so does the lease.
Crash ==
    /\ pc \notin {"idle", "lost"} \/ apc # "idle"
    /\ crashes < MaxCrashes
    /\ crashes' = crashes + 1
    /\ pc' = IF pc = "idle" THEN "idle" ELSE "lost"
    /\ loc' = NoLocals
    /\ apc' = "idle"
    /\ UNCHANGED <<opts, status, cancelReq, durable, runs>>

Requeue_JobStatus ==
    /\ pc = "lost" /\ apc = "idle"
    /\ status' = "pending"
    /\ Goes("idle")
    /\ UNCHANGED <<loc, durable>>
    /\ Keeps

\* recover_expired_jobs, whatever the task row says by then.  An approval takes
\* less time than a lease.
Requeue ==
    /\ pc = "lost" /\ apc = "idle"
    /\ status' = "queued"
    /\ Goes("idle")
    /\ UNCHANGED <<loc, durable>>
    /\ Keeps

-----------------------------------------------------------------------------
(* WorkflowEngine.start, cancel and approve, and the user at his desk.     *)

Start ==
    /\ pc = "idle" /\ status = "failed"
    /\ status' = "queued"
    /\ cancelReq' = FALSE
    /\ UNCHANGED <<opts, durable, pc, loc, apc, counts>>

CancelQueued ==
    /\ status = "queued"
    /\ status' = "cancelled"
    /\ cancelReq' = TRUE
    /\ UNCHANGED <<opts, durable, pc, loc, apc, counts>>

Cancel ==
    /\ status \in {"running", "waiting_approval", "failed"}
    /\ cancelReq' = TRUE
    /\ UNCHANGED <<opts, status, durable, pc, loc, apc, counts>>

ApproveComplete ==
    /\ apc = "idle"
    /\ status = "waiting_approval"
    /\ status' = "completed"
    /\ UNCHANGED <<opts, cancelReq, durable, pc, loc, apc, counts>>

MayCommit_Rejected == ~opts.sync /\ "commit" \notin art

\* Server tasks only.  The gate reads the agent's own verdict, not the run's.
MayCommit == /\ ~opts.sync
             /\ verdict \in {"pass", "soft"}
             /\ "commit" \notin art

ApproveCommit ==
    /\ apc = "idle"
    /\ status = "waiting_approval"
    /\ MayCommit
    /\ tree.dirty
    /\ tree' = [tree EXCEPT !.dirty = FALSE]
    /\ apc' = "record_commit"
    /\ UNCHANGED <<opts, status, cancelReq, art, headArt, spec, verdict, told,
                   fresh, source, pc, loc, counts>>

ApproveRecord ==
    /\ apc = "record_commit"
    /\ Stores({"commit"})
    /\ apc' = "complete"
    /\ UNCHANGED <<opts, status, cancelReq, headArt, spec, verdict, told, fresh,
                   tree, source, pc, loc, counts>>

ApproveDone ==
    /\ apc = "complete"
    /\ status' = "completed"
    /\ apc' = "idle"
    /\ UNCHANGED <<opts, cancelReq, durable, pc, loc, counts>>

MoveHead ==
    /\ source.head < MaxHeads
    /\ source' = [source EXCEPT !.head = @ + 1]
    /\ UNCHANGED <<opts, status, cancelReq, art, headArt, spec, verdict, told,
                   fresh, tree, pc, loc, apc, counts>>

-----------------------------------------------------------------------------

PrepareStep == \/ CreateWorktree \/ CreateWorktreeFails
               \/ RecordWorktree \/ RecordHead
               \/ CheckHead \/ CheckHeadFails
               \/ CopyLocal \/ CopyLocalFails
               \/ CommitBaseline \/ RecordSnapshot

AgentStep == \/ ReuseSpec \/ AlignSpec \/ WriteSpec \/ Assess
             \/ AlignAgain \/ AlignFails
             \/ SkipAgent \/ RunAgent \/ RunCoder \/ RecordCode

AcceptStep == \/ CommandSkipped \/ CommandPasses \/ CommandFix \/ CommandFails
              \/ RecordValidation \/ Review \/ Accept \/ Correct

DeliverStep == \/ SyncSkipped \/ SyncApplied \/ SyncRefused \/ RecordSync
               \/ Deliver \/ EnterDelivery
               \/ AutoCommit \/ AutoCommitFails \/ RecordCommit \/ Finish

RunStep == PrepareStep \/ AgentStep \/ AcceptStep \/ DeliverStep
           \/ RunFailed \/ WriteRefused \/ RunCancelled \/ Settle

ApproveStep == ApproveRecord \/ ApproveDone

\* The task is over, or the bound on runs is reached: nothing more happens.
Rests == /\ pc = "idle" /\ apc = "idle"
         /\ UNCHANGED vars

Next == Begin \/ RunStep \/ ApproveComplete \/ ApproveCommit \/ ApproveStep
        \/ Start \/ CancelQueued \/ Cancel \/ MoveHead
        \/ Crash \/ Requeue \/ Rests

Spec == Init /\ [][Next]_vars

\* A run that began goes on, a lease that nobody renews expires; nobody has to
\* start, cancel or approve anything.
FairSpec == Spec /\ WF_vars(RunStep) /\ WF_vars(ApproveStep) /\ WF_vars(Requeue)

-----------------------------------------------------------------------------
(* Properties.                                                             *)

Points == Fallible \cup Checked \cup
          {"idle", "settle", "lost", "record_worktree", "record_head", "copy",
           "record_snapshot", "record_code", "record_sync", "deliver",
           "record_commit", "finish"}

Trees == [dir : BOOLEAN, base : {Elsewhere} \cup Heads,
          local : {"none", "copied", "baseline"}, dirty : BOOLEAN]

\* Every variable holds a value of its row, its repository or its local.
TypeOK ==
    /\ opts \in Option
    /\ status \in {"queued", "running", "waiting_approval", "completed",
                   "failed", "cancelled"}
    /\ cancelReq \in BOOLEAN
    /\ art \subseteq Kinds
    /\ headArt \in {Elsewhere} \cup Heads
    /\ spec \in [ready : BOOLEAN, approved : BOOLEAN, paired : BOOLEAN]
    /\ verdict \in Verdicts
    /\ told \in [accepted : BOOLEAN, applied : BOOLEAN]
    /\ fresh \subseteq Kinds \cup Commands
    /\ tree \in Trees
    /\ source \in [head : Heads, code : Codes]
    /\ pc \in Points
    /\ loc \in Locals
    /\ apc \in {"idle", "record_commit", "complete"}
    /\ runs \in 0..MaxRuns
    /\ crashes \in 0..MaxCrashes

Evidence == {"diff", "validation", "review", "acceptance", "delivery"}

\* The last command a task has.
LastCommand == {c \in opts.cmds : c = "build" => opts.cmds = {"build"}}
               \ (IF "run" \in opts.cmds THEN {"test"} ELSE {})

\* What is put before the human describes the code that is in the worktree:
\* diff, validation, review, acceptance and manifest were all made after the
\* last write, and the last command passed with it, however many runs, fixes
\* and corrections there were.
DeliveredIsJudged ==
    status = "waiting_approval" => Evidence \cup LastCommand \subseteq fresh

\* "Only AI patches that passed product acceptance are written back to the
\* original repository", and "synchronisation stops if the user switched HEAD":
\* the gate passed and judged the very code applied, and in the run that made
\* the worktree the patch lands on the commit it was made on (a retry does not
\* compare HEAD again).
OnlyAcceptedIsSynced ==
    [][source'.code = "tree" /\ source.code # "tree" =>
           /\ verdict = "pass" /\ {"diff", "acceptance"} \subseteq fresh
           /\ runs = 1 => tree.base = source.head]_vars

\* What the manifest says, over all retries and crashes.  It says accepted exactly
\* if the gate passed the code as it is.  It says applied only if the code in the
\* user's repository is the very code in the worktree - or was when that was
\* recorded, and a run that resumed behind the record rewrote it since.  It denies
\* nothing that was done, unless the process died between patch and record.
SyncReportIsTrue ==
    status = "waiting_approval" =>
        /\ told.accepted = (verdict = "pass")
        /\ told.applied => \/ source.code = "tree"
                           \/ source.code = "older" /\ "source_sync" \in art
        /\ source.code = "tree" => told.applied \/ "source_sync" \notin art

\* What is committed is what was shown to the human, over all runs of the task:
\* a run commits by itself only what its own gate passed, an approval nothing
\* the acceptance agent rejected.
CommittedIsJudged ==
    [][tree.dirty /\ ~tree'.dirty =>
           /\ Evidence \subseteq fresh
           /\ verdict # "no"
           /\ pc = "commit" => verdict = "pass"]_vars

\* Every run ends: the loops over specs, fixes and corrections are bounded.
RunEnds == pc # "idle" ~> pc = "idle"

=============================================================================
