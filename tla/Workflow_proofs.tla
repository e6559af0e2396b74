--------------------------- MODULE Workflow_proofs ---------------------------
(***************************************************************************)
(* Proofs about Workflow: what is put before the human was judged as it    *)
(* is, only what the gate passed is applied to the user's repository, only *)
(* what was judged is committed, and the manifest tells the truth, over    *)
(* every number of runs, crashes, fixes, corrections and moves of HEAD.    *)
(***************************************************************************)
EXTENDS Workflow, TLAPS

\* A run is under way.
InRun == pc \notin {"idle", "settle", "lost"}

\* The manifest of this run is stored, and a human may be looking at it.
Delivering == {"enter_delivery", "commit", "record_commit", "finish"}
Shown      == status = "waiting_approval" \/ pc \in Delivering

\* The last round of the acceptance loop is over.
Judging == {"sync", "record_sync", "deliver"}
Judged  == pc \in Judging \/ Shown

\* The row follows the run, and an approval under way has found it waiting.
RowFollows ==
    /\ InRun => status = "running"
    /\ apc # "idle" => status = "waiting_approval"

\* Code is in a worktree, and only the first run has none to begin with.
TreeIsThere ==
    /\ tree.dirty => tree.dir
    /\ InRun /\ pc # "create" => tree.dir

FirstRun ==
    /\ runs = 0 => /\ pc = "idle" /\ apc = "idle" /\ "worktree" \notin art
                   /\ status \in {"queued", "cancelled"}
    /\ runs = 1 /\ InRun => ~loc.existing

\* The run that made the worktree has compared it with the user's HEAD.
BaseIsHead ==
    /\ InRun /\ pc \notin {"create", "record_worktree", "record_head", "check_head"}
    /\ ~loc.existing /\ opts.sync
    => tree.base = loc.head

\* How far the judgement of the code as it is has come at each point.
EvidenceGrows ==
    /\ pc = "test" /\ opts.cmds \cap {"test", "run"} = {} => LastCommand \subseteq fresh
    /\ pc = "run" /\ "run" \notin opts.cmds => LastCommand \subseteq fresh
    /\ pc \in {"evidence", "review", "accept"} \/ Judged => LastCommand \subseteq fresh
    /\ pc \in {"review", "accept"} \/ Judged => {"diff", "validation"} \subseteq fresh
    /\ pc = "accept" \/ Judged => "review" \in fresh
    /\ Judged => "acceptance" \in fresh
    /\ Shown => "delivery" \in fresh

\* The run remembers the gate's verdict, and the manifest repeats it.
VerdictIsKnown ==
    /\ pc \in Judging \cup Delivering => (loc.accepted <=> verdict = "pass")
    /\ pc = "commit" => loc.accepted /\ ~opts.sync
    /\ Shown => (told.accepted <=> verdict = "pass")

\* A run knows the artifacts of the runs before it, and stores source_sync last.
SnapshotHolds ==
    /\ InRun => loc.snap \subseteq art
    /\ InRun /\ pc \notin Delivering \cup {"deliver"} /\ "source_sync" \in art
       => "source_sync" \in loc.snap

\* A patch is claimed only if it was applied, and then it is on record, but for
\* the step from one to the other.
ClaimsAreTrue ==
    /\ "source_sync" \in art => source.code # "none" /\ opts.sync
    /\ pc = "record_sync" => source.code = "tree" /\ opts.sync /\ loc.applied
    /\ loc.applied => pc = "record_sync" \/ "source_sync" \in art
    /\ told.applied => "source_sync" \in art

\* A patch that is on record is reported.
PatchIsRecorded ==
    "source_sync" \in art => /\ pc = "deliver" => loc.applied
                             /\ Shown => told.applied

WorkflowInv ==
    /\ TypeOK /\ RowFollows /\ TreeIsThere /\ FirstRun /\ BaseIsHead
    /\ EvidenceGrows /\ VerdictIsKnown /\ SnapshotHolds
    /\ ClaimsAreTrue /\ PatchIsRecorded

-----------------------------------------------------------------------------
(* Types                                                                   *)

\* The locals of a run, one assignment at a time.
LEMMA LocalsTypes ==
    ASSUME NEW l \in Locals, NEW a \in BOOLEAN
    PROVE  /\ [l EXCEPT !.accepted = a] \in Locals
           /\ [l EXCEPT !.applied = a] \in Locals
           /\ l.accepted \in BOOLEAN
           /\ l.head \in {Elsewhere} \cup Heads
BY DEF Locals

\* A run that is over, or has just begun, has no locals.
LEMMA NoLocalsType == NoLocals \in Locals
BY DEF NoLocals, Locals

\* The worktree, one git command at a time.
LEMMA TreeTypes ==
    ASSUME NEW x \in Trees, NEW d \in BOOLEAN, NEW c \in {"none", "copied", "baseline"}
    PROVE  /\ [x EXCEPT !.local = c] \in Trees
           /\ [x EXCEPT !.dirty = d] \in Trees
           /\ x.dirty \in BOOLEAN
BY DEF Trees

\* A step that raises, or ends the run in another way, changes nothing durable.
LEMMA EndTypes ==
    ASSUME TypeOK, NEW s \in {"waiting_approval", "failed", "cancelled"}, Ends(s),
           UNCHANGED durable, Keeps
    PROVE  TypeOK'
BY NoLocalsType DEF TypeOK, Ends, durable, Keeps, counts, Points

\* Making the worktree.
LEMMA PrepareTypes ==
    ASSUME TypeOK, PrepareStep
    PROVE  TypeOK'
<1>1. CASE CreateWorktree
  <2>1. tree' \in Trees
    BY <1>1 DEF CreateWorktree, Trees, TypeOK
  <2> QED BY <1>1, <2>1 DEF CreateWorktree, Keeps, Goes, counts, TypeOK, Points
<1>2. CASE CopyLocal \/ CommitBaseline
    BY <1>2, TreeTypes DEF CopyLocal, CommitBaseline, Keeps, Goes, counts, TypeOK, Points, Fallible
<1>3. CASE RecordWorktree \/ RecordHead \/ RecordSnapshot \/ CheckHead
  <2>1. CASE RecordWorktree
    BY <2>1, LocalsTypes
    DEF RecordWorktree, durable, Keeps, Goes, Stores, counts, TypeOK, Points, Kinds, Fallible
  <2>2. CASE RecordHead
    <3>1. headArt' \in {Elsewhere} \cup Heads
      BY <2>2, LocalsTypes DEF RecordHead, TypeOK
    <3>2. art' \subseteq Kinds /\ pc' \in Points
      BY <2>2 DEF RecordHead, Stores, Goes, TypeOK, Kinds, Points, Fallible
    <3>3. UNCHANGED <<opts, status, cancelReq, spec, verdict, told, fresh, tree, source,
                      loc, apc, runs, crashes>>
      BY <2>2 DEF RecordHead, Keeps, counts
    <3> QED BY <3>1, <3>2, <3>3 DEF TypeOK
  <2>3. CASE RecordSnapshot
    BY <2>3, LocalsTypes
    DEF RecordSnapshot, durable, Keeps, Goes, Stores, counts, TypeOK, Points, Kinds, Fallible
  <2>4. CASE CheckHead
    BY <2>4, LocalsTypes
    DEF CheckHead, durable, Keeps, Goes, Stores, counts, TypeOK, Points, Kinds, Fallible
  <2> QED BY <1>3, <2>1, <2>2, <2>3, <2>4
<1>4. CASE CreateWorktreeFails \/ CheckHeadFails \/ CopyLocalFails
    BY <1>4, EndTypes DEF CreateWorktreeFails, CheckHeadFails, CopyLocalFails, Raises
<1> QED BY <1>1, <1>2, <1>3, <1>4 DEF PrepareStep

\* The requirement and the code.
LEMMA AgentTypes ==
    ASSUME TypeOK, AgentStep
    PROVE  TypeOK'
<1>1. CASE ReuseSpec \/ AlignSpec \/ AlignAgain
  <2>1. loc' \in Locals
    BY <1>1 DEF ReuseSpec, AlignSpec, AlignAgain, TypeOK, Locals
  <2> QED BY <1>1, <2>1
          DEF ReuseSpec, AlignSpec, AlignAgain, durable, Keeps, Goes, counts, TypeOK, Points,
              Fallible, AgentKinds
<1>2. CASE WriteSpec \/ Assess
  <2>1. spec' \in [ready : BOOLEAN, approved : BOOLEAN, paired : BOOLEAN]
    BY <1>2 DEF WriteSpec, Assess, TypeOK
  <2>2. loc' \in Locals
    <3>1. CASE WriteSpec
      BY <3>1 DEF WriteSpec, TypeOK
    <3>2. CASE Assess
      BY <3>2 DEF Assess, TypeOK, Locals
    <3> QED BY <1>2, <3>1, <3>2
  <2>3. pc' \in Points
    BY <1>2 DEF WriteSpec, Assess, Goes, Points, Fallible, Checked, AgentKinds
  <2> QED BY <1>2, <2>1, <2>2, <2>3
          DEF WriteSpec, Assess, Stores, Keeps, counts, TypeOK, Kinds
<1>3. CASE SkipAgent
  <2>1. pc' \in Points
    BY <1>3 DEF SkipAgent, Goes, NextPoint, AgentKinds, Points, Fallible, Commands
  <2>2. loc' \in Locals
    BY <1>3 DEF SkipAgent, TypeOK, Locals
  <2> QED BY <1>3, <2>1, <2>2 DEF SkipAgent, durable, Keeps, counts, TypeOK
<1>4. CASE RunAgent
  <2>1. pc' \in Points
    BY <1>4 DEF RunAgent, Goes, NextPoint, AgentKinds, Points, Fallible, Commands
  <2> QED BY <1>4, <2>1 DEF RunAgent, Stores, Kinds, Keeps, counts, TypeOK
<1>5. CASE RunCoder
  <2>1. tree' \in Trees
    BY <1>5, TreeTypes DEF RunCoder, WritesCode, TypeOK, Option
  <2>2. loc' \in Locals
    BY <1>5 DEF RunCoder, TypeOK, Locals
  <2>3. source' \in [head : Heads, code : Codes]
    BY <1>5 DEF RunCoder, WritesCode, TypeOK, Codes
  <2> QED BY <1>5, <2>1, <2>2, <2>3 DEF RunCoder, WritesCode, Goes, Keeps, counts, TypeOK, Points
<1>6. CASE RecordCode
    BY <1>6 DEF RecordCode, Stores, Goes, Keeps, counts, TypeOK, Kinds, AgentKinds, Points, Fallible, Commands
<1>7. CASE AlignFails
    BY <1>7, EndTypes DEF AlignFails, Raises
<1> QED BY <1>1, <1>2, <1>3, <1>4, <1>5, <1>6, <1>7 DEF AgentStep

\* The rounds of the acceptance loop.
LEMMA AcceptTypes ==
    ASSUME TypeOK, AcceptStep
    PROVE  TypeOK'
<1>1. CASE CommandSkipped \/ CommandPasses
  <2>1. pc \in Commands
    BY <1>1 DEF CommandSkipped, CommandPasses, TypeOK, Option
  <2>2. pc' \in Points
    BY <1>1, <2>1 DEF CommandSkipped, CommandPasses, Goes, NextCommand, Commands, Points, Fallible
  <2>3. loc' \in Locals
    BY <1>1 DEF CommandSkipped, CommandPasses, TypeOK, Locals
  <2> QED BY <1>1, <2>1, <2>2, <2>3
          DEF CommandSkipped, CommandPasses, durable, Keeps, counts, TypeOK
<1>2. CASE CommandFix \/ Correct
  <2>1. tree' \in Trees
    BY <1>2, TreeTypes DEF CommandFix, Correct, WritesCode, TypeOK, Option
  <2>2. loc' \in Locals
    BY <1>2 DEF CommandFix, Correct, TypeOK, Locals
  <2>3. source' \in [head : Heads, code : Codes]
    BY <1>2 DEF CommandFix, Correct, WritesCode, TypeOK, Codes
  <2> QED BY <1>2, <2>1, <2>2, <2>3
          DEF CommandFix, Correct, WritesCode, Goes, Keeps, counts, TypeOK, Points
<1>3. CASE RecordValidation \/ Review
    BY <1>3 DEF RecordValidation, Review, Stores, Goes, Keeps, counts, TypeOK, Kinds, Points, Fallible
<1>4. CASE Accept
  <2>1. loc' \in Locals
    BY <1>4, LocalsTypes DEF Accept, TypeOK
  <2>2. pc' \in Points
    BY <1>4 DEF Accept, AfterVerdict, Goes, Points, Fallible
  <2> QED BY <1>4, <2>1, <2>2 DEF Accept, Stores, Keeps, counts, TypeOK, Kinds
<1>5. CASE CommandFails
    BY <1>5, EndTypes DEF CommandFails, Raises
<1> QED BY <1>1, <1>2, <1>3, <1>4, <1>5 DEF AcceptStep

\* Synchronisation and delivery.
LEMMA DeliverTypes ==
    ASSUME TypeOK, DeliverStep
    PROVE  TypeOK'
<1>1. CASE SyncSkipped \/ SyncApplied
  <2>1. loc' \in Locals
    BY <1>1, LocalsTypes DEF SyncSkipped, SyncApplied, TypeOK, Option
  <2>2. source' \in [head : Heads, code : Codes]
    BY <1>1, TreeTypes DEF SyncSkipped, SyncApplied, durable, TypeOK, Codes
  <2> QED BY <1>1, <2>1, <2>2 DEF SyncSkipped, SyncApplied, durable, Goes, Keeps, counts, TypeOK, Points
<1>2. CASE SyncRefused \/ RecordSync \/ EnterDelivery \/ RecordCommit
    BY <1>2 DEF SyncRefused, RecordSync, EnterDelivery, RecordCommit, durable, Stores, Goes,
                Keeps, counts, TypeOK, Points, Fallible, Kinds
<1>3. CASE Deliver
  <2>1. told' \in [accepted : BOOLEAN, applied : BOOLEAN]
    BY <1>3 DEF Deliver, TypeOK, Locals
  <2> QED BY <1>3, <2>1 DEF Deliver, Stores, Goes, Keeps, counts, TypeOK, Points, Checked, Kinds
<1>4. CASE AutoCommit
  <2>1. tree' \in Trees
    BY <1>4, TreeTypes DEF AutoCommit, TypeOK
  <2>2. pc' \in Points
    BY <1>4 DEF AutoCommit, Goes, Points
  <2>3. UNCHANGED <<opts, status, cancelReq, art, headArt, spec, verdict, told, fresh,
                    source, loc, apc, runs, crashes>>
    BY <1>4 DEF AutoCommit, Keeps, counts
  <2> QED BY <2>1, <2>2, <2>3 DEF TypeOK
<1>5. CASE AutoCommitFails \/ Finish
    BY <1>5, EndTypes DEF AutoCommitFails, Finish, Raises
<1> QED BY <1>1, <1>2, <1>3, <1>4, <1>5 DEF DeliverStep

\* How a run begins, and how it ends early.
LEMMA RunTypes ==
    ASSUME TypeOK, Begin \/ RunFailed \/ WriteRefused \/ RunCancelled \/ Settle
    PROVE  TypeOK'
<1>1. CASE Begin
  <2>1. loc' \in Locals
    <3> DEFINE e == "worktree" \in art
               h == IF e /\ tree.dir /\ "source_head" \in art THEN headArt ELSE source.head
    <3>1. loc' = [NoLocals EXCEPT !.snap = art, !.existing = e, !.head = h]
      BY <1>1 DEF Begin
    <3>2. e \in BOOLEAN /\ h \in {Elsewhere} \cup Heads /\ art \subseteq Kinds
      BY DEF TypeOK
    <3> HIDE DEF e, h
    <3> QED BY <3>1, <3>2 DEF NoLocals, Locals
  <2> QED BY <1>1, <2>1, BoundsAssumption DEF Begin, Goes, durable, TypeOK, Points, Fallible
<1>2. CASE WriteRefused
  <2>1. tree' \in Trees
    BY <1>2, TreeTypes DEF WriteRefused, WritesCode, TypeOK, Option
  <2>2. source' \in [head : Heads, code : Codes]
    BY <1>2 DEF WriteRefused, WritesCode, TypeOK, Codes
  <2> QED BY <1>2, <2>1, <2>2, NoLocalsType
          DEF WriteRefused, WritesCode, Ends, Keeps, counts, TypeOK, Points
<1>3. CASE RunFailed \/ RunCancelled
    BY <1>3, EndTypes DEF RunFailed, RunCancelled, Raises
<1>4. CASE Settle
    BY <1>4 DEF Settle, Goes, durable, Keeps, counts, TypeOK, Points
<1> QED BY <1>1, <1>2, <1>3, <1>4

\* The user, the approval and the process.
LEMMA UserTypes ==
    ASSUME TypeOK,
           \/ ApproveComplete \/ ApproveCommit \/ ApproveStep \/ Start \/ CancelQueued
           \/ Cancel \/ MoveHead \/ Crash \/ Requeue \/ Rests
    PROVE  TypeOK'
<1>1. CASE ApproveCommit
    BY <1>1, TreeTypes DEF ApproveCommit, counts, TypeOK
<1>2. CASE MoveHead
  <2>1. source' \in [head : Heads, code : Codes]
    BY <1>2, BoundsAssumption DEF MoveHead, TypeOK, Heads
  <2> QED BY <1>2, <2>1 DEF MoveHead, counts, TypeOK
<1>3. CASE Crash
    BY <1>3, NoLocalsType, BoundsAssumption DEF Crash, durable, TypeOK, Points
<1>4. CASE ApproveComplete \/ ApproveStep \/ Start \/ CancelQueued \/ Cancel \/ Requeue \/ Rests
    BY <1>4
    DEF ApproveComplete, ApproveStep, ApproveRecord, ApproveDone, Start, CancelQueued, Cancel,
        Requeue, Rests, Stores, Goes, Keeps, durable, counts, vars, TypeOK, Kinds, Points
<1> QED BY <1>1, <1>2, <1>3, <1>4

\* Every step keeps the types.
LEMMA NextTypes ==
    ASSUME TypeOK, [Next]_vars
    PROVE  TypeOK'
<1>1. CASE UNCHANGED vars
    BY <1>1 DEF vars, durable, counts, TypeOK
<1>2. CASE Next
    BY <1>2, PrepareTypes, AgentTypes, AcceptTypes, DeliverTypes, RunTypes, UserTypes
    DEF Next, RunStep
<1> QED BY <1>1, <1>2

-----------------------------------------------------------------------------
(* The steps of a run                                                      *)

\* While a run is under way nobody approves it, and it is not the first to come.
LEMMA RunIsAlone ==
    ASSUME WorkflowInv, InRun
    PROVE  status = "running" /\ apc = "idle" /\ runs # 0
BY DEF WorkflowInv, RowFollows, FirstRun, InRun

\* A run that ends without a delivery leaves what is durable as it was.
LEMMA EndKeeps ==
    ASSUME WorkflowInv, InRun, pc # "record_sync", NEW s \in {"failed", "cancelled"}, Ends(s), 
           UNCHANGED durable, Keeps
    PROVE  WorkflowInv'
<1> USE DEF WorkflowInv, Ends, durable, Keeps, counts
<1>1. TypeOK'
    BY EndTypes
<1>2. ~InRun' /\ ~Shown' /\ ~Judged' /\ pc' = "settle"
    BY DEF InRun, Shown, Judged, Judging, Delivering
<1>3. RowFollows' /\ TreeIsThere' /\ FirstRun' /\ BaseIsHead'
    BY <1>2, RunIsAlone DEF RowFollows, TreeIsThere, FirstRun, BaseIsHead
<1>4. EvidenceGrows' /\ VerdictIsKnown'
    BY <1>2 DEF EvidenceGrows, VerdictIsKnown, Judging, Delivering
<1>5. SnapshotHolds'
    BY <1>2 DEF SnapshotHolds
<1>6. PatchIsRecorded' /\ ClaimsAreTrue'
    BY <1>2 DEF PatchIsRecorded, ClaimsAreTrue, NoLocals
<1> QED BY <1>1, <1>3, <1>4, <1>5, <1>6

\* Making the worktree: there was no code in it before.
LEMMA PrepareKeeps ==
    ASSUME WorkflowInv, PrepareStep
    PROVE  WorkflowInv'
<1> USE DEF WorkflowInv
<1>1. TypeOK'
    BY PrepareTypes
<1>2. CASE CreateWorktreeFails \/ CheckHeadFails \/ CopyLocalFails
    BY <1>2, EndKeeps DEF CreateWorktreeFails, CheckHeadFails, CopyLocalFails, Raises, InRun
<1>3. CASE ~(CreateWorktreeFails \/ CheckHeadFails \/ CopyLocalFails)
  <2>1. /\ UNCHANGED <<opts, status, apc, runs, crashes, loc, verdict, told, fresh, source>>
        /\ InRun /\ InRun' /\ pc' # "create"
        /\ {pc, pc'} \subseteq {"create", "record_worktree", "record_head", "check_head", "copy",
                                "baseline", "record_snapshot", "product"}
    BY <1>3 DEF PrepareStep, CreateWorktree, RecordWorktree, RecordHead, CheckHead, CopyLocal,
                CommitBaseline, RecordSnapshot, Keeps, Goes, counts, durable, InRun
  <2>2. /\ art \subseteq art'
        /\ \A k \in {"source_sync", "code_summary"} : k \in art' => k \in art
    BY <1>3 DEF PrepareStep, CreateWorktree, RecordWorktree, RecordHead, CheckHead, CopyLocal,
                CommitBaseline, RecordSnapshot, Stores, durable
  <2>3. /\ tree'.dir /\ (tree'.dirty <=> tree.dirty)
        /\ tree'.base = tree.base \/ pc' = "record_worktree"
    <3>1. CASE CreateWorktree
      BY <3>1 DEF CreateWorktree, TreeIsThere, Goes
    <3>2. CASE ~CreateWorktree
      BY <1>3, <2>1, <3>2
      DEF PrepareStep, RecordWorktree, RecordHead, CheckHead, CopyLocal, CommitBaseline,
          RecordSnapshot, durable, TypeOK, Trees, TreeIsThere
    <3> QED BY <3>1, <3>2
  <2>4. RowFollows' /\ TreeIsThere' /\ FirstRun'
    BY <2>1, <2>3, RunIsAlone DEF RowFollows, TreeIsThere, FirstRun
  <2>5. BaseIsHead'
    BY <1>3, <2>1, <2>3
    DEF BaseIsHead, InRun, PrepareStep, CreateWorktree, RecordWorktree, RecordHead, CheckHead,
        HeadMismatch, CopyLocal, CommitBaseline, RecordSnapshot, Goes
  <2>6. EvidenceGrows' /\ VerdictIsKnown'
    BY <2>1, RunIsAlone DEF EvidenceGrows, VerdictIsKnown, Judged, Shown, Judging, Delivering
  <2>8. SnapshotHolds' /\ ClaimsAreTrue'
    BY <2>1, <2>2 DEF SnapshotHolds, ClaimsAreTrue, Delivering
  <2>9. PatchIsRecorded'
    BY <2>1, <2>2, RunIsAlone DEF PatchIsRecorded, Shown, Delivering
  <2> QED BY <1>1, <2>4, <2>5, <2>6, <2>8, <2>9
<1> QED BY <1>2, <1>3

\* The order of the agents.
LEMMA AgentPoints ==
    ASSUME NEW k \in AgentKinds
    PROVE  NextPoint[k] \in {"reading", "design", "code_summary", "build"}
BY DEF AgentKinds, NextPoint

\* The requirement and the code: nothing has been judged yet.
LEMMA AgentKeeps ==
    ASSUME WorkflowInv, AgentStep
    PROVE  WorkflowInv'
<1> USE DEF WorkflowInv
<1>1. TypeOK'
    BY AgentTypes
<1>2. CASE AlignFails
    BY <1>2, EndKeeps DEF AlignFails, Raises, InRun
<1>3. CASE ~AlignFails
  <2>1. /\ UNCHANGED <<opts, status, apc, runs, crashes, verdict, told>>
        /\ pc \in {"product", "write_spec", "assess", "misaligned", "record_code"} \cup AgentKinds
        /\ pc' \in {"write_spec", "assess", "misaligned", "record_code", "build"} \cup AgentKinds
    <3>1. CASE SkipAgent \/ RunAgent
      BY <3>1, AgentPoints DEF SkipAgent, RunAgent, Keeps, Goes, counts, durable, AgentKinds
    <3>2. CASE ~(SkipAgent \/ RunAgent)
      BY <1>3, <3>2 DEF AgentStep, ReuseSpec, AlignSpec, WriteSpec, Assess, AlignAgain, RunCoder,
                        RecordCode, Keeps, Goes, counts, durable, AgentKinds
    <3> QED BY <3>1, <3>2
  <2>2. InRun /\ InRun' /\ pc \notin Judging \cup Delivering /\ pc' \notin Judging \cup Delivering
        /\ {pc, pc'} \cap {"create", "record_worktree", "record_head", "check_head"} = {}
        /\ {pc, pc'} \cap {"test", "run", "evidence", "review", "accept"} = {}
    BY <2>1 DEF InRun, Judging, Delivering, AgentKinds
  <2>3. /\ art \subseteq art'
        /\ "source_sync" \in art' => "source_sync" \in art
        /\ "code_summary" \in art' => "code_summary" \in art \/ pc = "record_code"
    BY <1>3 DEF AgentStep, ReuseSpec, AlignSpec, WriteSpec, Assess, AlignAgain, SkipAgent,
                RunAgent, RunCoder, RecordCode, Stores, durable, AgentKinds
  <2>4. /\ loc'.snap = loc.snap /\ loc'.existing = loc.existing
        /\ loc'.head = loc.head /\ loc'.applied = loc.applied
    BY <1>3 DEF AgentStep, ReuseSpec, AlignSpec, WriteSpec, Assess, AlignAgain, SkipAgent,
                RunAgent, RunCoder, RecordCode, TypeOK, Locals
  <2>5. /\ tree'.dir = tree.dir /\ tree'.base = tree.base
        /\ tree' = tree \/ (RunCoder /\ tree'.dirty = TRUE)
    <3>1. CASE RunCoder
      BY <3>1 DEF RunCoder, WritesCode, TypeOK, Trees
    <3>2. CASE ~RunCoder
      BY <1>3, <3>2 DEF AgentStep, ReuseSpec, AlignSpec, WriteSpec, Assess, AlignAgain,
                        SkipAgent, RunAgent, RecordCode, durable
    <3> QED BY <3>1, <3>2
  <2>6. RowFollows' /\ FirstRun' /\ BaseIsHead'
    BY <2>1, <2>2, <2>4, <2>5, RunIsAlone DEF RowFollows, FirstRun, BaseIsHead
  <2>7. TreeIsThere'
    BY <2>2, <2>5 DEF TreeIsThere
  <2>8. EvidenceGrows' /\ VerdictIsKnown'
    BY <2>1, <2>2, RunIsAlone DEF EvidenceGrows, VerdictIsKnown, Judged, Shown, Delivering
  <2>9. source'.code = "none" <=> source.code = "none"
    <3>1. CASE RunCoder
      BY <3>1 DEF RunCoder, WritesCode, TypeOK
    <3>2. CASE ~RunCoder
      BY <1>3, <3>2 DEF AgentStep, ReuseSpec, AlignSpec, WriteSpec, Assess, AlignAgain,
                        SkipAgent, RunAgent, RecordCode, durable
    <3> QED BY <3>1, <3>2
  <2>10. SnapshotHolds' /\ ClaimsAreTrue'
    BY <2>1, <2>2, <2>3, <2>4, <2>9 DEF SnapshotHolds, ClaimsAreTrue, Judging, Delivering
  <2>11. PatchIsRecorded'
    BY <2>1, <2>2, <2>3, RunIsAlone DEF PatchIsRecorded, Shown, Judging
  <2> QED BY <1>1, <2>6, <2>7, <2>8, <2>10, <2>11
<1> QED BY <1>2, <1>3

\* The last command of a task, case by case.
LEMMA LastCommands ==
    ASSUME opts.cmds \subseteq Commands
    PROVE  /\ "run" \in opts.cmds => LastCommand \subseteq {"run"}
           /\ "run" \notin opts.cmds /\ "test" \in opts.cmds => LastCommand \subseteq {"test"}
           /\ opts.cmds \cap {"test", "run"} = {} => LastCommand \subseteq opts.cmds \cap {"build"}
BY DEF LastCommand, Commands

\* A round of the acceptance loop adds to the evidence; a fix begins it anew
\* and repeats the command that will then be the last.
LEMMA AcceptKeeps ==
    ASSUME WorkflowInv, AcceptStep
    PROVE  WorkflowInv'
<1> USE DEF WorkflowInv
<1>1. TypeOK'
    BY AcceptTypes
<1>2. opts.cmds \subseteq Commands
    BY DEF TypeOK, Option
<1>3. CASE CommandFails
    BY <1>2, <1>3, EndKeeps DEF CommandFails, Raises, InRun, Commands
<1>4. CASE ~CommandFails
  <2>1. /\ UNCHANGED <<opts, status, apc, runs, crashes, told>>
        /\ pc \in Commands \cup {"evidence", "review", "accept", "correct"}
        /\ pc' \in Commands \cup {"evidence", "review", "accept", "correct", "record_code", "sync"}
    BY <1>2, <1>4
    DEF AcceptStep, CommandSkipped, CommandPasses, CommandFix, RecordValidation, Review, Accept,
        Correct, AfterVerdict, NextCommand, Commands, Keeps, Goes, counts, durable
  <2>2. InRun /\ InRun'
        /\ {pc, pc'} \cap {"create", "record_worktree", "record_head", "check_head"} = {}
        /\ {pc, pc'} \cap (Delivering \cup {"record_sync", "deliver"}) = {}
    BY <2>1 DEF InRun, Judging, Delivering, Commands
  <2>3. /\ art \subseteq art'
        /\ "source_sync" \in art' => "source_sync" \in art
    BY <1>4 DEF AcceptStep, CommandSkipped, CommandPasses, CommandFix, RecordValidation, Review,
                Accept, Correct, Stores, durable
  <2>4. /\ loc'.snap = loc.snap /\ loc'.existing = loc.existing
        /\ loc'.head = loc.head /\ loc'.applied = loc.applied
    BY <1>4 DEF AcceptStep, CommandSkipped, CommandPasses, CommandFix, RecordValidation, Review,
                Accept, Correct, TypeOK, Locals
  <2>5. /\ tree'.dir = tree.dir /\ tree'.base = tree.base
        /\ tree'.dirty = tree.dirty \/ tree'.dirty = TRUE
    BY <1>4 DEF AcceptStep, CommandSkipped, CommandPasses, CommandFix, RecordValidation, Review,
                Accept, Correct, WritesCode, durable, TypeOK, Trees
  <2>6. RowFollows' /\ FirstRun' /\ BaseIsHead'
    BY <2>1, <2>2, <2>4, <2>5, RunIsAlone DEF RowFollows, FirstRun, BaseIsHead
  <2>7. TreeIsThere'
    BY <2>2, <2>5 DEF TreeIsThere
  <2>8. source'.code = "none" <=> source.code = "none"
    BY <1>4 DEF AcceptStep, CommandSkipped, CommandPasses, CommandFix, RecordValidation, Review,
                Accept, Correct, WritesCode, durable, TypeOK
  <2>9. EvidenceGrows'
    <3>1. ~Shown' /\ LastCommand' = LastCommand /\ (Judged' <=> pc' = "sync")
      BY <2>1, <2>2, RunIsAlone DEF Shown, Judged, Judging, Commands, LastCommand
    <3>2. CASE pc = "build" \/ CommandFix
      BY <1>2, <1>4, <2>1, <3>1, <3>2, LastCommands
      DEF EvidenceGrows, AcceptStep, CommandSkipped, CommandPasses, CommandFix,
          RecordValidation, Review, Accept, Correct, NextCommand, Goes, Commands
    <3>3. CASE pc = "test" /\ ~CommandFix
      BY <1>2, <1>4, <2>1, <3>1, <3>3, LastCommands
      DEF EvidenceGrows, AcceptStep, CommandSkipped, CommandPasses,
          RecordValidation, Review, Accept, Correct, NextCommand, Goes, durable
    <3>4. CASE pc = "run" /\ ~CommandFix
      BY <1>2, <1>4, <2>1, <3>1, <3>4, LastCommands
      DEF EvidenceGrows, AcceptStep, CommandSkipped, CommandPasses,
          RecordValidation, Review, Accept, Correct, NextCommand, Goes, durable
    <3>5. CASE pc \notin Commands /\ ~CommandFix
      BY <1>2, <1>4, <2>1, <3>1, <3>5
      DEF EvidenceGrows, AcceptStep, CommandSkipped, CommandPasses, AfterVerdict,
          RecordValidation, Review, Accept, Correct, Goes, Commands
    <3> QED BY <3>2, <3>3, <3>4, <3>5 DEF Commands
  <2>10. VerdictIsKnown'
    <3>1. ~Shown' /\ pc' \notin Delivering /\ (pc' \in Judging => pc' = "sync" /\ Accept)
      BY <1>2, <1>4, <2>1, <2>2, RunIsAlone
      DEF Shown, Judging, AcceptStep, CommandSkipped, CommandPasses, CommandFix,
          RecordValidation, Review, Correct, NextCommand, Goes, Commands
    <3>2. Accept => (loc'.accepted <=> verdict' = "pass")
      BY DEF Accept, TypeOK, Locals
    <3> QED BY <2>2, <3>1, <3>2 DEF VerdictIsKnown, Delivering
  <2>11. SnapshotHolds' /\ ClaimsAreTrue'
    BY <2>1, <2>2, <2>3, <2>4, <2>8 DEF SnapshotHolds, ClaimsAreTrue, Delivering
  <2>12. PatchIsRecorded'
    BY <2>1, <2>2, <2>3, RunIsAlone DEF PatchIsRecorded, Shown
  <2> QED BY <1>1, <2>6, <2>7, <2>8, <2>9, <2>10, <2>11, <2>12
<1> QED BY <1>3, <1>4

\* Synchronisation: the patch is the code that the gate passed.
LEMMA SyncKeeps ==
    ASSUME WorkflowInv, SyncSkipped \/ SyncApplied \/ SyncRefused \/ RecordSync
    PROVE  WorkflowInv'
<1> USE DEF WorkflowInv
<1>1. TypeOK'
    BY DeliverTypes DEF DeliverStep
<1>2. /\ UNCHANGED <<opts, status, apc, runs, crashes, verdict, told, fresh, tree>>
      /\ pc \in {"sync", "record_sync"} /\ pc' \in {"record_sync", "deliver"}
      /\ pc' = "record_sync" <=> SyncApplied
    BY DEF SyncSkipped, SyncApplied, SyncRefused, RecordSync, Keeps, Goes, counts, durable
<1>3. /\ InRun /\ InRun' /\ {pc, pc'} \cap Delivering = {} /\ {pc, pc'} \subseteq Judging
      /\ ~Shown /\ ~Shown'
    BY <1>2, RunIsAlone DEF InRun, Judging, Delivering, Shown
<1>4. /\ loc'.snap = loc.snap /\ loc'.existing = loc.existing
      /\ loc'.head = loc.head /\ loc'.accepted = loc.accepted
    BY DEF SyncSkipped, SyncApplied, SyncRefused, RecordSync, TypeOK, Locals
<1>5. /\ art' = art \/ (RecordSync /\ art' = art \cup {"source_sync"})
      /\ source' = source \/ (SyncApplied /\ source'.code = "tree")
    BY DEF SyncSkipped, SyncApplied, SyncRefused, RecordSync, Stores, durable, TypeOK
<1>6. RowFollows' /\ TreeIsThere' /\ FirstRun' /\ BaseIsHead'
    BY <1>2, <1>3, <1>4, RunIsAlone DEF RowFollows, TreeIsThere, FirstRun, BaseIsHead
<1>7. EvidenceGrows' /\ VerdictIsKnown'
    BY <1>2, <1>3, <1>4 DEF EvidenceGrows, VerdictIsKnown, Judged, LastCommand
<1>9. SnapshotHolds'
    BY <1>2, <1>3, <1>4, <1>5 DEF SnapshotHolds, RecordSync, Goes
<1>10. ClaimsAreTrue'
  <2>1. CASE SyncSkipped
    BY <1>2, <1>3, <2>1 DEF SyncSkipped, ClaimsAreTrue, SnapshotHolds, durable, TypeOK, Locals, Goes
  <2>2. CASE SyncApplied
    <3>1. loc'.applied /\ opts.sync /\ art' = art /\ source'.code = "tree"
      BY <2>2 DEF SyncApplied, MayApply, TypeOK, Locals
    <3> QED BY <1>2, <1>5, <2>2, <3>1 DEF ClaimsAreTrue
  <2>3. CASE SyncRefused
    BY <1>2, <2>3 DEF SyncRefused, ClaimsAreTrue, durable, Goes
  <2>4. CASE RecordSync
    BY <1>2, <1>3, <2>4 DEF RecordSync, ClaimsAreTrue, Stores, Goes
  <2> QED BY <2>1, <2>2, <2>3, <2>4
<1>11. PatchIsRecorded'
  <2>1. CASE SyncSkipped
    <3>1. "source_sync" \in art => loc'.applied
      BY <1>2, <1>3, <2>1
      DEF SyncSkipped, ClaimsAreTrue, SnapshotHolds, TypeOK, Locals
    <3> QED BY <1>3, <1>5, <2>1, <3>1 DEF SyncSkipped, durable, PatchIsRecorded
  <2>2. CASE SyncApplied
    BY <1>2, <1>3, <2>2 DEF PatchIsRecorded
  <2>3. CASE SyncRefused
    BY <1>2, <1>3, <2>3 DEF SyncRefused, MayApply, PatchIsRecorded, SnapshotHolds, durable, Delivering
  <2>4. CASE RecordSync
    BY <1>2, <1>3, <2>4 DEF RecordSync, PatchIsRecorded, ClaimsAreTrue
  <2> QED BY <2>1, <2>2, <2>3, <2>4
<1> QED BY <1>1, <1>6, <1>7, <1>9, <1>10, <1>11

\* Delivery: the manifest is written from the verdict and the report of this
\* run, and only a task that is not synchronised is committed.
LEMMA DeliverKeeps ==
    ASSUME WorkflowInv, DeliverStep
    PROVE  WorkflowInv'
<1> USE DEF WorkflowInv
<1>1. TypeOK'
    BY DeliverTypes
<1>2. CASE SyncSkipped \/ SyncApplied \/ SyncRefused \/ RecordSync
    BY <1>2, SyncKeeps
<1>3. CASE AutoCommitFails
    BY <1>3, EndKeeps DEF AutoCommitFails, Raises, InRun
<1>4. CASE Deliver \/ EnterDelivery \/ AutoCommit \/ RecordCommit \/ Finish
  <2>1. /\ UNCHANGED <<opts, apc, runs, crashes, verdict, source>>
        /\ pc \in {"deliver"} \cup Delivering /\ pc' \in Delivering \cup {"settle"}
        /\ pc' = "settle" <=> Finish
    BY <1>4 DEF Deliver, EnterDelivery, AutoCommit, RecordCommit, Finish, Ends, Keeps, Goes,
                counts, durable, Delivering
  <2>2. /\ InRun /\ Judged /\ Judged' /\ Shown' /\ (pc = "deliver" <=> Deliver)
        /\ {pc, pc'} \cap {"create", "record_worktree", "record_head", "check_head"} = {}
        /\ {pc, pc'} \cap {"test", "run", "evidence", "review", "accept", "sync", "record_sync"} = {}
        /\ Finish => ~InRun' /\ status' = "waiting_approval"
        /\ ~Finish => InRun' /\ status' = status /\ loc' = loc
    BY <1>4, <2>1
    DEF InRun, Judged, Shown, Judging, Delivering, Deliver, EnterDelivery, AutoCommit,
        RecordCommit, Finish, Ends, Goes
  <2>3. /\ art \subseteq art'
        /\ \A k \in {"source_sync", "code_summary"} : k \in art' => k \in art
    BY <1>4 DEF Deliver, EnterDelivery, AutoCommit, RecordCommit, Finish, Stores, durable
  <2>4. /\ tree'.dir = tree.dir /\ tree'.base = tree.base
        /\ tree' = tree \/ (AutoCommit /\ tree'.dirty = FALSE)
    BY <1>4 DEF Deliver, EnterDelivery, AutoCommit, RecordCommit, Finish, durable, TypeOK, Trees
  <2>5. /\ Deliver => /\ told' = [accepted |-> loc.accepted, applied |-> loc.applied]
                      /\ fresh' = fresh \cup {"delivery"}
        /\ ~Deliver => UNCHANGED <<told, fresh>>
    BY <1>4 DEF Deliver, EnterDelivery, AutoCommit, RecordCommit, Finish, durable
  <2>6. RowFollows' /\ TreeIsThere' /\ FirstRun' /\ BaseIsHead'
    BY <2>1, <2>2, <2>4, RunIsAlone DEF RowFollows, TreeIsThere, FirstRun, BaseIsHead
  <2>7. EvidenceGrows'
    BY <2>1, <2>2, <2>5 DEF EvidenceGrows, Shown, LastCommand
  <2>8. VerdictIsKnown'
    <3>1. told'.accepted <=> verdict = "pass"
      <4>1. CASE Deliver
        BY <2>2, <2>5, <4>1 DEF VerdictIsKnown, Judging
      <4>2. CASE ~Deliver
        BY <2>1, <2>2, <2>5, <4>2 DEF VerdictIsKnown, Shown
      <4> QED BY <4>1, <4>2
    <3>2. pc' = "commit" => loc'.accepted /\ ~opts.sync
      BY <1>4, <2>1, <2>2 DEF Deliver, EnterDelivery, AutoCommits, AutoCommit, RecordCommit,
                              Finish, Ends, Goes
    <3>3. pc' \in Judging \cup Delivering => (loc'.accepted <=> verdict = "pass")
      BY <2>1, <2>2 DEF VerdictIsKnown, Judging, Delivering
    <3> QED BY <2>1, <3>1, <3>2, <3>3 DEF VerdictIsKnown
  <2>10. SnapshotHolds'
    BY <2>1, <2>2, <2>3 DEF SnapshotHolds
  <2>11. ClaimsAreTrue'
    <3>1. told'.applied => told.applied \/ loc.applied
      BY <2>5
    <3>2. loc'.applied => loc.applied
      BY <2>2 DEF Finish, Ends, NoLocals
    <3>3. loc.applied => "source_sync" \in art
      BY <2>2 DEF ClaimsAreTrue
    <3> QED BY <2>1, <2>2, <2>3, <3>1, <3>2, <3>3 DEF ClaimsAreTrue
  <2>12. PatchIsRecorded'
    <3>1. "source_sync" \in art => told'.applied
      <4>1. CASE Deliver
        BY <2>2, <2>5, <4>1 DEF PatchIsRecorded
      <4>2. CASE ~Deliver
        BY <2>1, <2>2, <2>5, <4>2 DEF PatchIsRecorded, Shown
      <4> QED BY <4>1, <4>2
    <3> QED BY <2>1, <2>2, <2>3, <3>1 DEF PatchIsRecorded, Delivering
  <2> QED BY <1>1, <2>6, <2>7, <2>8, <2>10, <2>11, <2>12
<1> QED BY <1>2, <1>3, <1>4 DEF DeliverStep

\* A run begins with what the last one left, and ends early without a delivery.
LEMMA RunKeeps ==
    ASSUME WorkflowInv, Begin \/ RunFailed \/ WriteRefused \/ RunCancelled \/ Settle
    PROVE  WorkflowInv'
<1> USE DEF WorkflowInv
<1>1. TypeOK'
    BY RunTypes
<1>2. CASE RunFailed
    BY <1>2, EndKeeps DEF RunFailed, Raises, InRun, Fallible, AgentKinds, Commands
<1>3. CASE RunCancelled
    BY <1>3, EndKeeps DEF RunCancelled, InRun, Checked, AgentKinds, Commands
<1>4. CASE Begin
  <2>1. /\ UNCHANGED <<opts, art, headArt, verdict, told, fresh, tree, source, apc, crashes>>
        /\ pc = "idle" /\ apc = "idle" /\ status = "queued" /\ status' = "running"
        /\ pc' \in {"check_head", "create"} /\ runs' = runs + 1 /\ runs \in Nat
        /\ pc' = "check_head" => tree.dir
    BY <1>4 DEF Begin, Goes, durable, TypeOK
  <2>2. /\ loc'.snap = art /\ ~loc'.applied
        /\ loc'.existing = ("worktree" \in art)
    BY <1>4 DEF Begin, NoLocals
  <2>3. /\ InRun' /\ ~Shown' /\ ~Judged' /\ pc' \notin Judging \cup Delivering
    BY <2>1 DEF InRun, Shown, Judged, Judging, Delivering
  <2>4. RowFollows' /\ TreeIsThere' /\ BaseIsHead'
    BY <2>1 DEF RowFollows, TreeIsThere, BaseIsHead
  <2>5. FirstRun'
    <3>1. runs = 0 => ~loc'.existing
      BY <2>2 DEF FirstRun
    <3> QED BY <2>1, <3>1 DEF FirstRun
  <2>6. EvidenceGrows' /\ VerdictIsKnown'
    BY <2>1, <2>3 DEF EvidenceGrows, VerdictIsKnown
  <2>7. SnapshotHolds' /\ ClaimsAreTrue' /\ PatchIsRecorded'
    BY <2>1, <2>2, <2>3 DEF SnapshotHolds, ClaimsAreTrue, PatchIsRecorded
  <2> QED BY <1>1, <2>4, <2>5, <2>6, <2>7
<1>5. CASE WriteRefused
  <2>1. /\ UNCHANGED <<opts, art, verdict, told, apc, runs, crashes>>
        /\ source'.code = "none" <=> source.code = "none"
        /\ InRun /\ pc # "record_sync" /\ pc # "create"
        /\ status' = "failed" /\ pc' = "settle" /\ loc' = NoLocals
    BY <1>5 DEF WriteRefused, WritesCode, Ends, Keeps, counts, InRun, TypeOK, Option, Commands
  <2>2. tree'.dir = tree.dir /\ (tree'.dirty = tree.dirty \/ tree'.dirty = TRUE)
    BY <1>5 DEF WriteRefused, WritesCode, TypeOK, Trees
  <2>3. ~InRun' /\ ~Shown' /\ ~Judged' /\ pc' \notin Judging \cup Delivering
    BY <2>1 DEF InRun, Shown, Judged, Judging, Delivering
  <2>4. RowFollows' /\ TreeIsThere' /\ FirstRun' /\ BaseIsHead'
    BY <2>1, <2>2, <2>3, RunIsAlone DEF RowFollows, TreeIsThere, FirstRun, BaseIsHead
  <2>5. EvidenceGrows' /\ VerdictIsKnown'
    BY <2>1, <2>3 DEF EvidenceGrows, VerdictIsKnown
  <2>6. SnapshotHolds' /\ ClaimsAreTrue' /\ PatchIsRecorded'
    BY <2>1, <2>2, <2>3 DEF SnapshotHolds, ClaimsAreTrue, PatchIsRecorded, NoLocals
  <2> QED BY <1>1, <2>4, <2>5, <2>6
<1>6. CASE Settle
  <2>1. /\ UNCHANGED <<opts, loc, art, verdict, told, fresh, tree, source, apc, runs, crashes>>
        /\ pc = "settle" /\ pc' = "idle"
        /\ status' = status \/ (status = "failed" /\ status' = "queued")
    BY <1>6 DEF Settle, Goes, Keeps, counts, durable
  <2>2. /\ ~InRun' /\ (Shown' <=> Shown) /\ (Judged' <=> Judged)
        /\ pc' \notin Judging \cup Delivering /\ pc \notin Delivering
    BY <2>1 DEF InRun, Shown, Judged, Judging, Delivering
  <2>3. RowFollows' /\ TreeIsThere' /\ FirstRun' /\ BaseIsHead'
    BY <2>1, <2>2 DEF RowFollows, TreeIsThere, FirstRun, BaseIsHead
  <2>4. EvidenceGrows' /\ VerdictIsKnown'
    BY <2>1, <2>2 DEF EvidenceGrows, VerdictIsKnown, LastCommand
  <2>5. SnapshotHolds' /\ ClaimsAreTrue' /\ PatchIsRecorded'
    BY <2>1, <2>2 DEF SnapshotHolds, ClaimsAreTrue, PatchIsRecorded
  <2> QED BY <1>1, <2>3, <2>4, <2>5
<1> QED BY <1>2, <1>3, <1>4, <1>5, <1>6

\* The user, an approval, a crash and the recovery of the job touch neither the
\* code nor its evidence, and run when no run does; a commit by hand is for a
\* task that is not synchronised.
LEMMA UserKeeps ==
    ASSUME WorkflowInv,
           \/ ApproveComplete \/ ApproveCommit \/ ApproveStep \/ Start \/ CancelQueued
           \/ Cancel \/ MoveHead \/ Crash \/ Requeue \/ Rests
    PROVE  WorkflowInv'
<1> USE DEF WorkflowInv
<1>1. TypeOK'
    BY UserTypes
<1>2. /\ UNCHANGED <<opts, verdict, told, fresh, runs>>
      /\ crashes' = crashes \/ (Crash /\ crashes' = crashes + 1)
      /\ art' = art \/ (ApproveRecord /\ art' = art \cup {"commit"})
    BY DEF ApproveComplete, ApproveCommit, ApproveStep, ApproveRecord, ApproveDone, Start,
           CancelQueued, Cancel, MoveHead, Crash, Requeue, Rests, Stores, Keeps, durable, counts,
           vars
<1>3. source'.code = source.code
  <2>1. CASE MoveHead
    BY <2>1 DEF MoveHead, TypeOK
  <2>2. CASE ~MoveHead
    BY <2>2 DEF ApproveComplete, ApproveCommit, ApproveStep, ApproveRecord, ApproveDone, Start,
                CancelQueued, Cancel, Crash, Requeue, Rests, Keeps, durable, vars
  <2> QED BY <2>1, <2>2
<1>4. /\ tree'.dir = tree.dir /\ tree'.base = tree.base
      /\ tree' = tree \/ (ApproveCommit /\ tree'.dirty = FALSE)
    BY DEF ApproveComplete, ApproveCommit, ApproveStep, ApproveRecord, ApproveDone, Start,
           CancelQueued, Cancel, MoveHead, Crash, Requeue, Rests, Keeps, durable, vars, TypeOK,
           Trees
<1>5. \/ pc' = pc /\ loc' = loc
      \/ /\ Crash /\ pc' \in {"idle", "lost"} /\ (pc = "idle" <=> pc' = "idle")
         /\ loc' = NoLocals /\ apc' = "idle" /\ status' = status
      \/ /\ Requeue /\ pc = "lost" /\ pc' = "idle" /\ loc' = loc
         /\ apc' = apc /\ apc = "idle" /\ status' = "queued"
    BY DEF ApproveComplete, ApproveCommit, ApproveStep, ApproveRecord, ApproveDone, Start,
           CancelQueued, Cancel, MoveHead, Crash, Requeue, Rests, Goes, Keeps, vars
<1>6. InRun' => InRun /\ pc' = pc /\ loc' = loc
    BY <1>5 DEF InRun
<1>7. InRun => status' = "running"
    BY RunIsAlone
    DEF InRun, ApproveComplete, ApproveCommit, ApproveStep, ApproveRecord, ApproveDone, Start,
        CancelQueued, Cancel, MoveHead, Crash, Requeue, Rests, vars
<1>8. apc' # "idle" => status' = "waiting_approval" /\ (apc # "idle" \/ status = "waiting_approval")
    BY DEF RowFollows, ApproveComplete, ApproveCommit, ApproveStep, ApproveRecord, ApproveDone,
           Start, CancelQueued, Cancel, MoveHead, Crash, Requeue, Rests, Keeps, vars
<1>9. status' = "waiting_approval" => status = "waiting_approval"
    BY DEF ApproveComplete, ApproveCommit, ApproveStep, ApproveRecord, ApproveDone, Start,
           CancelQueued, Cancel, MoveHead, Crash, Requeue, Rests, vars
<1>10. /\ Shown' => Shown
       /\ Judged' => Judged
       /\ pc' \notin {"idle", "lost"} => pc' = pc
    BY <1>5, <1>9 DEF Shown, Judged, Judging, Delivering
<1>11. RowFollows' /\ TreeIsThere' /\ BaseIsHead'
    BY <1>2, <1>4, <1>6, <1>7, <1>8 DEF RowFollows, TreeIsThere, BaseIsHead
<1>12. FirstRun'
  <2>1. runs = 0 => status' \in {"queued", "cancelled"}
    BY DEF FirstRun, ApproveComplete, ApproveCommit, ApproveStep, ApproveRecord, ApproveDone,
           Start, CancelQueued, Cancel, MoveHead, Crash, Requeue, Rests, vars
  <2>2. runs = 0 => pc' = "idle" /\ "worktree" \notin art'
    BY <1>2, <1>5 DEF FirstRun
  <2>3. runs = 0 => apc' = "idle"
    BY <1>8 DEF FirstRun
  <2> QED BY <1>2, <1>6, <2>1, <2>2, <2>3 DEF FirstRun
<1>13. EvidenceGrows'
    BY <1>2, <1>10 DEF EvidenceGrows, LastCommand
<1>14. VerdictIsKnown'
    BY <1>2, <1>5, <1>10 DEF VerdictIsKnown, Judging, Delivering
<1>16. SnapshotHolds'
    BY <1>2, <1>6 DEF SnapshotHolds
<1>17. ClaimsAreTrue'
  <2>1. loc'.applied => loc.applied
    BY <1>5 DEF NoLocals
  <2>2. loc'.applied => pc' = "record_sync" \/ "source_sync" \in art
    BY <1>5, <2>1 DEF ClaimsAreTrue, NoLocals
  <2> QED BY <1>2, <1>3, <1>5, <1>10, <2>1, <2>2 DEF ClaimsAreTrue
<1>18. PatchIsRecorded'
    BY <1>2, <1>5, <1>10 DEF PatchIsRecorded
<1> QED BY <1>1, <1>11, <1>12, <1>13, <1>14, <1>16, <1>17, <1>18

\* Every step keeps the record of what was judged, applied and reported.
LEMMA NextKeeps ==
    ASSUME WorkflowInv, [Next]_vars
    PROVE  WorkflowInv'
<1>1. CASE UNCHANGED vars
    BY <1>1
    DEF vars, durable, counts, WorkflowInv, TypeOK, RowFollows, TreeIsThere, FirstRun, BaseIsHead,
        EvidenceGrows, VerdictIsKnown, SnapshotHolds, ClaimsAreTrue, PatchIsRecorded,
        InRun, Shown, Judged, LastCommand
<1>2. CASE Next
    BY <1>2, PrepareKeeps, AgentKeeps, AcceptKeeps, DeliverKeeps, RunKeeps, UserKeeps
    DEF Next, RunStep
<1> QED BY <1>1, <1>2

\* Nothing has been run, stored or written.
LEMMA InitWorkflow == Init => WorkflowInv
<1> SUFFICES ASSUME Init PROVE WorkflowInv
    OBVIOUS
<1>1. TypeOK
  <2>1. tree \in Trees /\ loc \in Locals
    BY NoLocalsType DEF Init, Trees
  <2>2. /\ spec \in [ready : BOOLEAN, approved : BOOLEAN, paired : BOOLEAN]
        /\ told \in [accepted : BOOLEAN, applied : BOOLEAN]
    BY DEF Init
  <2>3. source \in [head : Heads, code : Codes] /\ opts \in Option
    BY BoundsAssumption DEF Init, Heads, Codes
  <2>4. runs \in 0..MaxRuns /\ crashes \in 0..MaxCrashes
    BY BoundsAssumption DEF Init
  <2>5. /\ status \in {"queued", "running", "waiting_approval", "completed", "failed", "cancelled"}
        /\ cancelReq \in BOOLEAN /\ headArt \in {Elsewhere} \cup Heads /\ verdict \in Verdicts
        /\ art \subseteq Kinds /\ fresh \subseteq Kinds \cup Commands
        /\ pc \in Points /\ apc \in {"idle", "record_commit", "complete"}
    BY DEF Init, Verdicts, Points
  <2> QED BY <2>1, <2>2, <2>3, <2>4, <2>5 DEF TypeOK
<1>2. /\ RowFollows /\ TreeIsThere /\ FirstRun /\ BaseIsHead /\ EvidenceGrows /\ VerdictIsKnown
      /\ SnapshotHolds
    BY DEF Init, RowFollows, TreeIsThere, FirstRun, BaseIsHead, EvidenceGrows, VerdictIsKnown,
           SnapshotHolds, InRun, Judged, Shown, Judging, Delivering
<1>3. ClaimsAreTrue /\ PatchIsRecorded
    BY DEF Init, ClaimsAreTrue, PatchIsRecorded, NoLocals
<1> QED BY <1>1, <1>2, <1>3 DEF WorkflowInv

\* The invariant holds in every state of every run.
LEMMA SpecWorkflowInv == Spec => []WorkflowInv
BY InitWorkflow, NextKeeps, PTL DEF Spec

-----------------------------------------------------------------------------
(* Theorems                                                                *)

\* The artifacts, the worktree and the locals of a run keep their types.
THEOREM WorkflowTypes == Spec => []TypeOK
BY SpecWorkflowInv, PTL DEF WorkflowInv

\* A task never waits for approval with a diff, a validation, a review, an
\* acceptance or a manifest that was made before the code last changed, however
\* its runs were retried, resumed, corrected or cut off.
THEOREM DeliveriesAreJudged == Spec => []DeliveredIsJudged
<1>1. WorkflowInv => DeliveredIsJudged
    BY DEF WorkflowInv, EvidenceGrows, Judged, Shown, DeliveredIsJudged, Evidence
<1> QED BY <1>1, SpecWorkflowInv, PTL

\* The manifest that is shown says accepted exactly if the gate passed the code
\* as it is.  It says applied only if the user's repository holds the code that is
\* shown, or held the code that was there when the synchronisation was recorded;
\* what is on record as applied it does not deny.
THEOREM ReportsAreTrue == Spec => []SyncReportIsTrue
<1>1. WorkflowInv => SyncReportIsTrue
  <2> SUFFICES ASSUME WorkflowInv, status = "waiting_approval"
               PROVE  /\ told.accepted = (verdict = "pass")
                      /\ told.applied => \/ source.code = "tree"
                                         \/ source.code = "older" /\ "source_sync" \in art
                      /\ source.code = "tree" => told.applied \/ "source_sync" \notin art
    BY DEF SyncReportIsTrue
  <2>1. told.accepted \in BOOLEAN /\ (told.accepted <=> verdict = "pass")
    BY DEF WorkflowInv, TypeOK, VerdictIsKnown, Shown
  <2>2. told.accepted = (verdict = "pass")
    BY <2>1
  <2>3. told.applied => "source_sync" \in art /\ source.code \in {"tree", "older"}
    BY DEF WorkflowInv, TypeOK, Codes, ClaimsAreTrue
  <2>4. "source_sync" \in art => told.applied
    BY DEF WorkflowInv, PatchIsRecorded, Shown
  <2> QED BY <2>2, <2>3, <2>4
<1> QED BY <1>1, SpecWorkflowInv, PTL

\* Only SyncApplied puts the code of the worktree into the user's repository.
LEMMA OnlySyncPatches ==
    ASSUME WorkflowInv, Next, source'.code = "tree", source.code # "tree"
    PROVE  SyncApplied
<1> USE DEF Keeps, durable, Raises
<1>1. CASE PrepareStep \/ AgentStep \/ AcceptStep
    BY <1>1
    DEF WritesCode, WorkflowInv, TypeOK,
        PrepareStep, CreateWorktree, CreateWorktreeFails, RecordWorktree, RecordHead, CheckHead,
        CheckHeadFails, CopyLocal, CopyLocalFails, CommitBaseline, RecordSnapshot,
        AgentStep, ReuseSpec, AlignSpec, WriteSpec, Assess, AlignAgain, AlignFails, SkipAgent,
        RunAgent, RunCoder, RecordCode, AcceptStep, CommandSkipped, CommandPasses, CommandFix,
        CommandFails, RecordValidation, Review, Accept, Correct
<1>2. CASE DeliverStep
    BY <1>2 DEF DeliverStep, SyncSkipped, SyncRefused, RecordSync, Deliver, EnterDelivery,
                AutoCommit, AutoCommitFails, RecordCommit, Finish
<1>3. CASE Begin \/ RunFailed \/ WriteRefused \/ RunCancelled \/ Settle
    BY <1>3 DEF WritesCode, WorkflowInv, TypeOK, Begin, RunFailed, WriteRefused, RunCancelled,
                Settle
<1>4. CASE MoveHead
    BY <1>4 DEF MoveHead, WorkflowInv, TypeOK
<1>5. CASE \/ ApproveComplete \/ ApproveCommit \/ ApproveStep \/ Start \/ CancelQueued
           \/ Cancel \/ Crash \/ Requeue \/ Rests
    BY <1>5 DEF ApproveComplete, ApproveCommit, ApproveStep, ApproveRecord, ApproveDone, Start,
                CancelQueued, Cancel, Crash, Requeue, Rests, vars
<1> QED BY <1>1, <1>2, <1>3, <1>4, <1>5 DEF Next, RunStep

\* The patch that reaches the user's repository was passed by the gate, was
\* judged as it is, and in the first run lands on the commit it was made on.
THEOREM OnlyAcceptedReachesSource == Spec => OnlyAcceptedIsSynced
<1>1. ASSUME WorkflowInv, Next, source'.code = "tree", source.code # "tree"
      PROVE  /\ verdict = "pass" /\ {"diff", "acceptance"} \subseteq fresh
             /\ runs = 1 => tree.base = source.head
  <2>1. SyncApplied
    BY <1>1, OnlySyncPatches
  <2>2. pc = "sync" /\ opts.sync /\ loc.accepted /\ source.head = loc.head
    BY <2>1 DEF SyncApplied, MayApply
  <2>3. verdict = "pass"
    BY <1>1, <2>2 DEF WorkflowInv, VerdictIsKnown, Judging
  <2>4. {"diff", "acceptance"} \subseteq fresh
    BY <1>1, <2>2 DEF WorkflowInv, EvidenceGrows, Judged, Judging
  <2>5. runs = 1 => tree.base = source.head
    BY <1>1, <2>2 DEF WorkflowInv, FirstRun, BaseIsHead, InRun
  <2> QED BY <2>3, <2>4, <2>5
<1>2. WorkflowInv /\ [Next]_vars =>
          [source'.code = "tree" /\ source.code # "tree" =>
               /\ verdict = "pass" /\ {"diff", "acceptance"} \subseteq fresh
               /\ runs = 1 => tree.base = source.head]_vars
    BY <1>1
<1> QED BY <1>2, SpecWorkflowInv, PTL DEF Spec, OnlyAcceptedIsSynced

\* Only the two commits take the code out of the worktree.
LEMMA OnlyCommitsClean ==
    ASSUME WorkflowInv, Next, tree.dirty, ~tree'.dirty
    PROVE  AutoCommit \/ ApproveCommit
<1> USE DEF Keeps, durable, Raises
<1>1. CASE PrepareStep
  <2>1. tree.dir
    BY DEF WorkflowInv, TreeIsThere
  <2> QED BY <1>1, <2>1
          DEF PrepareStep, CreateWorktree, CreateWorktreeFails, RecordWorktree, RecordHead,
              CheckHead, CheckHeadFails, CopyLocal, CopyLocalFails, CommitBaseline,
              RecordSnapshot, WorkflowInv, TypeOK, Trees
<1>2. CASE AgentStep
    BY <1>2 DEF AgentStep, ReuseSpec, AlignSpec, WriteSpec, Assess, AlignAgain, AlignFails,
                SkipAgent, RunAgent, RunCoder, RecordCode, WritesCode, WorkflowInv, TypeOK, Trees
<1>3. CASE AcceptStep
    BY <1>3 DEF AcceptStep, CommandSkipped, CommandPasses, CommandFix, CommandFails,
                RecordValidation, Review, Accept, Correct, WritesCode, WorkflowInv, TypeOK, Trees
<1>4. CASE DeliverStep
    BY <1>4 DEF DeliverStep, SyncSkipped, SyncApplied, SyncRefused, RecordSync, Deliver,
                EnterDelivery, AutoCommitFails, RecordCommit, Finish
<1>5. CASE Begin \/ RunFailed \/ WriteRefused \/ RunCancelled \/ Settle
    BY <1>5 DEF Begin, RunFailed, WriteRefused, WritesCode, RunCancelled, Settle, WorkflowInv,
                TypeOK, Trees
<1>6. CASE \/ ApproveComplete \/ ApproveStep \/ Start \/ CancelQueued \/ Cancel
           \/ MoveHead \/ Crash \/ Requeue \/ Rests
    BY <1>6 DEF ApproveComplete, ApproveStep, ApproveRecord, ApproveDone, Start,
                CancelQueued, Cancel, MoveHead, Crash, Requeue, Rests, vars
<1> QED BY <1>1, <1>2, <1>3, <1>4, <1>5, <1>6 DEF Next, RunStep

\* What is committed, by a run or by an approval, is what diff, validation,
\* review, acceptance and manifest describe, and was not rejected.
THEOREM CommitsAreJudged == Spec => CommittedIsJudged
<1>1. ASSUME WorkflowInv, Next, tree.dirty, ~tree'.dirty
      PROVE  /\ Evidence \subseteq fresh
             /\ verdict # "no"
             /\ pc = "commit" => verdict = "pass"
  <2>1. CASE AutoCommit
    <3>1. pc = "commit" /\ Shown
      BY <2>1 DEF AutoCommit, Shown, Delivering
    <3>2. verdict = "pass"
      BY <1>1, <3>1 DEF WorkflowInv, VerdictIsKnown, Delivering
    <3> QED BY <1>1, <3>1, <3>2 DEF WorkflowInv, EvidenceGrows, Judged, Evidence
  <2>2. CASE ApproveCommit
    <3>1. Shown /\ verdict # "no" /\ pc # "commit"
      BY <1>1, <2>2
      DEF ApproveCommit, MayCommit, Shown, WorkflowInv, RowFollows, InRun
    <3> QED BY <1>1, <3>1 DEF WorkflowInv, EvidenceGrows, Judged, Evidence
  <2> QED BY <1>1, <2>1, <2>2, OnlyCommitsClean
<1>2. WorkflowInv /\ [Next]_vars =>
          [tree.dirty /\ ~tree'.dirty =>
               /\ Evidence \subseteq fresh
               /\ verdict # "no"
               /\ pc = "commit" => verdict = "pass"]_vars
    BY <1>1
<1> QED BY <1>2, SpecWorkflowInv, PTL DEF Spec, CommittedIsJudged

=============================================================================
