SPECIFICATION Spec
CONSTANTS
    Approvers = {a1, a2}
    Publishers = {p1, p2}
    Bases = {b1, b2}
    WorktreeKeep = 0
    ExecutionKeep = 1
    MaxNow = 2
    a1 = a1
    a2 = a2
    p1 = p1
    p2 = p2
    b1 = b1
    b2 = b2
SYMMETRY Symmetry
INVARIANT TypeOK
INVARIANT CommittedOnce
INVARIANT OnlyAcceptedIsCommitted
INVARIANT MergeRequestShowsResult
INVARIANT RunKeepsItsWorktree
