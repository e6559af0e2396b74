SPECIFICATION Spec
CONSTANTS
    Tasks = {t1}
    Workers = {w1, w2}
    Requests = {r1, r2}
    LeaseTicks = 2
    MaxAttempts = 2
    RetryBase = 1
    Stages = 1
    MaxStarts = 2
    AttemptCap = 3
    MaxFaults = 1
    Faults = {"thread", "renewer", "event"}
    Punctual = FALSE
    t1 = t1
    w1 = w1
    w2 = w2
    r1 = r1
    r2 = r2
SYMMETRY Symmetry
INVARIANT TypeOK
INVARIANT LeaseHeldByItsWorker
INVARIANT QueuedHasJob
INVARIANT SingleExecution
INVARIANT RunningHasLease
PROPERTY FinishedJobStaysFinished
