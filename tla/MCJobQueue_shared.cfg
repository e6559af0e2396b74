SPECIFICATION FairSpec
CONSTANTS
    Tasks = {t1, t2}
    Workers = {w1}
    Requests = {r1}
    LeaseTicks = 3
    MaxAttempts = 2
    RetryBase = 1
    Stages = 1
    MaxStarts = 2
    AttemptCap = 4
    MaxFaults = 1
    Faults = {"crash"}
    Punctual = TRUE
    t1 = t1
    t2 = t2
    w1 = w1
    r1 = r1
PROPERTY TasksSettle
PROPERTY ImplementsLeaseService
