SPECIFICATION FairSpec
CONSTANTS
    Tasks = {t1}
    Workers = {w1, w2}
    Requests = {r1}
    LeaseTicks = 3
    MaxAttempts = 2
    RetryBase = 1
    Stages = 1
    MaxStarts = 2
    AttemptCap = 5
    MaxFaults = 1
    Faults = {"crash", "thread", "renewer", "request", "event"}
    Punctual = TRUE
    t1 = t1
    w1 = w1
    w2 = w2
    r1 = r1
INVARIANT AttemptsPerFault
PROPERTY TasksSettle
