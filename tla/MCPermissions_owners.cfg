SPECIFICATION FairSpec
CONSTANTS
    MaxRequests = 2
    Deciders = {d1, d2}
    MaxAttempts = 2
    MaxLeases = 2
    MaxReports = 1
    MaxFaults = 1
    d1 = d1
    d2 = d2
INVARIANT TypeOK
INVARIANT WaitingCanBeDecided
INVARIANT DenialEndsTask
PROPERTY DecisionArrives
