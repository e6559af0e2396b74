SPECIFICATION Spec
CONSTANTS
    Tasks <- OneTask
    MaxAttempts = 1
    MaxStarts = 1
    MaxCancels = 0
    MaxConns = 2
    MaxCrashes = 0
    MaxExpiries = 0
    MaxBeats = 0
INVARIANT NoOrphan
