SPECIFICATION Spec
CONSTANTS
    Tasks <- OneTask
    MaxAttempts = 1
    MaxStarts = 1
    MaxCancels = 0
    MaxConns = 2
    MaxCrashes = 1
    MaxExpiries = 0
    MaxBeats = 0
INVARIANT TypeOK
INVARIANT NothingLost
INVARIANT AtMostOnce
INVARIANT ReplayIsComplete
