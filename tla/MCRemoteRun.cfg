SPECIFICATION Spec
CONSTANTS
    MaxAttempts = 2
    MaxRows = 2
    MaxStarts = 1
    MaxFaults = 2
    MaxTokens = 1
CHECK_DEADLOCK FALSE
INVARIANT TypeOK
INVARIANT DeliveredIsShown
INVARIANT RetryFindsWorktree
