SPECIFICATION FairSpec
CONSTANTS
    Tasks <- OneTask
    MaxAttempts = 2
    MaxStarts = 1
    MaxCancels = 1
    MaxConns = 1
    MaxCrashes = 0
    MaxExpiries = 1
    MaxBeats = 1
PROPERTY ApprovedIsFinal
PROPERTY TasksComeBack
