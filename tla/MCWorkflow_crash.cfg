SPECIFICATION FairSpec
CONSTANTS
    Options <- AllOptions
    MaxProduct = 2
    MaxAccept = 1
    MaxFixes = 1
    MaxRuns = 2
    MaxCrashes = 1
    MaxHeads = 2
INVARIANT TypeOK
INVARIANT DeliveredIsJudged
INVARIANT SyncReportIsTrue
PROPERTY OnlyAcceptedIsSynced
PROPERTY CommittedIsJudged
PROPERTY RunEnds
