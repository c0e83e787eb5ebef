CONSTANTS
    Backtests = {b1,b2}
    MonthlyLimit = 1
    MaxTries = 2
    MaxCrashes = 1
    MaxTimeouts = 1
    MaxErrors = 1
SPECIFICATION FairSpec
INVARIANTS ResultIsStoredOnce StoppedStaysStopped
PROPERTIES QueuedIsResolved NobodyWaitsForEver
CHECK_DEADLOCK FALSE
