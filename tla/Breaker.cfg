CONSTANTS
    Calls = {c1,c2}
    FailureThreshold = 3
    RecoveryTimeout = 2
    WindowSeconds = 3
    MaxCount = 6
    MaxCrashes = 1
SPECIFICATION FairSpec
INVARIANTS CountIsRun FullCountHasWaited
PROPERTIES OpenLapses
