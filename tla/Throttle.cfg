CONSTANTS
    NoQuiet = NoQuiet
    Api = {a1, a2, a3, a4}
    Limited = {d1, d2}
    Night = n
    Lost = l
    Filtered = f
    Requests <- MCRequests
    Kind <- MCKind
    Gates <- MCGates
    ApiBuckets = {"key"}
    Buckets <- MCBuckets
    Limit <- MCLimit
    Length <- MCLength
    Signal <- MCSignal
    Filter <- MCFilter
    Quiet <- MCQuiet
    ZoneNames <- MCZoneNames
    Zones <- MCZones
    ClockAt <- MCClockAt
    MaxNow = 6
    Workloads <- MCWorkloads
    MaxStall = 2
SYMMETRY MCSymmetry
SPECIFICATION Spec
INVARIANTS WindowsAreKept TwiceTheLimitAtMost QuietHoursAreKept
PROPERTIES ImplementsFixedWindow
CHECK_DEADLOCK FALSE
