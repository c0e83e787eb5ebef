CONSTANTS
    s1 = s1
    c1 = c1
    d1 = d1
    d2 = d2
    Unset = Unset
    NoDelivery = NoDelivery
    Nobody = Nobody
    Signals = {s1}
    Channels = {c1}
    Deliveries = {d1}
    SignalOf <- OneSignal
    ChannelOf <- OneChannel
    RetryJobs = {r1, r2, r3, r4}
    ConfiguredRetries <- RetriesUnset
    GlobalMaxAttempts = 2
    FailureThreshold = 2
    MaxTries = 2
    MaxCrashes = 0
    MaxRaises = 0
    MaxDeletes = 0
SPECIFICATION Spec
PROPERTIES AcceptedRetriesAreRecorded
CHECK_DEADLOCK FALSE
