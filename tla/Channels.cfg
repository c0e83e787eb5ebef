CONSTANTS
    Raised = Raised
    Gone = Gone
    Chans <- MCChans
    TypeOf <- MCTypeOf
    KeysOf <- MCKeysOf
    Subs <- MCSubs
    ChannelOf <- MCChannelOf
    Sessions <- MCSessions
    Workloads <- MCWorkloads
SPECIFICATION Spec
INVARIANTS SealedUntilRead AlertsAreConsecutive OneBroadcastPerChannel
PROPERTIES OnlyFirstReadersUndoUpdates
CHECK_DEADLOCK FALSE
