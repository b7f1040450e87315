CONSTANTS
    MaxFiles = 2
    Params <- Commands
    ThreadId = {1}
    MaxSignals = 2
SPECIFICATION LifeFairSpec
INVARIANT LifeTypeOK OverSyncedCaches SuccessMeansServed FailureStartsNoJobs ModesPending
PROPERTY SignalEndsProcess GoroutinesServe ModesSettle
CHECK_DEADLOCK FALSE
