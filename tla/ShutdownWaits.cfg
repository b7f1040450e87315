CONSTANTS
    MaxFiles = 1
    Params <- Commands
    ThreadId = {1}
    MaxSignals = 2
SPECIFICATION LifeFairSpec
INVARIANT ShutdownWaits
CHECK_DEADLOCK FALSE
