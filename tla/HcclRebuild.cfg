CONSTANTS
    None = None
    Gone = Gone
    p1 = p1
    p2 = p2
    p3 = p3
    t1 = t1
    t2 = t2
    g1 = g1
    Pod = {p1}
    Thread = {t1}
    Goroutine = {g1}
    Replicas = {1}
    WorkerKind = "deployment"
    JSONVersion = "v1"
    Devices <- OneChip
    Snapshots <- AgentSnapshots
    MaxRankIndex = 9
    MaxFaults = 0
    MaxDeletes = 1
    MaxRelists = 0
    MaxRestarts = 1
    ConfigMapFirst = TRUE
    MaxJobs = 2
    MaxFailedGets = 1
    MaxUpdates = 1
SPECIFICATION HcclSpec
INVARIANT NoOlderPod NoOrphanWorker NoJobUnserved GoneLeavesTable
PROPERTY Spec
CHECK_DEADLOCK FALSE
