CONSTANTS
    None = None
    Gone = Gone
    p1 = p1
    p2 = p2
    p3 = p3
    t1 = t1
    t2 = t2
    g1 = g1
    Pod = {p1, p2}
    Thread = {t1}
    Goroutine = {g1}
    Replicas = {1}
    WorkerKind = "deployment"
    JSONVersion = "v1"
    Devices <- OneChip
    Snapshots <- AgentSnapshots
    MaxRankIndex = 9
    MaxFaults = 0
    MaxDeletes = 0
    MaxRelists = 0
    MaxRestarts = 0
    ConfigMapFirst = TRUE
    MaxJobs = 2
    MaxFailedGets = 0
    MaxUpdates = 0
SPECIFICATION HcclSpec
SYMMETRY Symmetry
INVARIANT PublishedIsCurrent
CHECK_DEADLOCK FALSE
