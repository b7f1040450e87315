CONSTANTS
    None = None
    Gone = Gone
    p1 = p1
    p2 = p2
    p3 = p3
    t1 = t1
    t2 = t2
    g1 = g1
    Pod = {p1, p2}
    Thread = {t1}
    Goroutine = {g1}
    Replicas = {1}
    WorkerKind = "k8sjob"
    JSONVersion = "v2"
    Devices <- OneChip
    Snapshots <- AgentSnapshots
    MaxRankIndex = 9
    MaxFaults = 0
    MaxDeletes = 1
    MaxRelists = 1
    MaxRestarts = 0
    ConfigMapFirst = TRUE
    MaxJobs = 1
    MaxFailedGets = 0
    MaxUpdates = 0
SPECIFICATION HcclFairSpec
INVARIANT AgentTypeOK GoneLeavesConfigMap
PROPERTY FirstJobServed LeavesWhileJobStays FrozenWhenCompleted
CHECK_DEADLOCK FALSE
