CONSTANTS
    None = None
    Gone = Gone
    p1 = p1
    p2 = p2
    p3 = p3
    t1 = t1
    t2 = t2
    Pod = {p1, p2}
    Thread = {t1, t2}
    Replicas = {2}
    WorkerKind = "k8sjob"
    JSONVersion = "v2"
    Devices <- TwoChips
    Snapshots <- AgentSnapshots
    MaxRankIndex = 9
    MaxFaults = 0
    MaxDeletes = 0
    MaxRelists = 0
    MaxRestarts = 1
SPECIFICATION BuildFairSpec
INVARIANT FirstBuildRanks CompletedSorted SettledIsServed
PROPERTY BuildCompletes HandlerTerminates
CHECK_DEADLOCK FALSE
