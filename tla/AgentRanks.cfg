CONSTANTS
    None = None
    Gone = Gone
    p1 = p1
    p2 = p2
    p3 = p3
    t1 = t1
    t2 = t2
    Pod = {p1, p2, p3}
    Thread = {t1}
    Replicas = {2}
    WorkerKind = "k8sjob"
    JSONVersion = "v2"
    Devices <- OneChip
    Snapshots <- AgentSnapshots
    MaxRankIndex = 9
    MaxFaults = 0
    MaxDeletes = 1
    MaxRelists = 0
    MaxRestarts = 0
SPECIFICATION AgentSpec
SYMMETRY Symmetry
INVARIANT CompletedRanksDistinct
CHECK_DEADLOCK FALSE
