CONSTANTS
    None = None
    Gone = Gone
    p1 = p1
    p2 = p2
    p3 = p3
    t1 = t1
    t2 = t2
    Pod = {p1, p2}
    Thread = {t1, t2}
    Replicas = {0, 1}
    WorkerKind = "vcjob"
    JSONVersion = "v2"
    Devices <- MixedChips
    Snapshots <- AnySnapshot
    MaxRankIndex = 2
    MaxFaults = 1
SPECIFICATION Spec
SYMMETRY Symmetry
INVARIANT TypeOK DistinctPods CountDrift CompletedCount IInv
PROPERTY ImplementsAtomic
