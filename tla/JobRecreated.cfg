CONSTANTS
    g1 = g1
    g2 = g2
    Goroutine = {g1}
    WorkerKind = "k8sjob"
    ConfigMapFirst = FALSE
    MaxJobs = 2
    MaxFailedGets = 0
    MaxUpdates = 0
    MaxRelists = 0
    MaxRestarts = 0
    Replicas = {1}
SPECIFICATION JobSpec
INVARIANT NoStaleWorker
CHECK_DEADLOCK FALSE
