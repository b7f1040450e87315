CONSTANTS
    g1 = g1
    g2 = g2
    Goroutine = {g1, g2}
    WorkerKind = "k8sjob"
    ConfigMapFirst = TRUE
    MaxJobs = 2
    MaxFailedGets = 1
    MaxUpdates = 2
    MaxRelists = 1
    MaxRestarts = 1
    Replicas = {1, 2}
SPECIFICATION JobFairSpec
INVARIANT JobTypeOK FirstJobHasWorker
PROPERTY WorkerNotReplaced JobGetsWorker
CHECK_DEADLOCK FALSE
