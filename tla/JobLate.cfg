CONSTANTS
    g1 = g1
    g2 = g2
    Goroutine = {g1}
    WorkerKind = "k8sjob"
    ConfigMapFirst = FALSE
    MaxJobs = 1
    MaxFailedGets = 0
    MaxUpdates = 0
    MaxRelists = 0
    MaxRestarts = 0
    Replicas = {1}
SPECIFICATION JobFairSpec
PROPERTY JobGetsWorker
CHECK_DEADLOCK FALSE
