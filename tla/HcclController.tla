--------------------------- MODULE HcclController ---------------------------
(***************************************************************************)
(* The whole controller for one namespace/name of a job: the job side      *)
(* (JobController) makes and deletes, under the write lock of RwMutex, the *)
(* worker that the pod side (PodAgent) uses under the read lock.  Nothing  *)
(* else is shared in the process; the two informers are independent, so a  *)
(* pod may be seen long before its job, or after the job is gone.          *)
(*                                                                         *)
(* Kubernetes makes the pods of the job that is there now, and collects    *)
(* those of jobs that are gone.  The ConfigMap is there from the start;    *)
(* while no job is there the user may replace it by a new one.             *)
(***************************************************************************)
EXTENDS PodAgent

CONSTANTS
    Goroutine,      \* jobParallelism goroutines
    ConfigMapFirst, \* TRUE here
    MaxJobs,        \* bound: incarnations of the job
    MaxUpdates,     \* bound: updates of the job
    MaxFailedGets   \* bound: Gets of the ConfigMap by the job side that fail

ASSUME HcclBoundsAssumption ==
    /\ MaxJobs \in Nat /\ MaxUpdates \in Nat /\ MaxFailedGets \in Nat
    /\ ConfigMapFirst \in BOOLEAN

VARIABLES
    job, jobs, configMap, past, jobWatch, cacheIndexer, workqueue, jobPC, model,
                    \* as in JobController
    jobStart        \* jobStart[g]: the status that goroutine g read in the ConfigMap

Jobs == INSTANCE JobController

jobSide == <<job, jobs, configMap, past, jobWatch, cacheIndexer, workqueue, jobPC,
             model, jobStart>>
podSide == <<vars, pods, informer, queue, agent, spent>>
hcclVars == <<vars, allotted, used, owner, created, watch, store, waiting, ready, stage, item,
              businessWorker, spent, job, jobs, configMap, past, jobWatch,
              cacheIndexer, workqueue, jobPC, model, jobStart>>

HcclInit ==
    /\ AgentInit
    /\ Jobs!JobInit
    /\ configMap
    /\ jobStart = [g \in Goroutine |-> Initializing]

-----------------------------------------------------------------------------
(* Kubernetes and the user *)

JobChanges ==
    /\ Jobs!UpdateJob \/ Jobs!DeleteJob
    /\ UNCHANGED <<podSide, jobStart>>

\* A timestamp counts seconds: some of the pods that came last may have been
\* created in the second of the new job (which of them, is left open).
NewJob ==
    /\ Jobs!CreateJob
    /\ \E S \in SUBSET { p \in used : created[p] = jobs } :
         created' = [p \in Pod |-> IF p \in S THEN jobs + 1 ELSE created[p]]
    /\ UNCHANGED <<vars, allotted, used, owner, informer, queue, agent, spent, jobStart>>

NewConfigMap ==
    /\ job = Jobs!NoJob
    /\ ReplaceConfigMap
    /\ UNCHANGED <<pods, informer, queue, agent, businessWorker, spent, jobSide>>

\* Here a pod has its chips when it is first seen; PodAgent has the other case.
NewPod(p) ==
    /\ job # Jobs!NoJob
    /\ CreatePod(p, job.id, jobs, job.replicas, TRUE)
    /\ UNCHANGED jobSide

\* What makes the pods of a job that is gone, a ReplicaSet say, may not know yet
\* that it is.  Volcano's controller goes by the name of the job and does not
\* turn back to an earlier one for a pod.
LatePod(p) ==
    /\ \E j \in 1 .. jobs \ {job.id}, n \in Replicas :
         owner[p] <= j /\ CreatePod(p, j, jobs, n, TRUE)
    /\ UNCHANGED jobSide

\* A pod whose job is gone, or has fewer replicas now, is deleted.
Superfluous(p) ==
    \/ owner[p] # job.id
    \/ Cardinality({ q \in Live : owner[q] = job.id }) > job.replicas

CollectPod(p) ==
    /\ Superfluous(p)
    /\ PodGone(p)
    /\ UNCHANGED <<spent, jobSide>>

-----------------------------------------------------------------------------
(* Where the two sides meet *)

\* Faulty: the map of workers is changed without the lock.
NoLock == TRUE

\* The write lock is granted when no pod goroutine is inside doWork.
WriteLock == \A t \in Thread : stage[t] # "running"

\* The rank table is made from the status in the ConfigMap as it is now.
ReadConfigMap(g) ==
    /\ Jobs!CheckCMCreation(g)
    /\ jobStart' = IF jobPC'[g] = "install" THEN [jobStart EXCEPT ![g] = cm.status]
                   ELSE jobStart
    /\ UNCHANGED podSide

\* The worker the event handler made goes into the map, or is dropped.
InstallWorker(g) ==
    /\ WriteLock
    /\ Jobs!InstallWorker(g)
    /\ \/ /\ businessWorker = 0 \/ WorkerKind = "vcjob"
          /\ FreshWorker(jobStart[g], Jobs!ReplicasTotal(model[g].job))
          /\ UNCHANGED <<cmMu, pc, ctx, api>>
       \/ /\ businessWorker # 0 /\ WorkerKind # "vcjob"
          /\ UNCHANGED vars
    /\ jobStart' = [jobStart EXCEPT ![g] = Initializing]
    /\ UNCHANGED <<pods, informer, queue, agent, spent>>

DeleteWorker(g) ==
    /\ WriteLock
    /\ Jobs!DeleteWorker(g)
    /\ UNCHANGED <<podSide, jobStart>>

JobSteps(g) ==
    \/ /\ Jobs!Get(g) \/ Jobs!SyncJob(g) \/ Jobs!EventUpdate(g) \/ Jobs!EventAdd(g)
       /\ UNCHANGED <<podSide, jobStart>>
    \/ ReadConfigMap(g) \/ InstallWorker(g) \/ DeleteWorker(g)

JobInformer ==
    /\ Jobs!JobEvent \/ Jobs!JobRelist
    /\ UNCHANGED <<podSide, jobStart>>

\* The process dies and the next one lists jobs and pods anew.
RestartAll ==
    /\ Restart
    /\ Jobs!JobRestart
    /\ jobStart' = [g \in Goroutine |-> Initializing]

HcclNext ==
    \/ NewJob \/ JobChanges \/ NewConfigMap \/ JobInformer \/ RestartAll
    \/ \E p \in Pod : \/ NewPod(p) \/ LatePod(p) \/ CollectPod(p)
                       \/ (PodSteps(p) /\ UNCHANGED jobSide)
    \/ \E k \in waiting : Due(k) /\ UNCHANGED jobSide
    \/ \E t \in Thread : ThreadSteps(t) /\ UNCHANGED jobSide
    \/ \E g \in Goroutine : JobSteps(g)

HcclSpec == HcclInit /\ [][HcclNext]_hcclVars
(***************************************************************************)
(* Fairness: both informers deliver, the pods of the job are made, delays  *)
(* run out, and an idle goroutine takes an item and runs its handler to    *)
(* the end; a writer that waits for RwMutex keeps new readers out, so it   *)
(* gets the lock.                                                          *)
(***************************************************************************)
HcclFairness ==
    /\ WF_hcclVars(\E p \in Pod : NewPod(p))
    /\ WF_hcclVars(\E p \in Pod : WatchEvent(p) /\ UNCHANGED jobSide)
    /\ WF_hcclVars(\E k \in waiting : Due(k) /\ UNCHANGED jobSide)
    /\ WF_hcclVars(\E t \in Thread, k \in ready : Take(t, k) /\ UNCHANGED jobSide)
    /\ \A t \in Thread :
         WF_hcclVars((Dispatch(t) \/ Work(t) \/ Finish(t)) /\ UNCHANGED jobSide)
    /\ WF_hcclVars(JobInformer)
    /\ \A g \in Goroutine : WF_hcclVars(JobSteps(g))

HcclFairSpec == HcclSpec /\ HcclFairness

-----------------------------------------------------------------------------

\* What the code goes by: the uid of the job of a volcano pod, and for the other
\* kinds the second a pod was created in.
Incarnation(p) == IF WorkerKind = "vcjob" THEN owner[p] ELSE created[p]

\* No pod of a volcano job that was deleted gets into the table of a worker made
\* for a later one, however late its events are; of other kinds no pod that was
\* created in a second before that of the job, which is all the code can tell.
NoOlderPod ==
    businessWorker # 0 => \A p \in Pods(serverList) : Incarnation(p) >= businessWorker

\* A table has no pod of a job before its worker's: what the check of the code is
\* for.  It fails (README, other instances).
NoEarlierOwner ==
    businessWorker # 0 => \A p \in Pods(serverList) : owner[p] >= businessWorker

\* At rest, a name without a job has no worker, also when the controller was
\* restarted while the job came or went.
NoOrphanWorker == Jobs!NoOrphanWorker

\* At rest, a job that is there has a worker, if not always its own, unless the
\* last Get of its ConfigMap failed.
NoJobUnserved == Jobs!NoJobUnserved

\* The job has all its pods and every pod has its chips.
JobReady ==
    /\ job # Jobs!NoJob
    /\ Live = allotted
    /\ Cardinality(Live) = job.replicas
    /\ \A p \in Live : owner[p] = job.id

\* The first job of a name that stays, with its pods, gets the table of
\* exactly its pods published for good, whether the job or the pods are seen
\* first, and also when watches break meanwhile, as long as no call fails.
FirstJobServed ==
    /\ [](/\ jobs <= 1 /\ past.updates = 0 /\ spent.deletes = 0
          /\ faults = 0 /\ past.failedGets = 0)
    /\ <>[]JobReady
    => <>[](cm.status = Completed /\ Pods(cm.list) = Live)

\* A pod that is deleted leaves the published table while its job stays, as
\* long as the watches and the process stay up and no call of a handler fails.
LeavesWhileJobStays ==
    [](jobs <= 1 /\ spent.relists = 0 /\ spent.restarts = 0 /\ faults = 0) =>
        \A p \in Pod : annotation[p] = Gone ~>
                         p \notin Pods(cm.list) \/ p \in Live \/ job = Jobs!NoJob

\* A pod that is gone is in no worker's table once the pod side has handled its
\* events, whether its deletion was told before its job's worker was made, while
\* it was being cached, or between two incarnations of the process or the job.
GoneLeavesTable ==
    Settled /\ spent.relists = 0 /\ businessWorker # 0 => Pods(serverList) \subseteq Live

\* The first job is there, and nothing went wrong so far.
FirstLife ==
    /\ job # Jobs!NoJob /\ jobs = 1
    /\ spent.relists = 0 /\ spent.restarts = 0 /\ faults = 0

\* Nor is it in the ConfigMap of the first job, while that stays and the process
\* does, and no call has failed.
GoneLeavesConfigMap == Settled /\ FirstLife => Pods(cm.list) \subseteq Live

\* Nothing is left to do for either side.
AtRest ==
    /\ Jobs!Quiet
    /\ waiting = {} /\ ready = {}
    /\ \A p \in Pod : watch[p] = << >>
    /\ \A t \in Thread : stage[t] = "free"

\* A job that is there with its worker and its pods does not find another
\* job's table in its ConfigMap.
PublishedIsCurrent ==
    AtRest /\ JobReady /\ businessWorker = job.id /\ cm.status = Completed =>
        \A p \in Pods(cm.list) : owner[p] = job.id
=============================================================================
