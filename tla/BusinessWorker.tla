--------------------------- MODULE BusinessWorker ---------------------------
(***************************************************************************)
(* One business worker: the state of agent.WorkerInfo and the handlers the *)
(* pod threads run on it (pkg/ring-controller/agent/vcjobworker.go, and    *)
(* the scenario checks of the k8s-job and deployment workers).             *)
(*                                                                         *)
(* Threads are the goroutines of BusinessAgent.run.  A handler is cut at   *)
(* the places where another thread can see it: the status test before      *)
(* cmMu is taken, the lock, the calls to the API server and the unlock.    *)
(* The module is open: which pod a thread works on and what the snapshot   *)
(* of that pod says are inputs; PodAgent closes it.                        *)
(*                                                                         *)
(* dryRun is left out: NewBusinessAgent never sets it.  The backoff that   *)
(* Forget resets is left out: only the delay of a retry depends on it.     *)
(***************************************************************************)
EXTENDS RankTable

CONSTANTS
    Thread,         \* podParallelism goroutines
    Replicas,       \* the numbers of replicas a job may have
    WorkerKind,     \* "vcjob", "k8sjob" or "deployment"
    Snapshots,      \* the versions of pods the informer index may hand out
    MaxRankIndex,   \* maxRankIndex, 10000 in the code
    Gone,           \* no pod of that name in the API server
    MaxFaults       \* bound: API calls that fail or lose their answer

Initializing == "initializing"
Completed == "completed"
Status == {Initializing, Completed}

(***************************************************************************)
(* A version of a pod: its hccl/rankIndex annotation (one that is not a    *)
(* number is written as a negative one), its device annotation, whether    *)
(* a container asks for chips, whether its owner is the worker's job (uid),*)
(* whether it was created before that job, and its job version.            *)
(***************************************************************************)
Snapshot ==
    [pod : Pod, rank : Int \cup {None},
     device : {"absent", "invalid", "valid"}, usesChip : BOOLEAN,
     owned : BOOLEAN, older : BOOLEAN, version : {"bad", "old", "current"}]

ASSUME ReplicasAssumption == Replicas \subseteq Nat
ASSUME KindAssumption == WorkerKind \in {"vcjob", "k8sjob", "deployment"}
ASSUME SnapshotsAssumption == Snapshots \subseteq Snapshot
ASSUME MaxRankAssumption == MaxRankIndex \in Nat
ASSUME GoneAssumption == Gone \notin Int \cup {None}
ASSUME ThreadAssumption == None \notin Thread
ASSUME FaultsAssumption == MaxFaults \in Nat

VARIABLES
    status,         \* configmapData.Status
    serverList,     \* configmapData: v2 ServerList, v1 GroupList[0].InstanceList
    rankIndex,      \* the next rank index to hand out
    cachedPodNum,   \* pods counted against taskReplicasTotal
    taskReplicasTotal, \* the replicas of the job the worker was made for
    cmMu,           \* the thread that holds cmMu, or None
    pc,             \* pc[t]: where thread t is in the handler it runs
    ctx,            \* ctx[t]: that handler's arguments and locals, or None
    cm,             \* the ConfigMap rings-config-<job> in the API server
    annotation,     \* hccl/rankIndex of each pod in the API server, or Gone
    faults          \* API faults so far

worker == <<status, serverList, rankIndex, cachedPodNum, taskReplicasTotal>>
api == <<cm, annotation, faults>>
vars == <<status, serverList, rankIndex, cachedPodNum, taskReplicasTotal,
          cmMu, pc, ctx, cm, annotation, faults>>

PC == {"idle", "sync", "addLock", "annotate", "cache", "publish",
       "zeroPublish", "deleteLock", "deletePublish"}

Context == [pod : Pod, rank : Int \cup {None},
            device : {"absent", "invalid", "valid"}, tmp : Int \cup {None}]

\* replicas is a history variable: what the worker had when it wrote.
EmptyConfigMap == [status |-> Initializing, list |-> << >>, replicas |-> 0]

RankTableData == [status |-> status, list |-> serverList,
                  replicas |-> taskReplicasTotal]

Init ==
    /\ status = Initializing
    /\ serverList = << >>
    /\ rankIndex = 0
    /\ cachedPodNum = 0
    /\ taskReplicasTotal \in Replicas
    /\ cmMu = None
    /\ pc = [t \in Thread |-> "idle"]
    /\ ctx = [t \in Thread |-> None]
    /\ cm = EmptyConfigMap
    /\ annotation \in [Pod -> {None, Gone}]
    /\ faults = 0

-----------------------------------------------------------------------------
(* Steps of a thread *)

Goto(t, l) == pc' = [pc EXCEPT ![t] = l]

Return(t) ==
    /\ Goto(t, "idle")
    /\ ctx' = [ctx EXCEPT ![t] = None]

Unlock(t) == cmMu' = None

Lock(t) ==
    /\ cmMu = None
    /\ cmMu' = t

\* Faulty: whose pod it is is not asked.
ForeignNever(s) == FALSE

\* Scenario A: the pod belongs to another incarnation of the job.
Foreign(s) == IF WorkerKind = "vcjob" THEN ~s.owned ELSE s.older

\* Scenario B: the pod is of an earlier start of the volcano job, or its
\* version annotation does not parse.
OldVersion(s) == WorkerKind = "vcjob" /\ s.version # "current"

\* Scenario C: the chips of the pod are not allotted yet.
NotReady(s) == s.usesChip /\ s.device = "absent"

\* The event goes back into the queue.
Requeued(s) == Foreign(s) \/ OldVersion(s) \/ NotReady(s)

\* Faulty: the test of the status is forgotten.
DoWorkWhenCompleted(t, s) ==
    /\ pc[t] = "idle"
    /\ ~Requeued(s)
    /\ Goto(t, "sync")
    /\ ctx' = [ctx EXCEPT ![t] =
                 [pod |-> s.pod, rank |-> s.rank, device |-> s.device, tmp |-> None]]
    /\ UNCHANGED <<worker, cmMu, api>>

\* doWork up to the call of syncHandler: the test of the status is made
\* without cmMu.  An event that is requeued, or that finds the table
\* completed, changes nothing here.
DoWork(t, s) ==
    /\ pc[t] = "idle"
    /\ ~Requeued(s)
    /\ status # Completed
    /\ Goto(t, "sync")
    /\ ctx' = [ctx EXCEPT ![t] =
                 [pod |-> s.pod, rank |-> s.rank, device |-> s.device, tmp |-> None]]
    /\ UNCHANGED <<worker, cmMu, api>>

\* The worker was made for a job without replicas.
NothingToCache == taskReplicasTotal = 0 /\ cachedPodNum = taskReplicasTotal

\* A job without replicas is completed at once, and without cmMu; a pod
\* without the device annotation is an error.
SyncHandler(t) ==
    /\ pc[t] = "sync"
    /\ \/ /\ NothingToCache
          /\ status' = Completed
          /\ Goto(t, "zeroPublish")
          /\ UNCHANGED ctx
       \/ /\ ~NothingToCache
          /\ ctx[t].device = "absent"
          /\ Return(t)
          /\ UNCHANGED status
       \/ /\ ~NothingToCache
          /\ ctx[t].device # "absent"
          /\ Goto(t, "addLock")
          /\ UNCHANGED <<status, ctx>>
    /\ UNCHANGED <<serverList, rankIndex, cachedPodNum, taskReplicasTotal, cmMu, api>>

\* validate: no rank annotation, or one in range.
ValidRank(r) == r \in {None} \cup 0 .. MaxRankIndex

\* handleAddUpdateEvent takes cmMu and borrows the rank of an annotated pod.
AddLock(t) ==
    /\ pc[t] = "addLock"
    /\ Lock(t)
    /\ ValidRank(ctx[t].rank)
    /\ ctx' = [ctx EXCEPT ![t].tmp = rankIndex]
    /\ IF ctx[t].rank = None
       THEN Goto(t, "annotate") /\ UNCHANGED rankIndex
       ELSE Goto(t, "cache") /\ rankIndex' = ctx[t].rank
    /\ UNCHANGED <<status, serverList, cachedPodNum, taskReplicasTotal, api>>

\* Faulty: the early return keeps cmMu.
AddRejectedLocked(t) ==
    /\ pc[t] = "addLock"
    /\ Lock(t)
    /\ ~ValidRank(ctx[t].rank)
    /\ Return(t)
    /\ UNCHANGED <<worker, api>>

\* The same call, on a rank that does not parse or is out of range.
AddRejected(t) ==
    /\ pc[t] = "addLock"
    /\ cmMu = None
    /\ ~ValidRank(ctx[t].rank)
    /\ Return(t)
    /\ UNCHANGED <<worker, cmMu, api>>

\* An API call fails, before or after the server applied it.
Fault == faults < MaxFaults /\ faults' = faults + 1

\* updatePod writes the next rank index on the pod the API server has now.
Annotated(p) == annotation' = [annotation EXCEPT ![p] = rankIndex]

UpdatePod(t) ==
    LET p == ctx[t].pod
    IN  /\ pc[t] = "annotate"
        /\ \/ /\ annotation[p] # Gone
              /\ Annotated(p)
              /\ Goto(t, "cache")
              /\ UNCHANGED <<cmMu, ctx, faults>>
           \/ /\ annotation[p] = Gone
              /\ Unlock(t) /\ Return(t)
              /\ UNCHANGED <<annotation, faults>>
           \/ /\ annotation[p] # Gone
              /\ Fault
              /\ Annotated(p) \/ UNCHANGED annotation
              /\ Unlock(t) /\ Return(t)
        /\ UNCHANGED <<worker, cm>>

\* Faulty: the rank of an annotated pod is kept; the rank index stands still.
NextRankIndexLeaked(c) == rankIndex + 1
NextRankIndexStuck(c) == IF c.rank = None THEN rankIndex ELSE c.tmp

\* The rank index when CachePodInfo has accepted a pod, and when it has not.
NextRankIndex(c) == IF c.rank = None THEN rankIndex + 1 ELSE c.tmp
OldRankIndex(c) == IF c.rank = None THEN rankIndex ELSE c.tmp

\* Faulty: a pod that is in the table is cached again.
AcceptedAgain(c) == c.device = "valid"

\* CachePodInfo refuses a pod that is in the table and a device annotation
\* that does not pass CheckDeviceInfo.
Accepted(c) == c.device = "valid" /\ ~Cached(serverList, c.pod)

\* CachePodInfo, the count, and the test that ends the construction.
CachePod(t) ==
    LET c == ctx[t]
    IN  /\ pc[t] = "cache"
        /\ Accepted(c)
        /\ serverList' \in CachePodInfo(serverList, c.pod, rankIndex)
        /\ rankIndex' = NextRankIndex(c)
        /\ cachedPodNum' = cachedPodNum + 1
        /\ IF cachedPodNum' = taskReplicasTotal
           THEN status' = Completed /\ Goto(t, "publish") /\ UNCHANGED <<cmMu, ctx>>
           ELSE Unlock(t) /\ Return(t) /\ UNCHANGED status
        /\ UNCHANGED <<taskReplicasTotal, api>>

\* Faulty: the early return keeps cmMu.
CacheRejectedLocked(t) ==
    /\ pc[t] = "cache"
    /\ ~Accepted(ctx[t])
    /\ rankIndex' = OldRankIndex(ctx[t])
    /\ Return(t)
    /\ UNCHANGED <<status, serverList, cachedPodNum, taskReplicasTotal, cmMu, api>>

CacheRejected(t) ==
    /\ pc[t] = "cache"
    /\ ~Accepted(ctx[t])
    /\ rankIndex' = OldRankIndex(ctx[t])
    /\ Unlock(t) /\ Return(t)
    /\ UNCHANGED <<status, serverList, cachedPodNum, taskReplicasTotal, api>>

\* updateConfigMap: written; failed; or written with the answer lost.  The
\* rank index is set from the table only when the call succeeds.
Written ==
    /\ cm' = RankTableData
    /\ rankIndex' = GetPodNum(serverList)
    /\ UNCHANGED faults

NotAcknowledged ==
    /\ Fault
    /\ cm' \in {cm, RankTableData}
    /\ UNCHANGED rankIndex

UpdateConfigMap == Written \/ NotAcknowledged

Publish(t) ==
    /\ pc[t] = "publish"
    /\ UpdateConfigMap
    /\ Unlock(t) /\ Return(t)
    /\ UNCHANGED <<status, serverList, cachedPodNum, taskReplicasTotal, annotation>>

ZeroPublish(t) ==
    /\ pc[t] = "zeroPublish"
    /\ UpdateConfigMap
    /\ Return(t)
    /\ UNCHANGED <<status, serverList, cachedPodNum, taskReplicasTotal, cmMu, annotation>>

\* handleDeleteEvent, called by the agent for every delete event.
HandleDelete(t, p) ==
    /\ pc[t] = "idle"
    /\ Goto(t, "deleteLock")
    /\ ctx' = [ctx EXCEPT ![t] =
                 [pod |-> p, rank |-> None, device |-> "absent", tmp |-> None]]
    /\ UNCHANGED <<worker, cmMu, api>>

\* The status is reset before the table is searched.
DeleteLock(t) ==
    /\ pc[t] = "deleteLock"
    /\ Lock(t)
    /\ status' = Initializing
    /\ Cached(serverList, ctx[t].pod)
    /\ serverList' = RemovePodInfo(serverList, ctx[t].pod)
    /\ Goto(t, "deletePublish")
    /\ UNCHANGED <<rankIndex, cachedPodNum, taskReplicasTotal, ctx, api>>

\* Faulty: a pod that is not in the table is taken off the count.
DeleteRejectedCounted(t) ==
    /\ pc[t] = "deleteLock"
    /\ cmMu = None
    /\ ~Cached(serverList, ctx[t].pod)
    /\ status' = Initializing
    /\ cachedPodNum' = cachedPodNum - 1
    /\ Return(t)
    /\ UNCHANGED <<serverList, rankIndex, taskReplicasTotal, cmMu, api>>

DeleteRejected(t) ==
    /\ pc[t] = "deleteLock"
    /\ cmMu = None
    /\ ~Cached(serverList, ctx[t].pod)
    /\ status' = Initializing
    /\ Return(t)
    /\ UNCHANGED <<serverList, rankIndex, cachedPodNum, taskReplicasTotal, cmMu, api>>

\* Faulty: the count is never reduced.
DeletePublishUncounted(t) ==
    /\ pc[t] = "deletePublish"
    /\ UpdateConfigMap
    /\ Unlock(t) /\ Return(t)
    /\ UNCHANGED <<status, serverList, cachedPodNum, taskReplicasTotal, annotation>>

\* The pod is taken off the count only when the ConfigMap was updated.
DeletePublish(t) ==
    /\ pc[t] = "deletePublish"
    /\ \/ Written /\ cachedPodNum' = cachedPodNum - 1
       \/ NotAcknowledged /\ UNCHANGED cachedPodNum
    /\ Unlock(t) /\ Return(t)
    /\ UNCHANGED <<status, serverList, taskReplicasTotal, annotation>>

-----------------------------------------------------------------------------
(* The worker is made anew; the environment *)

\* RanktableFactory: an empty table with the status found in the ConfigMap
\* and the replicas found in the job.
FreshWorker(st, n) ==
    /\ status' = st
    /\ serverList' = << >>
    /\ rankIndex' = 0
    /\ cachedPodNum' = 0
    /\ taskReplicasTotal' = n

\* The job is deleted and created again.  The map of workers is replaced
\* under the write lock, so no thread is inside a handler.  The status was
\* read from the ConfigMap earlier and may be out of date.
NewWorker(st, n) ==
    /\ \A t \in Thread : pc[t] = "idle"
    /\ FreshWorker(st, n)
    /\ UNCHANGED <<cmMu, pc, ctx, api>>

\* The process dies at any point and the next one makes a new worker.
Crash(n) ==
    /\ FreshWorker(cm.status, n)
    /\ cmMu' = None
    /\ pc' = [t \in Thread |-> "idle"]
    /\ ctx' = [t \in Thread |-> None]
    /\ UNCHANGED api

\* A new job comes with a new ConfigMap.
ReplaceConfigMap ==
    /\ cm' = EmptyConfigMap
    /\ UNCHANGED <<worker, cmMu, pc, ctx, annotation, faults>>

\* The pod is deleted, or a pod of that name is created.
ReplacePod(p, r) ==
    /\ annotation' = [annotation EXCEPT ![p] = r]
    /\ UNCHANGED <<worker, cmMu, pc, ctx, cm, faults>>

AddSteps(t) ==
    \/ SyncHandler(t) \/ AddLock(t) \/ AddRejected(t) \/ UpdatePod(t)
    \/ CachePod(t) \/ CacheRejected(t) \/ Publish(t) \/ ZeroPublish(t)

DeleteSteps(t) == DeleteLock(t) \/ DeleteRejected(t) \/ DeletePublish(t)

\* A step of a handler that has begun.
Step(t) == AddSteps(t) \/ DeleteSteps(t)

Environment ==
    \/ \E st \in Status, n \in Replicas : NewWorker(st, n)
    \/ \E n \in Replicas : Crash(n)
    \/ ReplaceConfigMap
    \/ \E p \in Pod : ReplacePod(p, None) \/ ReplacePod(p, Gone)

Next ==
    \/ \E t \in Thread : \/ Step(t)
                         \/ \E s \in Snapshots : DoWork(t, s)
                         \/ \E p \in Pod : HandleDelete(t, p)
    \/ Environment

Spec == Init /\ [][Next]_vars

-----------------------------------------------------------------------------
(* What holds whatever the snapshots say and whichever calls fail *)

\* Types; the count never goes below 0.
TypeOK ==
    /\ status \in Status
    /\ serverList \in Seq(Entry)
    /\ rankIndex \in Int
    /\ cachedPodNum \in Nat
    /\ taskReplicasTotal \in Nat
    /\ cmMu \in Thread \cup {None}
    /\ pc \in [Thread -> PC]
    /\ ctx \in [Thread -> Context \cup {None}]
    /\ cm \in [status : Status, list : Seq(Entry), replicas : Nat]
    /\ annotation \in [Pod -> Int \cup {None, Gone}]
    /\ faults \in 0 .. MaxFaults

\* No interleaving of handlers puts a pod into the table, or into the
\* published table, twice.
DistinctPods == NoPodTwice(serverList) /\ NoPodTwice(cm.list)

\* When no handler is at work the count is the number of pods in the table,
\* except for one too many for each delete whose ConfigMap update failed.
CountDrift ==
    cmMu = None => cachedPodNum - Len(serverList) \in 0 .. faults

\* A table published as completed never lists more pods than the worker's job
\* had replicas, although threads that passed the status test in time may
\* cache more than that; and it lacks at most one for each failed API call.
CompletedCount ==
    cm.status = Completed => cm.replicas - Len(cm.list) \in 0 .. faults

\* A v2 table published as completed is in the order of its rank ids,
\* although RemovePodInfo leaves the table unordered.
CompletedSorted ==
    JSONVersion = "v2" /\ cm.status = Completed => Sorted(cm.list)

(***************************************************************************)
(* The inductive invariant behind the three.  A thread between Lock and    *)
(* Unlock owns cmMu; a handler that is about to publish still finds the    *)
(* status, the count and the order it left; and the table lags the count   *)
(* by the delete under way and by the deletes that failed.                 *)
(***************************************************************************)
Locked == {"annotate", "cache", "publish", "deletePublish"}

MutexInv == \A t \in Thread : pc[t] \in Locked <=> cmMu = t

ContextInv ==
    \A t \in Thread :
        /\ pc[t] # "idle" => ctx[t] \in Context
        /\ pc[t] \in {"annotate", "cache"} => ctx[t].tmp \in Int

\* The rank a handler has borrowed is the one its pod brought.
BorrowInv ==
    \A t \in Thread :
        /\ pc[t] = "annotate" => ctx[t].rank = None
        /\ pc[t] = "cache" /\ ctx[t].rank # None =>
              rankIndex = ctx[t].rank /\ rankIndex \in 0 .. MaxRankIndex

PublishInv ==
    \A t \in Thread :
        /\ pc[t] = "publish" => /\ status = Completed
                                /\ cachedPodNum = taskReplicasTotal
                                /\ JSONVersion = "v2" => Sorted(serverList)
        /\ pc[t] = "deletePublish" => status = Initializing

\* A worker without replicas never gets as far as cmMu, except to reset.
ZeroInv ==
    /\ taskReplicasTotal = 0 =>
         /\ cachedPodNum = 0
         /\ serverList = << >>
         /\ \A t \in Thread : pc[t] \in {"idle", "sync", "zeroPublish", "deleteLock"}
    /\ \A t \in Thread : pc[t] = "zeroPublish" => taskReplicasTotal = 0

Leaving == IF \E t \in Thread : pc[t] = "deletePublish" THEN 1 ELSE 0

CountInv == cachedPodNum - Len(serverList) - Leaving \in 0 .. faults

IInv ==
    /\ TypeOK
    /\ DistinctPods
    /\ MutexInv
    /\ ContextInv
    /\ BorrowInv
    /\ PublishInv
    /\ ZeroInv
    /\ CountInv
    /\ CompletedCount
    /\ CompletedSorted

\* The rank index to hand out next, seen past the one that a handler has
\* borrowed from a pod's annotation.
Borrowing(t) == pc[t] = "cache" /\ ctx[t].rank # None

NextRank ==
    IF \E t \in Thread : Borrowing(t)
    THEN LET t == CHOOSE t \in Thread : Borrowing(t) IN ctx[t].tmp
    ELSE rankIndex

At(l) == \E t \in Thread : pc[t] = l

Pending ==
    IF At("publish") THEN "add" ELSE IF At("deletePublish") THEN "delete" ELSE "none"

Published == [status |-> cm.status, table |-> Range(cm.list)]

Atomic == INSTANCE AtomicWorker WITH
    table <- Range(serverList), count <- cachedPodNum, replicas <- taskReplicasTotal,
    next <- NextRank, pending <- Pending, published <- Published

\* The handlers of all threads take effect as if they ran one at a time: the
\* status test outside cmMu, the rank that is borrowed by overwriting
\* rankIndex, and the order RemovePodInfo disturbs are not seen from outside.
ImplementsAtomic == Atomic!AtomicSpec

\* With one pod thread, the default, a completed table stays as it is until a
\* delete event takes the status back: the status test needs no cmMu then.
FrozenWhenCompleted ==
    [][status = Completed /\ status' = Completed /\ serverList' # serverList
         => serverList' = << >>]_vars

\* Every handler ends, with cmMu released on each of its paths.
HandlerTerminates ==
    \A t \in Thread : pc[t] # "idle" ~> pc[t] = "idle"
=============================================================================
