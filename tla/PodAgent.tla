------------------------------ MODULE PodAgent ------------------------------
(***************************************************************************)
(* The pod side of the controller: the API server's pods, the informer,    *)
(* the rate limited work queue and the goroutines of BusinessAgent         *)
(* (pkg/ring-controller/agent/businessagent.go), around the one worker of  *)
(* BusinessWorker.  It closes that module: every snapshot a handler works  *)
(* on is a version of a pod that the API server really had.                *)
(*                                                                         *)
(* One name of a job.  Jobs of that name come one after another and are    *)
(* numbered; a pod belongs to one of them.  Pods and their annotations     *)
(* change in the API server; each change goes down the pod's watch; the    *)
(* informer puts it into its store and a key pod/event into the queue; a   *)
(* thread takes a key, reads the store, and only then looks for the worker.*)
(* AgentSpec has one job, whose replicas are those Init gives the worker;  *)
(* HcclController puts the job side in its place.                          *)
(***************************************************************************)
EXTENDS BusinessWorker, FiniteSets

CONSTANTS
    MaxDeletes,     \* bound: pods deleted
    MaxRelists,     \* bound: broken watches
    MaxRestarts     \* bound: restarts of the controller

ASSUME AgentBoundsAssumption ==
    MaxDeletes \in Nat /\ MaxRelists \in Nat /\ MaxRestarts \in Nat

VARIABLES
    allotted,       \* the pods whose chips the device plugin has written down
    used,           \* the pod names that were used so far
    owner,          \* owner[p]: the job that the last pod of that name is of
    created,        \* created[p]: the last job that was created in the same second as
                    \* that pod, or before it
    watch,          \* watch[p]: changes of p on their way to the informer
    store,          \* PodsIndexer: the version of p it holds, or None
    waiting,        \* keys whose AddRateLimited delay is running
    ready,          \* keys that can be taken from the work queue
    stage,          \* stage[t]: free, fetched (key and pod read), running
    item,           \* item[t]: the key and the version of the pod, or None
    businessWorker, \* the job BusinessWorker[namespace/job] was made for, or 0
    spent           \* deletes, relists and restarts so far

queue == <<waiting, ready>>
informer == <<watch, store>>
agent == <<stage, item>>
pods == <<allotted, used, owner, created>>
agentVars == <<vars, allotted, used, owner, created, watch, store, waiting, ready, stage,
               item, businessWorker, spent>>

EventType == {"add", "update", "delete"}
Key == [pod : Pod, type : EventType]
Version == [rank : Int \cup {None}, device : {"absent", "valid"}, job : Nat]

ASSUME NoVersionAssumption == None \notin Version

Live == { p \in Pod : annotation[p] # Gone }

AgentInit ==
    /\ Init
    /\ annotation = [p \in Pod |-> Gone]
    /\ allotted = {}
    /\ used = {}
    /\ owner = [p \in Pod |-> 0]
    /\ created = [p \in Pod |-> 0]
    /\ watch = [p \in Pod |-> << >>]
    /\ store = [p \in Pod |-> None]
    /\ waiting = {}
    /\ ready = {}
    /\ stage = [t \in Thread |-> "free"]
    /\ item = [t \in Thread |-> None]
    /\ businessWorker = 0
    /\ spent = [deletes |-> 0, relists |-> 0, restarts |-> 0]

-----------------------------------------------------------------------------
(* The API server: pods come, get their chips, and go *)

\* The version of a pod of job j, given the annotation and the chips it has.
VersionOf(rank, hasChips, j) ==
    IF rank = Gone THEN None
    ELSE [rank |-> rank, device |-> IF hasChips THEN "valid" ELSE "absent", job |-> j]

CurrentVersion(p) == VersionOf(annotation[p], p \in allotted, owner[p])

\* A change of p is on its way to the informer.
Notify(p, v) == watch' = [watch EXCEPT ![p] = Append(@, v)]

\* Kubernetes keeps n pods of job j.  Deployments and k8s jobs never use a
\* pod name again, a volcano job does.  The device plugin may be done before
\* the informer sees the pod.
\*
\* A creationTimestamp counts seconds, and that of a pod is only compared with
\* that of a job, so it is written as the number of a job: c, the last one
\* there is, is not younger than the pod.
CreatePod(p, j, c, n, hasChips) ==
    /\ p \notin Live
    /\ Cardinality({ q \in Live : owner[q] = j }) < n
    /\ p \in used => WorkerKind = "vcjob"
    /\ ReplacePod(p, None)
    /\ used' = used \cup {p}
    /\ owner' = [owner EXCEPT ![p] = j]
    /\ created' = [created EXCEPT ![p] = c]
    /\ allotted' = IF hasChips THEN allotted \cup {p} ELSE allotted
    /\ Notify(p, VersionOf(None, hasChips, j))
    /\ UNCHANGED <<store, queue, agent, businessWorker, spent>>

\* The device plugin writes the ascend-910-configuration annotation.
AllotDevices(p) ==
    /\ p \in Live \ allotted
    /\ allotted' = allotted \cup {p}
    /\ Notify(p, VersionOf(annotation[p], TRUE, owner[p]))
    /\ UNCHANGED <<vars, used, owner, created, store, queue, agent, businessWorker, spent>>

\* Faulty: the next pod of that name is taken to have its chips.
PodGoneKept(p) ==
    /\ p \in Live
    /\ ReplacePod(p, Gone)
    /\ Notify(p, None)
    /\ UNCHANGED <<pods, store, queue, agent, businessWorker>>

PodGone(p) ==
    /\ p \in Live
    /\ ReplacePod(p, Gone)
    /\ allotted' = allotted \ {p}
    /\ Notify(p, None)
    /\ UNCHANGED <<used, owner, created, store, queue, agent, businessWorker>>

DeletePod(p) ==
    /\ spent.deletes < MaxDeletes
    /\ spent' = [spent EXCEPT !.deletes = @ + 1]
    /\ PodGone(p)

-----------------------------------------------------------------------------
(* The informer and the work queue *)

\* Faulty: there is no DeleteFunc.
EventOfNoDelete(old, new) == IF old = None THEN "add" ELSE "update"

EventOf(old, new) ==
    IF new = None THEN "delete" ELSE IF old = None THEN "add" ELSE "update"

\* One notification: the store is updated, then the handler enqueues a key.
\* Two equal versions (a resync, too) are dropped by reflect.DeepEqual.
WatchEvent(p) ==
    /\ watch[p] # << >>
    /\ store' = [store EXCEPT ![p] = Head(watch[p])]
    /\ watch' = [watch EXCEPT ![p] = Tail(@)]
    /\ waiting' = IF Head(watch[p]) = store[p] THEN waiting
                  ELSE waiting \cup {[pod |-> p, type |-> EventOf(store[p], Head(watch[p]))]}
    /\ UNCHANGED <<vars, pods, ready, agent, businessWorker, spent>>

\* The watch breaks and the informer lists again: it sees the last version
\* only.  A pod that is gone arrives as DeletedFinalStateUnknown, which has
\* no metadata: nameGenerationFunc fails and enqueuePod drops the event.
Relist(p) ==
    /\ watch[p] # << >>
    /\ spent.relists < MaxRelists
    /\ spent' = [spent EXCEPT !.relists = @ + 1]
    /\ watch' = [watch EXCEPT ![p] = << >>]
    /\ LET v == CurrentVersion(p)
       IN  /\ store' = [store EXCEPT ![p] = v]
           /\ waiting' = IF v \in {store[p], None} THEN waiting
                         ELSE waiting \cup {[pod |-> p, type |-> EventOf(store[p], v)]}
    /\ UNCHANGED <<vars, pods, ready, agent, businessWorker>>

\* A delay is over.
Due(k) ==
    /\ k \in waiting
    /\ waiting' = waiting \ {k}
    /\ ready' = ready \cup {k}
    /\ UNCHANGED <<vars, pods, informer, agent, businessWorker, spent>>

-----------------------------------------------------------------------------
(* A thread: processNextWorkItem and doWork *)

Processing == { item[t].key : t \in { u \in Thread : stage[u] # "free" } }

\* Get, which never hands out a key that is being processed, and GetByKey:
\* the pod is read before the map of workers is locked.
Take(t, k) ==
    /\ stage[t] = "free"
    /\ k \in ready \ Processing
    /\ ready' = ready \ {k}
    /\ stage' = [stage EXCEPT ![t] = "fetched"]
    /\ item' = [item EXCEPT ![t] = [key |-> k, pod |-> store[k.pod]]]
    /\ UNCHANGED <<vars, pods, informer, waiting, businessWorker, spent>>

\* Done, and AddRateLimited when doWork answered false.
Release(t) ==
    /\ stage' = [stage EXCEPT ![t] = "free"]
    /\ item' = [item EXCEPT ![t] = None]

Forget(t) ==
    /\ Release(t)
    /\ UNCHANGED <<vars, queue>>

\* Faulty: the answer false of doWork is not looked at.
RequeueForgets(t) == Forget(t)

Requeue(t) ==
    /\ Release(t)
    /\ waiting' = waiting \cup {item[t].key}
    /\ UNCHANGED <<vars, ready>>

\* The handler runs on, under RLock of RwMutex.
Enter(t) ==
    /\ stage' = [stage EXCEPT ![t] = "running"]
    /\ UNCHANGED <<item, queue>>

\* What the scenario checks find out about version v of pod p, created at c:
\* whether it is of job j, the one of the worker (uid, for volcano jobs), and
\* whether it was created in a second before that of job j (for the others,
\* whose pods' names are not used again: all versions have the same c).
SnapshotOf(p, v, c, j) ==
    [pod |-> p, rank |-> v.rank, device |-> v.device, usesChip |-> TRUE,
     owned |-> v.job = j, older |-> c < j, version |-> "current"]

\* BusinessAgent.doWork from RLock on: no worker yet; a delete event; a pod
\* that is gone; and the scenario checks and the status of Worker.doWork.
Dispatch(t) ==
    LET key == item[t].key
        v == item[t].pod
        s == SnapshotOf(key.pod, v, created[key.pod], businessWorker)
        event == key.type
        hasWorker == businessWorker # 0
    IN  /\ stage[t] = "fetched"
        /\ \/ ~hasWorker /\ v = None /\ Forget(t)
           \/ ~hasWorker /\ v # None /\ Requeue(t)
           \/ hasWorker /\ event = "delete" /\ Enter(t) /\ HandleDelete(t, key.pod)
           \/ hasWorker /\ event # "delete" /\ v = None /\ Forget(t)
           \/ /\ hasWorker /\ event # "delete" /\ v # None
              /\ \/ Requeued(s) /\ Requeue(t)
                 \/ ~Requeued(s) /\ status = Completed /\ Forget(t)
                 \/ Enter(t) /\ DoWork(t, s)
        /\ UNCHANGED <<pods, informer, businessWorker, spent>>

\* A step of the worker; a new annotation goes down the pod's watch.
Work(t) ==
    /\ Step(t)
    /\ UNCHANGED <<pods, store, queue, agent, businessWorker, spent>>
    /\ watch' = [p \in Pod |->
                   IF annotation'[p] = annotation[p] THEN watch[p]
                   ELSE Append(watch[p], CurrentVersion(p)')]

\* The handler has returned.
Finish(t) ==
    /\ stage[t] = "running" /\ pc[t] = "idle"
    /\ Forget(t)
    /\ UNCHANGED <<pods, informer, businessWorker, spent>>

-----------------------------------------------------------------------------
(* The worker appears; the process restarts *)

\* EventAdd of the job: external to this module, see HcclController.
StartWorker ==
    /\ businessWorker = 0
    /\ businessWorker' = 1
    /\ NewWorker(cm.status, taskReplicasTotal)
    /\ UNCHANGED <<pods, informer, queue, agent, spent>>

\* A new process has an empty queue and lists the pods there are.
Restart ==
    /\ spent.restarts < MaxRestarts
    /\ spent' = [spent EXCEPT !.restarts = @ + 1]
    /\ Crash(taskReplicasTotal)
    /\ businessWorker' = 0
    /\ watch' = [p \in Pod |-> << >>]
    /\ store' = [p \in Pod |-> CurrentVersion(p)]
    /\ waiting' = { [pod |-> p, type |-> "add"] : p \in Live }
    /\ ready' = {}
    /\ stage' = [t \in Thread |-> "free"]
    /\ item' = [t \in Thread |-> None]
    /\ UNCHANGED pods

\* Steps of the pods in the API server and of the informer; of a thread.
PodSteps(p) == AllotDevices(p) \/ DeletePod(p) \/ WatchEvent(p) \/ Relist(p)

ThreadSteps(t) ==
    \/ \E k \in ready : Take(t, k)
    \/ Dispatch(t) \/ Work(t) \/ Finish(t)

\* A job whose pods and watches stay; the process may restart.
BuildNext ==
    \/ \E p \in Pod :
         \/ CreatePod(p, 1, 1, taskReplicasTotal, FALSE)
         \/ AllotDevices(p) \/ WatchEvent(p)
    \/ \E k \in waiting : Due(k)
    \/ \E t \in Thread : ThreadSteps(t)
    \/ StartWorker
    \/ Restart

AgentNext == BuildNext \/ \E p \in Pod : DeletePod(p) \/ Relist(p)

AgentSpec == AgentInit /\ [][AgentNext]_agentVars

(***************************************************************************)
(* Fairness: the informer delivers, delays run out, an idle goroutine      *)
(* takes a ready key and runs its handler to the end, the job gets its     *)
(* pods, the pods their chips and the job its worker.  Nothing is assumed  *)
(* about the order of the events or of the threads, and deletes, relists,  *)
(* restarts and faults need not happen.                                    *)
(***************************************************************************)
AgentFairness ==
    /\ WF_agentVars(\E p \in Pod : CreatePod(p, 1, 1, taskReplicasTotal, FALSE))
    /\ WF_agentVars(\E p \in Pod : AllotDevices(p))
    /\ WF_agentVars(\E p \in Pod : WatchEvent(p))
    /\ WF_agentVars(StartWorker)
    /\ WF_agentVars(\E k \in waiting : Due(k))
    /\ WF_agentVars(\E t \in Thread, k \in ready : Take(t, k))
    /\ \A t \in Thread : WF_agentVars(Dispatch(t) \/ Work(t) \/ Finish(t))

AgentFairSpec == AgentSpec /\ AgentFairness
BuildFairSpec == AgentInit /\ [][BuildNext]_agentVars /\ AgentFairness

-----------------------------------------------------------------------------

\* Types; only a pod that is there can have chips.
AgentTypeOK ==
    /\ allotted \subseteq Live
    /\ used \subseteq Pod
    /\ owner \in [Pod -> Nat]
    /\ created \in [Pod -> Nat]
    /\ watch \in [Pod -> Seq(Version \cup {None})]
    /\ store \in [Pod -> Version \cup {None}]
    /\ waiting \subseteq Key
    /\ ready \subseteq Key
    /\ stage \in [Thread -> {"free", "fetched", "running"}]
    /\ item \in [Thread -> [key : Key, pod : Version \cup {None}] \cup {None}]
    /\ businessWorker \in Nat
    /\ spent \in [deletes : 0 .. MaxDeletes, relists : 0 .. MaxRelists,
                  restarts : 0 .. MaxRestarts]

\* The job has all its pods and every pod has its chips.
AllReady == Cardinality(Live) = taskReplicasTotal /\ Live = allotted

\* The table of a job whose pods are all there, and stay, is completed and
\* published for good, whatever order the queue hands the events out in.
BuildCompletes ==
    <>[]AllReady => <>[](cm.status = Completed /\ Pods(cm.list) = Live)

\* The informer has delivered, no event waits and no goroutine is at one.
Settled ==
    /\ \A p \in Pod : watch[p] = << >>
    /\ waiting = {} /\ ready = {}
    /\ \A t \in Thread : stage[t] = "free"

\* No event is lost on the way, with broken watches and restarts and in any
\* order: once all have been handled, every pod is in the table, and the table
\* of a job that has all its pods is published.
SettledIsServed ==
    Settled /\ businessWorker # 0 /\ Live # {} /\ spent.deletes = 0 /\ faults = 0 =>
        IF Cardinality(Live) = taskReplicasTotal
        THEN cm.status = Completed /\ Pods(cm.list) = Live
        ELSE cm.status = Initializing /\ Pods(serverList) = Live

\* In a first build, by one process, without faults, the published table
\* gives rank index i - 1 to its i-th pod: no gap, no rank twice, whatever the
\* order of the events.
FirstBuildRanks ==
    LET first == faults = 0 /\ spent = [deletes |-> 0, relists |-> 0, restarts |-> 0]
    IN  cm.status = Completed /\ first =>
        /\ Len(cm.list) = cm.replicas
        /\ \A i \in DOMAIN cm.list : cm.list[i].rank = i - 1

\* The rank ids in a completed table are given to one chip each.
CompletedRanksDistinct ==
    cm.status = Completed =>
        \A i, j \in DOMAIN cm.list :
            i # j => RankIDs(cm.list[i]) \cap RankIDs(cm.list[j]) = {}
=============================================================================
