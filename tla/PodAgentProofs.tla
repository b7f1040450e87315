--------------------------- MODULE PodAgentProofs ---------------------------
(***************************************************************************)
(* The pod side, for every number of pods, threads, replicas, deletes,     *)
(* lost watches, restarts and API faults: its types, and that it uses the  *)
(* worker only as BusinessWorker allows, so that what is proved there of   *)
(* any snapshots holds of the snapshots of pods that were there.           *)
(***************************************************************************)
EXTENDS PodAgent, BusinessWorkerProofs

USE DEF EventType

\* The snapshots BusinessWorker is given are those the pod side can make.
SnapshotsCover ==
    \A p \in Pod, v \in Version, c, j \in Nat : SnapshotOf(p, v, c, j) \in Snapshots

\* A handler runs only on a thread that has entered the worker, under the lock
\* of the map, and a thread that is not free has an item.
Entered ==
    \A t \in Thread :
        /\ pc[t] # "idle" => stage[t] = "running"
        /\ stage[t] # "free" => item[t] \in [key : Key, pod : Version \cup {None}]

Typed ==
    /\ AgentTypeOK
    /\ Entered
    /\ taskReplicasTotal \in Replicas

AgentInv == IInv /\ Typed

-----------------------------------------------------------------------------
(* The steps keep the types *)

\* The worker's own types give those of a version of a pod.
LEMMA VersionTyped ==
    ASSUME AgentInv
    PROVE  /\ \A p \in Pod : CurrentVersion(p) \in Version \cup {None}
           /\ \A b \in BOOLEAN, j \in Nat :
                VersionOf(None, b, j) \in Version \cup {None}
           /\ \A p \in Pod, b \in BOOLEAN, j \in Nat :
                VersionOf(annotation[p], b, j) \in Version \cup {None}
<1>1. annotation \in [Pod -> Int \cup {None, Gone}] /\ owner \in [Pod -> Nat]
  BY DEF AgentInv, Typed, IInv, TypeOK, AgentTypeOK
<1>2. \A p \in Pod : CurrentVersion(p) \in Version \cup {None}
  BY <1>1, GoneAssumption DEF CurrentVersion, VersionOf, Version
<1>3. \A p \in Pod, b \in BOOLEAN, j \in Nat :
        VersionOf(annotation[p], b, j) \in Version \cup {None}
  BY <1>1, GoneAssumption DEF VersionOf, Version
<1>4. \A b \in BOOLEAN, j \in Nat : VersionOf(None, b, j) \in Version \cup {None}
  BY GoneAssumption DEF VersionOf, Version
<1>. QED  BY <1>2, <1>3, <1>4

\* A notification goes to the end of the pod's watch.
LEMMA NotifyTyped ==
    ASSUME AgentInv, NEW p \in Pod, NEW v \in Version \cup {None}, Notify(p, v)
    PROVE  watch' \in [Pod -> Seq(Version \cup {None})]
BY DEF AgentInv, Typed, AgentTypeOK, Notify

LEMMA CreateTyped ==
    ASSUME AgentInv, NEW p \in Pod, NEW j \in Nat, NEW c \in Nat, NEW n,
           NEW hasChips \in BOOLEAN, CreatePod(p, j, c, n, hasChips)
    PROVE  Typed'
<1>1. annotation' = [annotation EXCEPT ![p] = None] /\ UNCHANGED <<worker, pc>>
  BY DEF CreatePod, ReplacePod
<1>2. Live' = Live \cup {p}
  BY <1>1, GoneAssumption DEF AgentInv, IInv, TypeOK, Live
<1>3. watch' \in [Pod -> Seq(Version \cup {None})]
  BY VersionTyped, NotifyTyped DEF CreatePod
<1>4. Entered' /\ taskReplicasTotal' \in Replicas
  BY <1>1 DEF AgentInv, Typed, Entered, CreatePod, agent, worker
<1>. QED  BY <1>1, <1>2, <1>3, <1>4
          DEF AgentInv, Typed, AgentTypeOK, CreatePod, queue, agent

\* A pod goes; the bound of the deletes is another matter.
LEMMA GoneTyped ==
    ASSUME AgentInv, NEW p \in Pod, PodGone(p),
           spent' \in [deletes : 0 .. MaxDeletes, relists : 0 .. MaxRelists,
                       restarts : 0 .. MaxRestarts]
    PROVE  Typed'
<1>1. annotation' = [annotation EXCEPT ![p] = Gone] /\ UNCHANGED <<worker, pc>>
  BY DEF PodGone, ReplacePod
<1>2. Live' = Live \ {p}
  BY <1>1 DEF AgentInv, IInv, TypeOK, Live
<1>3. watch' \in [Pod -> Seq(Version \cup {None})]
  BY NotifyTyped DEF PodGone
<1>4. Entered' /\ taskReplicasTotal' \in Replicas
  BY <1>1 DEF AgentInv, Typed, Entered, PodGone, agent, worker
<1>. QED  BY <1>1, <1>2, <1>3, <1>4
          DEF AgentInv, Typed, AgentTypeOK, PodGone, queue, agent

\* A bound that is not reached yet leaves room for one more.
LEMMA SpentTyped ==
    ASSUME AgentInv
    PROVE  LET S == [deletes : 0 .. MaxDeletes, relists : 0 .. MaxRelists,
                     restarts : 0 .. MaxRestarts]
           IN  /\ spent \in S
               /\ spent.deletes < MaxDeletes => [spent EXCEPT !.deletes = @ + 1] \in S
               /\ spent.relists < MaxRelists => [spent EXCEPT !.relists = @ + 1] \in S
               /\ spent.restarts < MaxRestarts => [spent EXCEPT !.restarts = @ + 1] \in S
<1>. DEFINE S == [deletes : 0 .. MaxDeletes, relists : 0 .. MaxRelists,
                  restarts : 0 .. MaxRestarts]
<1>1. \A m \in Nat : \A k \in 0 .. m : k < m => k + 1 \in 0 .. m
  OBVIOUS
<1>2. spent \in S
  BY DEF AgentInv, Typed, AgentTypeOK
<1>3. /\ spent.deletes \in 0 .. MaxDeletes /\ spent.relists \in 0 .. MaxRelists
      /\ spent.restarts \in 0 .. MaxRestarts
  BY <1>2
<1>. QED  BY <1>1, <1>2, <1>3, AgentBoundsAssumption

LEMMA PodStepTyped ==
    ASSUME AgentInv, NEW p \in Pod, PodSteps(p)
    PROVE  Typed'
<1>1. CASE AllotDevices(p)
  <2>1. watch' \in [Pod -> Seq(Version \cup {None})]
    <3>1. owner[p] \in Nat
      BY DEF AgentInv, Typed, AgentTypeOK
    <3>. QED  BY <1>1, <3>1, VersionTyped, NotifyTyped DEF AllotDevices
  <2>2. UNCHANGED <<annotation, pc, taskReplicasTotal>>
    BY <1>1 DEF AllotDevices, vars
  <2>. QED  BY <1>1, <2>1, <2>2
            DEF AgentInv, Typed, AgentTypeOK, Entered, AllotDevices, Live, queue, agent
<1>2. CASE DeletePod(p)
  BY <1>2, GoneTyped, SpentTyped DEF DeletePod
<1>3. CASE WatchEvent(p)
  <2>1. /\ watch[p] \in Seq(Version \cup {None})
        /\ Head(watch[p]) \in Version \cup {None}
        /\ Tail(watch[p]) \in Seq(Version \cup {None})
    BY <1>3 DEF WatchEvent, AgentInv, Typed, AgentTypeOK
  <2>2. store' \in [Pod -> Version \cup {None}]
        /\ watch' \in [Pod -> Seq(Version \cup {None})]
    BY <1>3, <2>1 DEF WatchEvent, AgentInv, Typed, AgentTypeOK
  <2>3. waiting' \subseteq Key
    BY <1>3 DEF WatchEvent, AgentInv, Typed, AgentTypeOK, EventOf, Key
  <2>4. UNCHANGED <<annotation, pc, taskReplicasTotal>>
    BY <1>3 DEF WatchEvent, vars
  <2>. QED  BY <1>3, <2>2, <2>3, <2>4
            DEF AgentInv, Typed, AgentTypeOK, Entered, WatchEvent, Live, pods, agent
<1>4. CASE Relist(p)
  <2>1. store' \in [Pod -> Version \cup {None}]
    BY <1>4, VersionTyped DEF Relist, AgentInv, Typed, AgentTypeOK
  <2>2. watch' \in [Pod -> Seq(Version \cup {None})]
    <3>1. << >> \in Seq(Version \cup {None})
      OBVIOUS
    <3>. QED  BY <1>4, <3>1 DEF Relist, AgentInv, Typed, AgentTypeOK
  <2>3. waiting' \subseteq Key
    BY <1>4 DEF Relist, AgentInv, Typed, AgentTypeOK, EventOf, Key
  <2>4. UNCHANGED <<annotation, pc, taskReplicasTotal>>
    BY <1>4 DEF Relist, vars
  <2>. QED  BY <1>4, <2>1, <2>2, <2>3, <2>4, SpentTyped
            DEF AgentInv, Typed, AgentTypeOK, Entered, Relist, Live, pods, agent
<1>. QED  BY <1>1, <1>2, <1>3, <1>4 DEF PodSteps

LEMMA DueTyped ==
    ASSUME AgentInv, NEW k \in waiting, Due(k)
    PROVE  Typed'
BY DEF Due, AgentInv, Typed, AgentTypeOK, Entered, Live, vars, pods, informer, agent

LEMMA ThreadTyped ==
    ASSUME AgentInv, IInv', NEW t \in Thread, ThreadSteps(t)
    PROVE  Typed'
<1>1. CASE \E k \in ready : Take(t, k)
  <2>1. PICK k \in ready : Take(t, k)
    BY <1>1
  <2>2. k \in Key /\ store[k.pod] \in Version \cup {None}
    BY <2>1 DEF AgentInv, Typed, AgentTypeOK, Key
  <2>3. [key |-> k, pod |-> store[k.pod]] \in [key : Key, pod : Version \cup {None}]
    BY <2>2
  <2>. QED  BY <2>1, <2>3 DEF Take, AgentInv, Typed, AgentTypeOK, Entered, Live, vars,
                              pods, informer
<1>2. CASE Dispatch(t)
  <2>1. item[t].key \in Key
    BY <1>2 DEF Dispatch, AgentInv, Typed, Entered
  <2>2. /\ UNCHANGED <<annotation, taskReplicasTotal>>
        /\ \A u \in Thread \ {t} : pc'[u] = pc[u]
    BY <1>2 DEF Dispatch, Forget, Requeue, HandleDelete, DoWork, Goto, vars, worker, api,
                AgentInv, IInv, TypeOK
  <2>3. \/ Release(t) /\ waiting' \in {waiting, waiting \cup {item[t].key}} /\ UNCHANGED <<ready, pc>>
        \/ Enter(t)
    BY <1>2 DEF Dispatch, Forget, Requeue, vars, queue
  <2>4. AgentTypeOK'
    BY <1>2, <2>1, <2>2, <2>3
    DEF AgentInv, Typed, AgentTypeOK, Dispatch, Release, Enter, Live, pods, informer, queue
  <2>5. Entered'
    BY <1>2, <2>2, <2>3
    DEF AgentInv, Typed, AgentTypeOK, Entered, Dispatch, Release, Enter
  <2>. QED  BY <2>2, <2>4, <2>5 DEF AgentInv, Typed
<1>3. CASE Work(t)
  <2>1. /\ pc[t] # "idle" /\ UNCHANGED taskReplicasTotal
        /\ \A u \in Thread \ {t} : pc'[u] = pc[u]
        /\ \A p \in Pod : annotation'[p] = Gone <=> annotation[p] = Gone
    BY <1>3, GoneAssumption
    DEF Work, Step, AddSteps, DeleteSteps, SyncHandler, AddLock, AddRejected, UpdatePod,
        Annotated, CachePod, CacheRejected, Publish, ZeroPublish, DeleteLock,
        DeleteRejected, DeletePublish, UpdateConfigMap, Written, NotAcknowledged, Fault,
        Goto, Return, worker, api, AgentInv, IInv, TypeOK
  <2>2. Live' = Live
    BY <2>1 DEF Live
  <2>3. watch' \in [Pod -> Seq(Version \cup {None})]
    <3>1. \A p \in Pod : CurrentVersion(p)' \in Version \cup {None}
      <4>1. annotation' \in [Pod -> Int \cup {None, Gone}] /\ owner' \in [Pod -> Nat]
        BY <1>3 DEF IInv, TypeOK, AgentInv, Typed, AgentTypeOK, Work, pods
      <4>. QED  BY <4>1, GoneAssumption DEF CurrentVersion, VersionOf, Version
    <3>. QED  BY <1>3, <3>1 DEF Work, AgentInv, Typed, AgentTypeOK
  <2>4. UNCHANGED <<allotted, used, owner, created, store, waiting, ready, stage, item,
                    businessWorker, spent>>
    BY <1>3 DEF Work, pods, queue, agent
  <2>5. AgentTypeOK'
    BY <2>2, <2>3, <2>4 DEF AgentInv, Typed, AgentTypeOK
  <2>6. Entered'
    BY <2>1, <2>4 DEF AgentInv, Typed, Entered
  <2>. QED  BY <2>1, <2>5, <2>6 DEF AgentInv, Typed
<1>4. CASE Finish(t)
  BY <1>4 DEF Finish, Forget, Release, AgentInv, Typed, AgentTypeOK, Entered, Live, vars,
              pods, informer, queue
<1>. QED  BY <1>1, <1>2, <1>3, <1>4 DEF ThreadSteps

LEMMA RestartTyped ==
    ASSUME AgentInv, Restart
    PROVE  Typed'
<1>1. /\ UNCHANGED <<annotation, taskReplicasTotal>>
      /\ pc' = [t \in Thread |-> "idle"]
  BY DEF Restart, Crash, FreshWorker, api
<1>2. /\ watch' \in [Pod -> Seq(Version \cup {None})]
      /\ store' \in [Pod -> Version \cup {None}]
  <2>1. << >> \in Seq(Version \cup {None})
    OBVIOUS
  <2>. QED  BY <2>1, VersionTyped DEF Restart
<1>3. waiting' \subseteq Key /\ ready' \subseteq Key
  BY DEF Restart, Key, Live
<1>. QED  BY <1>1, <1>2, <1>3, SpentTyped
          DEF AgentInv, Typed, AgentTypeOK, Entered, Restart, Live, pods

-----------------------------------------------------------------------------
(* The steps are ones that the worker allows *)

\* A thread hands the worker snapshots of pods that were there, and runs on.
LEMMA ThreadRefines ==
    ASSUME SnapshotsCover, AgentInv, NEW t \in Thread, ThreadSteps(t)
    PROVE  [Next]_vars
<1>1. CASE Dispatch(t)
  <2>. DEFINE key == item[t].key
              v == item[t].pod
              s == SnapshotOf(key.pod, v, created[key.pod], businessWorker)
  <2>1. /\ key.pod \in Pod /\ v \in Version \cup {None} /\ businessWorker \in Nat
        /\ created[key.pod] \in Nat
    BY <1>1 DEF Dispatch, AgentInv, Typed, Entered, AgentTypeOK, Key
  <2>2. \/ UNCHANGED vars
        \/ HandleDelete(t, key.pod)
        \/ v # None /\ DoWork(t, s)
    BY <1>1 DEF Dispatch, Forget, Requeue
  <2>3. v # None => s \in Snapshots
    BY <2>1 DEF SnapshotsCover
  <2>. QED  BY <2>1, <2>2, <2>3 DEF Next
<1>2. CASE Work(t)
  BY <1>2 DEF Work, Next
<1>3. CASE Finish(t) \/ \E k \in ready : Take(t, k)
  BY <1>3 DEF Finish, Forget, Take
<1>. QED  BY <1>1, <1>2, <1>3 DEF ThreadSteps

\* Of the API server's pods and of the informer the worker sees that a pod is
\* gone, or there again.
LEMMA PodRefines ==
    ASSUME NEW p \in Pod,
           \/ PodSteps(p) \/ PodGone(p)
           \/ \E j, c, n \in Nat, hasChips \in BOOLEAN : CreatePod(p, j, c, n, hasChips)
    PROVE  [Next]_vars
BY DEF PodSteps, CreatePod, PodGone, AllotDevices, DeletePod, WatchEvent, Relist, Next,
       Environment

LEMMA RestartRefines == AgentInv /\ Restart => [Next]_vars
BY DEF Restart, AgentInv, Typed, Next, Environment

-----------------------------------------------------------------------------
(* The agent with one job *)

LEMMA AgentInitInv == AgentInit => AgentInv
<1>. SUFFICES ASSUME AgentInit PROVE AgentInv
  OBVIOUS
<1>1. IInv /\ pc = [t \in Thread |-> "idle"] /\ taskReplicasTotal \in Replicas
  BY InitIInv DEF AgentInit, Init
<1>2. << >> \in Seq(Version \cup {None})
  OBVIOUS
<1>3. AgentTypeOK
  BY <1>2, AgentBoundsAssumption DEF AgentInit, AgentTypeOK, Live
<1>4. Entered
  BY <1>1 DEF AgentInit, Entered
<1>. QED  BY <1>1, <1>3, <1>4 DEF AgentInv, Typed

LEMMA AgentStep ==
    ASSUME SnapshotsCover, AgentInv, [AgentNext]_agentVars
    PROVE  [Next]_vars /\ AgentInv'
<1>0. taskReplicasTotal \in Nat /\ taskReplicasTotal \in Replicas
  BY ReplicasAssumption DEF AgentInv, Typed
<1>1. CASE UNCHANGED agentVars
  <2>1. UNCHANGED vars
    BY <1>1 DEF agentVars
  <2>2. IInv'
    BY <2>1, Inductive DEF AgentInv
  <2>3. Typed'
    BY <1>1 DEF agentVars, vars, AgentInv, Typed, AgentTypeOK, Entered, Live
  <2>. QED  BY <2>1, <2>2, <2>3 DEF AgentInv
<1>2. CASE \E p \in Pod : CreatePod(p, 1, 1, taskReplicasTotal, FALSE) \/ PodSteps(p)
  <2>1. [Next]_vars
    BY <1>0, <1>2, PodRefines
  <2>2. IInv'
    BY <2>1, Inductive DEF AgentInv
  <2>3. Typed'
    BY <1>2, CreateTyped, PodStepTyped
  <2>. QED  BY <2>1, <2>2, <2>3 DEF AgentInv
<1>3. CASE \E k \in waiting : Due(k)
  <2>1. UNCHANGED vars
    BY <1>3 DEF Due
  <2>2. IInv'
    BY <2>1, Inductive DEF AgentInv
  <2>. QED  BY <1>3, <2>1, <2>2, DueTyped DEF AgentInv
<1>4. CASE \E t \in Thread : ThreadSteps(t)
  <2>1. [Next]_vars
    BY <1>4, ThreadRefines
  <2>2. IInv'
    BY <2>1, Inductive DEF AgentInv
  <2>. QED  BY <1>4, <2>1, <2>2, ThreadTyped DEF AgentInv
<1>5. CASE StartWorker
  <2>1. [Next]_vars
    BY <1>0, <1>5 DEF StartWorker, AgentInv, IInv, TypeOK, Next, Environment
  <2>2. IInv'
    BY <2>1, Inductive DEF AgentInv
  <2>3. Typed'
    BY <1>5 DEF StartWorker, NewWorker, FreshWorker, api, AgentInv, Typed, AgentTypeOK,
                Entered, Live, pods, informer, queue, agent
  <2>. QED  BY <2>1, <2>2, <2>3 DEF AgentInv
<1>6. CASE Restart
  <2>1. [Next]_vars
    BY <1>6, RestartRefines
  <2>2. IInv'
    BY <2>1, Inductive DEF AgentInv
  <2>. QED  BY <1>6, <2>1, <2>2, RestartTyped DEF AgentInv
<1>7. \/ UNCHANGED agentVars
      \/ \E p \in Pod : CreatePod(p, 1, 1, taskReplicasTotal, FALSE) \/ PodSteps(p)
      \/ \E k \in waiting : Due(k)
      \/ \E t \in Thread : ThreadSteps(t)
      \/ StartWorker
      \/ Restart
  BY DEF AgentNext, BuildNext, PodSteps
<1>. QED  BY <1>1, <1>2, <1>3, <1>4, <1>5, <1>6, <1>7

\* The pod side, whatever its queue, its informer and its restarts do, puts the
\* worker through a behaviour of BusinessWorker.
THEOREM AgentImplementsWorker == ASSUME SnapshotsCover PROVE AgentSpec => Spec
<1>1. AgentInit => Init
  BY DEF AgentInit
<1>2. AgentInv /\ [AgentNext]_agentVars => [Next]_vars /\ AgentInv'
  BY AgentStep
<1>. QED  BY <1>1, <1>2, AgentInitInv, PTL DEF AgentSpec, Spec

\* Types of the agent's state; only a pod that is there has chips.
THEOREM AgentTypeCorrect == ASSUME SnapshotsCover PROVE AgentSpec => []AgentTypeOK
<1>1. AgentInv /\ [AgentNext]_agentVars => AgentInv'
  BY AgentStep
<1>2. AgentInv => AgentTypeOK
  BY DEF AgentInv, Typed
<1>. QED  BY <1>1, <1>2, AgentInitInv, PTL DEF AgentSpec

=============================================================================
