--------------------------- MODULE AgentBuildProofs ---------------------------
(***************************************************************************)
(* The build of one job's table, for every number of pods, threads,        *)
(* replicas, lost watches and restarts, as long as no pod was deleted and  *)
(* no API call failed: no event is lost, and a first build hands out the   *)
(* ranks 0, 1, 2, ... in the order of the table.                           *)
(***************************************************************************)
EXTENDS PodAgentProofs

Undisturbed == spent.deletes = 0 /\ faults = 0

-----------------------------------------------------------------------------
(* The pods stay *)

\* The versions that are on their way, stored, or read, are of pods of job 1
\* that are there; so no delete event comes up.
VersionsInv ==
    /\ \A p \in Pod : \A i \in DOMAIN watch[p] : watch[p][i] # None /\ watch[p][i].job = 1
    /\ \A p \in Pod : store[p] # None => store[p].job = 1
    /\ \A p \in Pod : p \in Live <=> (store[p] # None \/ watch[p] # << >>)
    /\ \A p \in Live : owner[p] = 1
    /\ \A k \in waiting \cup ready : k.type # "delete" /\ store[k.pod] # None
    /\ \A t \in Thread : stage[t] = "fetched" =>
          /\ item[t].key.type # "delete" /\ store[item[t].key.pod] # None
          /\ item[t].pod # None /\ item[t].pod.job = 1

\* Handlers only add pods, which have their chips, to the table.
HandlersInv ==
    \A t \in Thread :
        /\ pc[t] \notin {"deleteLock", "deletePublish", "zeroPublish"}
        /\ pc[t] # "idle" => ctx[t].device = "valid" /\ ctx[t].pod \in Live

\* A job has its replicas at most, so the tables have.
LiveInv ==
    /\ IsFiniteSet(Live) /\ Cardinality(Live) <= taskReplicasTotal
    /\ Pods(serverList) \subseteq Live /\ Pods(cm.list) \subseteq Live

\* Before there is a worker nothing is cached; what is completed is published,
\* or about to be.
WorkerInv ==
    /\ businessWorker \in {0, 1}
    /\ businessWorker = 0 => /\ serverList = << >> /\ cachedPodNum = 0 /\ rankIndex = 0
                             /\ \A t \in Thread : pc[t] = "idle"
    /\ cm.status = Completed => cm.replicas = taskReplicasTotal
    /\ status = Completed => cm.status = Completed \/ \E t \in Thread : pc[t] = "publish"
    /\ cachedPodNum = taskReplicasTotal /\ taskReplicasTotal > 0 =>
          cm.status = Completed \/ \E t \in Thread : pc[t] = "publish"

StayParts == VersionsInv /\ HandlersInv /\ LiveInv /\ WorkerInv

StayInv == Undisturbed => StayParts

-----------------------------------------------------------------------------
(* No event is lost *)

\* A handler of p is at work, or a thread has read p.
Caching(p) == \E t \in Thread :
    pc[t] \in {"sync", "addLock", "annotate", "cache"} /\ ctx[t].pod = p

Fetched(p) == \E t \in Thread : stage[t] = "fetched" /\ item[t].key.pod = p

Keyed(p) == \E k \in waiting \cup ready : k.pod = p

\* The informer has told of p: it is in the table, or an event of it is left.
Told(p) == Cached(serverList, p) \/ Keyed(p) \/ Fetched(p) \/ Caching(p)

ToldInv ==
    Undisturbed /\ cm.status # Completed =>
        \A p \in Pod : store[p] # None => Told(p)

-----------------------------------------------------------------------------
(* The ranks *)

\* Rank r was read of pod p, or can be.
SeenRank(p, r) ==
    \/ annotation[p] = r
    \/ \E i \in DOMAIN watch[p] : watch[p][i] # None /\ watch[p][i].rank = r
    \/ store[p] # None /\ store[p].rank = r
    \/ \E t \in Thread : /\ stage[t] = "fetched" /\ item[t].key.pod = p
                         /\ item[t].pod # None /\ item[t].pod.rank = r
    \/ \E t \in Thread : pc[t] # "idle" /\ ctx[t].pod = p /\ ctx[t].rank = r

\* The next rank is n, also when one is borrowed.
NextRankIs(n) ==
    /\ (\A t \in Thread : ~Borrowing(t)) => rankIndex = n
    /\ \A t \in Thread : Borrowing(t) => ctx[t].tmp = n

\* Until the table is published ranks are below the number of pods.
RangeInv ==
    Undisturbed /\ cm.status # Completed =>
        /\ \A p \in Pod, r \in Int : SeenRank(p, r) => r \in 0 .. taskReplicasTotal - 1
        /\ \E n \in 0 .. Len(serverList) : NextRankIs(n)

First == Undisturbed /\ spent.restarts = 0

\* In the first build rank i - 1 goes to the i-th pod, and a pod with a rank
\* is in the table, or about to be by the handler that gave it the rank.
RanksInv ==
    First =>
        /\ \A p \in Pod, r \in Int : SeenRank(p, r) =>
              \/ Cached(serverList, p)
              \/ \E t \in Thread : pc[t] = "cache" /\ ctx[t].pod = p /\ ctx[t].rank = None
        /\ \A i \in DOMAIN serverList : serverList[i].rank = i - 1
        /\ IF cm.status = Completed THEN cm.list = serverList
           ELSE NextRankIs(Len(serverList))

-----------------------------------------------------------------------------
(* Facts about one state *)

Calm == AgentInv /\ Undisturbed /\ StayParts

\* The types that the steps below need.
LEMMA CalmTypes ==
    ASSUME AgentInv
    PROVE  /\ annotation \in [Pod -> Int \cup {None, Gone}] /\ owner \in [Pod -> Nat]
           /\ watch \in [Pod -> Seq(Version \cup {None})]
           /\ store \in [Pod -> Version \cup {None}]
           /\ \A k \in waiting \cup ready : k \in Key /\ k.pod \in Pod
           /\ stage \in [Thread -> {"free", "fetched", "running"}]
           /\ \A t \in Thread : stage[t] # "free" =>
                 /\ item[t].key \in Key /\ item[t].key.pod \in Pod
                 /\ item[t].pod \in Version \cup {None}
           /\ pc \in [Thread -> PC] /\ ctx \in [Thread -> Context \cup {None}]
           /\ \A t \in Thread : pc[t] # "idle" =>
                 /\ stage[t] = "running" /\ ctx[t] \in Context
                 /\ ctx[t].pod \in Pod /\ ctx[t].rank \in Int \cup {None}
           /\ serverList \in Seq(Entry) /\ cachedPodNum \in Nat /\ taskReplicasTotal \in Nat
           /\ rankIndex \in Int /\ faults \in Nat
           /\ cm.status \in Status /\ cm.list \in Seq(Entry) /\ cm.replicas \in Nat
<1>1. IInv /\ AgentTypeOK /\ Entered
  BY DEF AgentInv, Typed
<1>2. \A k \in Key : k.pod \in Pod
  BY DEF Key
<1>3. \A c \in Context : c.pod \in Pod /\ c.rank \in Int \cup {None}
  BY DEF Context
<1>4. faults \in Nat
  BY <1>1, FaultsAssumption DEF IInv, TypeOK
<1>. QED  BY <1>1, <1>2, <1>3, <1>4 DEF IInv, TypeOK, ContextInv, AgentTypeOK, Entered

\* The pods of a table without repetition are as many as its entries.
LEMMA PodsCardinality ==
    ASSUME NEW list \in Seq(Entry), NoPodTwice(list)
    PROVE  IsFiniteSet(Pods(list)) /\ Cardinality(Pods(list)) = Len(list)
<1>. DEFINE f == [i \in 1 .. Len(list) |-> list[i].pod]
<1>1. f \in Bijection(1 .. Len(list), Pods(list))
  BY DEF Bijection, Injection, Surjection, IsInjective, Pods, NoPodTwice
<1>2. Len(list) \in Nat /\ ExistsBijection(1 .. Len(list), Pods(list))
  BY <1>1 DEF ExistsBijection
<1>. QED  BY <1>2, FS_CountingElements, FS_NatBijection

\* The count is that of the pods in the table, and when it reaches the replicas
\* the table has all pods there are.
LEMMA TableIsFull ==
    ASSUME Calm
    PROVE  /\ cachedPodNum = Len(serverList)
           /\ cachedPodNum = Cardinality(Pods(serverList)) /\ IsFiniteSet(Pods(serverList))
           /\ cachedPodNum <= Cardinality(Live) /\ Cardinality(Live) \in Nat
           /\ cachedPodNum = Cardinality(Live) => Pods(serverList) = Live
           /\ cachedPodNum >= taskReplicasTotal => Pods(serverList) = Live
<1>1. serverList \in Seq(Entry) /\ NoPodTwice(serverList) /\ cachedPodNum \in Nat
      /\ taskReplicasTotal \in Nat
  BY DEF Calm, AgentInv, IInv, TypeOK, DistinctPods
<1>2. Leaving = 0
  BY DEF Calm, StayParts, HandlersInv, Leaving
<1>3. cachedPodNum - Len(serverList) - 0 \in 0 .. 0
  BY <1>2 DEF Calm, AgentInv, IInv, CountInv, Undisturbed
<1>4. cachedPodNum = Len(serverList)
  BY <1>1, <1>3
<1>5. IsFiniteSet(Pods(serverList)) /\ Cardinality(Pods(serverList)) = Len(serverList)
  BY <1>1, PodsCardinality
<1>6. /\ IsFiniteSet(Live) /\ Cardinality(Live) <= taskReplicasTotal
      /\ Pods(serverList) \subseteq Live
  BY DEF Calm, StayParts, LiveInv
<1>7. /\ Cardinality(Live) \in Nat
      /\ Cardinality(Pods(serverList)) <= Cardinality(Live)
      /\ Cardinality(Pods(serverList)) = Cardinality(Live) => Pods(serverList) = Live
  BY <1>6, FS_Subset, FS_CardinalityType
<1>. QED  BY <1>1, <1>4, <1>5, <1>6, <1>7

\* A published table that is completed has all pods there are.
LEMMA PublishedIsFull ==
    ASSUME Calm, cm.status = Completed
    PROVE  /\ Pods(cm.list) = Live
           /\ Cardinality(Live) = taskReplicasTotal
           /\ Len(cm.list) = cm.replicas
<1>1. cm.list \in Seq(Entry) /\ NoPodTwice(cm.list) /\ cm.replicas \in Nat
      /\ cm.replicas = taskReplicasTotal
  BY DEF Calm, AgentInv, IInv, TypeOK, DistinctPods, StayParts, WorkerInv
<1>2. cm.replicas - Len(cm.list) \in 0 .. 0
  BY DEF Calm, AgentInv, IInv, CompletedCount, Undisturbed
<1>3. IsFiniteSet(Pods(cm.list)) /\ Cardinality(Pods(cm.list)) = Len(cm.list)
  BY <1>1, PodsCardinality
<1>4. IsFiniteSet(Live) /\ Cardinality(Live) <= taskReplicasTotal /\ Pods(cm.list) \subseteq Live
  BY DEF Calm, StayParts, LiveInv
<1>5. /\ Cardinality(Live) \in Nat
      /\ Cardinality(Pods(cm.list)) <= Cardinality(Live)
      /\ Cardinality(Pods(cm.list)) = Cardinality(Live) => Pods(cm.list) = Live
  BY <1>4, FS_Subset, FS_CardinalityType
<1>. QED  BY <1>1, <1>2, <1>3, <1>4, <1>5

\* A handler is at work for a pod only when there are replicas.
LEMMA HandlersMeanReplicas ==
    ASSUME Calm, NEW t \in Thread, pc[t] # "idle"
    PROVE  taskReplicasTotal > 0 /\ businessWorker = 1
<1>1. ctx[t].pod \in Live /\ businessWorker # 0 /\ businessWorker \in {0, 1}
  BY DEF Calm, StayParts, HandlersInv, WorkerInv
<1>2. IsFiniteSet(Live) /\ Cardinality(Live) <= taskReplicasTotal /\ taskReplicasTotal \in Nat
  BY CalmTypes DEF Calm, StayParts, LiveInv
<1>3. Cardinality(Live) # 0 /\ Cardinality(Live) \in Nat
  BY <1>1, <1>2, FS_EmptySet, FS_CardinalityType
<1>. QED  BY <1>1, <1>2, <1>3

-----------------------------------------------------------------------------
(* The steps that leave the job undisturbed *)

\* Faults are never taken back.
LEMMA FaultsGrow ==
    ASSUME IInv, [Next]_vars
    PROVE  faults \in Nat /\ faults' \in Nat /\ faults' >= faults
<1>1. faults \in Nat
  BY FaultsAssumption DEF IInv, TypeOK
<1>2. faults' \in {faults, faults + 1}
  BY <1>1
  DEF Next, vars, Step, AddSteps, DeleteSteps, SyncHandler, AddLock, AddRejected, UpdatePod,
      CachePod, CacheRejected, Publish, ZeroPublish, DeleteLock, DeleteRejected,
      DeletePublish, UpdateConfigMap, Written, NotAcknowledged, Fault, DoWork, HandleDelete,
      Environment, NewWorker, Crash, ReplaceConfigMap, ReplacePod, worker, api
<1>. QED  BY <1>1, <1>2

\* A job that is undisturbed was so before, and no pod was deleted.
LEMMA UndisturbedBefore ==
    ASSUME SnapshotsCover, AgentInv, [AgentNext]_agentVars, Undisturbed'
    PROVE  /\ Undisturbed /\ faults' = faults /\ AgentInv'
           /\ \A p \in Pod : ~DeletePod(p)
<1>1. [Next]_vars /\ AgentInv' /\ faults' = faults /\ faults = 0
  BY AgentStep, FaultsGrow DEF AgentInv, Undisturbed
<1>2. spent \in [deletes : 0 .. MaxDeletes, relists : 0 .. MaxRelists,
                restarts : 0 .. MaxRestarts]
      /\ spent.deletes \in Nat
  BY AgentBoundsAssumption DEF AgentInv, Typed, AgentTypeOK
<1>3. \A p \in Pod : ~DeletePod(p)
  BY <1>2 DEF DeletePod, Undisturbed
<1>4. spent'.deletes = spent.deletes
  BY <1>2, <1>3
  DEF AgentNext, BuildNext, agentVars, CreatePod, AllotDevices, WatchEvent, Relist, Due,
      ThreadSteps, Take, Dispatch, Work, Finish, StartWorker, Restart
<1>. QED  BY <1>1, <1>3, <1>4 DEF Undisturbed

-----------------------------------------------------------------------------
(* The pods stay: steps of the pods, of the informer and of the queue *)

\* A pod that is there has a version.
LEMMA VersionOfLive ==
    ASSUME Calm, NEW p \in Live
    PROVE  /\ owner[p] = 1
           /\ CurrentVersion(p) # None /\ CurrentVersion(p).job = 1
           /\ CurrentVersion(p).rank = annotation[p]
           /\ \A b \in BOOLEAN : LET v == VersionOf(annotation[p], b, owner[p])
                                 IN  v # None /\ v.job = 1 /\ v.rank = annotation[p]
<1>1. p \in Pod /\ annotation[p] # Gone /\ owner[p] = 1
  BY DEF Calm, StayParts, VersionsInv, Live
<1>2. annotation[p] \in Int \cup {None}
  BY <1>1, CalmTypes DEF Calm
<1>3. \A b \in BOOLEAN : LET v == VersionOf(annotation[p], b, owner[p])
                         IN  v \in Version /\ v.job = 1 /\ v.rank = annotation[p]
  BY <1>1, <1>2 DEF VersionOf, Version
<1>4. (p \in allotted) \in BOOLEAN
  OBVIOUS
<1>5. CurrentVersion(p) = VersionOf(annotation[p], p \in allotted, owner[p])
  BY DEF CurrentVersion
<1>. QED  BY <1>1, <1>3, <1>4, <1>5, NoVersionAssumption

\* A change of a pod that is there goes down its watch.
LEMMA NotifiedVersions ==
    ASSUME Calm, NEW p \in Pod, NEW v, v # None, v.job = 1,
           watch' = [watch EXCEPT ![p] = Append(watch[p], v)],
           UNCHANGED <<store, waiting, ready, stage, item>>,
           Live' = Live \cup {p}, owner' = [owner EXCEPT ![p] = 1]
    PROVE  VersionsInv'
<1>1. \A q \in Pod : watch[q] \in Seq(Version \cup {None})
  BY CalmTypes DEF Calm
<1>2. /\ \A q \in Pod : q # p => watch'[q] = watch[q]
      /\ watch'[p] = Append(watch[p], v)
      /\ \A q \in Pod : q # p => owner'[q] = owner[q]
      /\ owner'[p] = 1
  BY CalmTypes DEF Calm
<1>3. \A q \in Pod : \A i \in DOMAIN watch'[q] :
        watch'[q][i] = v \/ (i \in DOMAIN watch[q] /\ watch'[q][i] = watch[q][i])
  BY <1>1, <1>2
<1>4. watch'[p] # << >>
  BY <1>1, <1>2
<1>5. /\ \A q \in Pod : q \in Live' <=> (store'[q] # None \/ watch'[q] # << >>)
      /\ \A q \in Live' : owner'[q] = 1
  <2>1. Live \subseteq Pod
    BY DEF Live
  <2>. QED  BY <1>2, <1>4, <2>1 DEF Calm, StayParts, VersionsInv
<1>6. \A q \in Pod : \A i \in DOMAIN watch'[q] : watch'[q][i] # None /\ watch'[q][i].job = 1
  BY <1>3 DEF Calm, StayParts, VersionsInv
<1>7. \A q \in Pod : store'[q] # None => store'[q].job = 1
  BY DEF Calm, StayParts, VersionsInv
<1>8. \A k \in waiting' \cup ready' : k.type # "delete" /\ store'[k.pod] # None
  BY DEF Calm, StayParts, VersionsInv
<1>9. \A t \in Thread : stage'[t] = "fetched" =>
          /\ item'[t].key.type # "delete" /\ store'[item'[t].key.pod] # None
          /\ item'[t].pod # None /\ item'[t].pod.job = 1
  BY DEF Calm, StayParts, VersionsInv
<1>. QED  BY <1>5, <1>6, <1>7, <1>8, <1>9 DEF VersionsInv

LEMMA CreateStays ==
    ASSUME Calm, NEW p \in Pod, CreatePod(p, 1, 1, taskReplicasTotal, FALSE)
    PROVE  StayParts'
<1>. DEFINE new == VersionOf(None, FALSE, 1)
<1>1. /\ annotation' = [annotation EXCEPT ![p] = None]
      /\ UNCHANGED <<status, serverList, rankIndex, cachedPodNum, taskReplicasTotal,
                     cmMu, pc, ctx, cm, faults, store, waiting, ready, stage,
                     item, businessWorker>>
      /\ owner' = [owner EXCEPT ![p] = 1]
      /\ watch' = [watch EXCEPT ![p] = Append(watch[p], new)]
      /\ p \notin Live
  BY DEF CreatePod, ReplacePod, Notify, queue, agent, worker
<1>2. Live' = Live \cup {p}
  BY <1>1, CalmTypes, GoneAssumption DEF Calm, Live
<1>3. new # None /\ new.job = 1
  BY GoneAssumption, NoVersionAssumption DEF VersionOf, Version
<1>. HIDE DEF new
<1>4. VersionsInv'
  BY <1>1, <1>2, <1>3, NotifiedVersions
<1>5. HandlersInv' /\ WorkerInv'
  BY <1>1, <1>2 DEF Calm, StayParts, HandlersInv, WorkerInv
<1>6. LiveInv'
  <2>1. { q \in Live : owner[q] = 1 } = Live
    BY DEF Calm, StayParts, VersionsInv
  <2>2. IsFiniteSet(Live) /\ Cardinality(Live) < taskReplicasTotal
        /\ taskReplicasTotal \in Nat
    BY <2>1, CalmTypes DEF Calm, StayParts, LiveInv, CreatePod
  <2>3. IsFiniteSet(Live') /\ Cardinality(Live') = Cardinality(Live) + 1
        /\ Cardinality(Live) \in Nat
    BY <1>1, <1>2, <2>2, FS_AddElement, FS_CardinalityType
  <2>. QED  BY <1>1, <1>2, <2>2, <2>3 DEF Calm, StayParts, LiveInv
<1>. QED  BY <1>4, <1>5, <1>6 DEF StayParts

LEMMA AllotStays ==
    ASSUME Calm, NEW p \in Pod, AllotDevices(p)
    PROVE  StayParts'
<1>. DEFINE new == VersionOf(annotation[p], TRUE, owner[p])
<1>1. /\ UNCHANGED <<status, serverList, rankIndex, cachedPodNum, taskReplicasTotal,
                     cmMu, pc, ctx, cm, annotation, faults, owner, store, waiting, ready,
                     stage, item, businessWorker>>
      /\ watch' = [watch EXCEPT ![p] = Append(watch[p], new)]
      /\ p \in Live
  BY DEF AllotDevices, Notify, queue, agent, vars
<1>2. Live' = Live
  BY <1>1 DEF Live
<1>3. new # None /\ new.job = 1
  BY <1>1, VersionOfLive
<1>. HIDE DEF new
<1>4. VersionsInv'
  <2>1. Live' = Live \cup {p}
    BY <1>1, <1>2
  <2>2. owner' = [owner EXCEPT ![p] = 1]
    BY <1>1, VersionOfLive, CalmTypes DEF Calm
  <2>. QED  BY <1>1, <1>3, <2>1, <2>2, NotifiedVersions
<1>5. HandlersInv' /\ WorkerInv' /\ LiveInv'
  BY <1>1, <1>2 DEF Calm, StayParts, HandlersInv, WorkerInv, LiveInv
<1>. QED  BY <1>4, <1>5 DEF StayParts

\* The informer stores a version that was on its way, or the one there is.
LEMMA StoredVersions ==
    ASSUME Calm, NEW p \in Live, NEW v, v # None, v.job = 1, NEW w,
           store' = [store EXCEPT ![p] = v], watch' = [watch EXCEPT ![p] = w],
           \A i \in DOMAIN w : w[i] # None /\ w[i].job = 1,
           \/ waiting' = waiting
           \/ waiting' = waiting \cup {[pod |-> p, type |-> EventOf(store[p], v)]},
           UNCHANGED <<annotation, owner, ready, stage, item>>
    PROVE  VersionsInv'
<1>1. /\ \A q \in Pod : q # p => watch'[q] = watch[q] /\ store'[q] = store[q]
      /\ watch'[p] = w /\ store'[p] = v
      /\ Live' = Live /\ Live \subseteq Pod
  BY CalmTypes DEF Calm, Live
<1>2. \A q \in Pod : \A i \in DOMAIN watch'[q] : watch'[q][i] # None /\ watch'[q][i].job = 1
  BY <1>1 DEF Calm, StayParts, VersionsInv
<1>3. \A q \in Pod : store'[q] # None => store'[q].job = 1
  BY <1>1 DEF Calm, StayParts, VersionsInv
<1>4. /\ \A q \in Pod : q \in Live' <=> (store'[q] # None \/ watch'[q] # << >>)
      /\ \A q \in Live' : owner'[q] = 1
  BY <1>1 DEF Calm, StayParts, VersionsInv
<1>5. \A q \in Pod : store[q] # None => store'[q] # None
  BY <1>1
<1>6. \A k \in waiting' \cup ready' : k.type # "delete" /\ store'[k.pod] # None
  <2>1. SUFFICES ASSUME NEW k \in waiting' \cup ready'
                 PROVE  k.type # "delete" /\ store'[k.pod] # None
    OBVIOUS
  <2>2. CASE k \in waiting \cup ready
    BY <2>2, <1>5, CalmTypes DEF Calm, StayParts, VersionsInv
  <2>3. CASE k = [pod |-> p, type |-> EventOf(store[p], v)]
    BY <2>3, <1>1 DEF EventOf
  <2>. QED  BY <2>1, <2>2, <2>3
<1>7. \A t \in Thread : stage'[t] = "fetched" =>
          /\ item'[t].key.type # "delete" /\ store'[item'[t].key.pod] # None
          /\ item'[t].pod # None /\ item'[t].pod.job = 1
  BY <1>5, CalmTypes DEF Calm, StayParts, VersionsInv
<1>. QED  BY <1>2, <1>3, <1>4, <1>6, <1>7 DEF VersionsInv

LEMMA WatchStays ==
    ASSUME Calm, NEW p \in Pod, WatchEvent(p) \/ Relist(p)
    PROVE  StayParts'
<1>1. UNCHANGED <<status, serverList, rankIndex, cachedPodNum, taskReplicasTotal, cmMu, pc,
                  ctx, cm, annotation, faults, owner, ready, stage, item, businessWorker>>
  BY DEF WatchEvent, Relist, vars, pods, agent
<1>2. /\ watch[p] \in Seq(Version \cup {None}) /\ watch[p] # << >>
      /\ p \in Live
  BY CalmTypes DEF Calm, WatchEvent, Relist, StayParts, VersionsInv
<1>3. ASSUME WatchEvent(p) PROVE VersionsInv'
  <2>1. Head(watch[p]) # None /\ Head(watch[p]).job = 1
    <3>1. 1 \in DOMAIN watch[p] /\ Head(watch[p]) = watch[p][1]
      BY <1>2
    <3>. QED  BY <3>1 DEF Calm, StayParts, VersionsInv
  <2>2. \A i \in DOMAIN Tail(watch[p]) : Tail(watch[p])[i] # None /\ Tail(watch[p])[i].job = 1
    <3>1. \A i \in DOMAIN Tail(watch[p]) : /\ Tail(watch[p])[i] = watch[p][i + 1]
                                           /\ i + 1 \in DOMAIN watch[p]
      BY <1>2
    <3>. QED  BY <3>1 DEF Calm, StayParts, VersionsInv
  <2>3. /\ store' = [store EXCEPT ![p] = Head(watch[p])]
        /\ watch' = [watch EXCEPT ![p] = Tail(watch[p])]
        /\ \/ waiting' = waiting
           \/ waiting' = waiting \cup {[pod |-> p, type |-> EventOf(store[p], Head(watch[p]))]}
    BY <1>3 DEF WatchEvent
  <2>. QED  BY <1>1, <1>2, <2>1, <2>2, <2>3, StoredVersions
<1>4. ASSUME Relist(p) PROVE VersionsInv'
  <2>1. CurrentVersion(p) # None /\ CurrentVersion(p).job = 1
    BY <1>2, VersionOfLive
  <2>2. \A i \in DOMAIN << >> : << >>[i] # None /\ << >>[i].job = 1
    OBVIOUS
  <2>3. /\ store' = [store EXCEPT ![p] = CurrentVersion(p)]
        /\ watch' = [watch EXCEPT ![p] = << >>]
        /\ \/ waiting' = waiting
           \/ waiting' = waiting \cup {[pod |-> p, type |-> EventOf(store[p], CurrentVersion(p))]}
    BY <1>4 DEF Relist
  <2>. QED  BY <1>1, <1>2, <2>1, <2>2, <2>3, StoredVersions
<1>5. HandlersInv' /\ LiveInv' /\ WorkerInv'
  BY <1>1 DEF Calm, StayParts, HandlersInv, LiveInv, WorkerInv, Live
<1>. QED  BY <1>3, <1>4, <1>5 DEF StayParts

LEMMA DueStays ==
    ASSUME Calm, NEW k \in waiting, Due(k)
    PROVE  StayParts'
<1>1. /\ UNCHANGED <<status, serverList, rankIndex, cachedPodNum, taskReplicasTotal, cmMu, pc,
                     ctx, cm, annotation, faults, owner, watch, store, stage, item,
                     businessWorker>>
      /\ waiting' \cup ready' = waiting \cup ready
  BY DEF Due, vars, pods, informer, agent
<1>. QED  BY <1>1
          DEF Calm, StayParts, VersionsInv, HandlersInv, LiveInv, WorkerInv, Live

LEMMA TakeStays ==
    ASSUME Calm, NEW t \in Thread, NEW k \in ready, Take(t, k)
    PROVE  StayParts'
<1>1. /\ UNCHANGED <<status, serverList, rankIndex, cachedPodNum, taskReplicasTotal, cmMu, pc,
                     ctx, cm, annotation, faults, owner, watch, store, waiting,
                     businessWorker>>
      /\ ready' = ready \ {k}
      /\ stage' = [stage EXCEPT ![t] = "fetched"]
      /\ item' = [item EXCEPT ![t] = [key |-> k, pod |-> store[k.pod]]]
  BY DEF Take, vars, pods, informer
<1>2. k.pod \in Pod /\ k.type # "delete" /\ store[k.pod] # None /\ store[k.pod].job = 1
  BY CalmTypes DEF Calm, StayParts, VersionsInv
<1>3. item'[t] = [key |-> k, pod |-> store[k.pod]]
      /\ \A u \in Thread : u # t => item'[u] = item[u] /\ stage'[u] = stage[u]
  <2>1. item \in [Thread -> [key : Key, pod : Version \cup {None}] \cup {None}]
    BY DEF Calm, AgentInv, Typed, AgentTypeOK
  <2>. QED  BY <1>1, <2>1, CalmTypes DEF Calm
<1>4. \A u \in Thread : stage'[u] = "fetched" =>
          /\ item'[u].key.type # "delete" /\ store'[item'[u].key.pod] # None
          /\ item'[u].pod # None /\ item'[u].pod.job = 1
  BY <1>1, <1>2, <1>3 DEF Calm, StayParts, VersionsInv
<1>5. VersionsInv'
  BY <1>1, <1>4 DEF Calm, StayParts, VersionsInv, Live
<1>. QED  BY <1>1, <1>5 DEF Calm, StayParts, HandlersInv, LiveInv, WorkerInv, Live

-----------------------------------------------------------------------------
(* The pods stay: steps of the threads *)

\* A thread that has read a pod hands it to the worker, with its chips, or
\* gives it back; it drops the event only of a completed table.
LEMMA DispatchKinds ==
    ASSUME Calm, NEW t \in Thread, Dispatch(t)
    PROVE  LET p == item[t].key.pod
               v == item[t].pod
           IN  /\ stage[t] = "fetched" /\ pc[t] = "idle"
               /\ p \in Pod /\ p \in Live /\ v \in Version /\ store[p] # None
               /\ item[t].key \in Key
               /\ UNCHANGED <<worker, cmMu, api, pods, informer, businessWorker, spent>>
               /\ \/ Requeue(t)
                  \/ Forget(t) /\ status = Completed /\ businessWorker = 1
                  \/ /\ Enter(t) /\ businessWorker = 1
                     /\ Goto(t, "sync")
                     /\ ctx' = [ctx EXCEPT ![t] = [pod |-> p, rank |-> v.rank,
                                                   device |-> "valid", tmp |-> None]]
<1>. DEFINE p == item[t].key.pod
            v == item[t].pod
            s == SnapshotOf(p, v, created[p], businessWorker)
<1>1. stage[t] = "fetched" /\ pc[t] = "idle"
  BY DEF Dispatch, Calm, AgentInv, Typed, Entered
<1>2. /\ item[t].key.type # "delete" /\ v # None /\ store[p] # None
      /\ p \in Pod /\ v \in Version \cup {None} /\ item[t].key \in Key
  BY <1>1, CalmTypes DEF Calm, StayParts, VersionsInv
<1>3. p \in Live /\ v \in Version
  BY <1>2 DEF Calm, StayParts, VersionsInv
<1>4. \/ businessWorker = 0 /\ Requeue(t)
      \/ businessWorker # 0 /\ Requeue(t)
      \/ businessWorker # 0 /\ status = Completed /\ Forget(t)
      \/ businessWorker # 0 /\ Enter(t) /\ DoWork(t, s)
  BY <1>2 DEF Dispatch
<1>5. businessWorker \in {0, 1}
  BY DEF Calm, StayParts, WorkerInv
<1>6. /\ UNCHANGED <<pods, informer, businessWorker, spent>>
      /\ UNCHANGED <<worker, cmMu, api>>
  <2>1. UNCHANGED <<pods, informer, businessWorker, spent>>
    BY DEF Dispatch
  <2>. QED  BY <1>4, <2>1 DEF Requeue, Forget, DoWork, vars, worker, api
<1>7. DoWork(t, s) => /\ Goto(t, "sync")
                      /\ ctx' = [ctx EXCEPT ![t] = [pod |-> p, rank |-> v.rank,
                                                   device |-> "valid", tmp |-> None]]
  <2>1. s.pod = p /\ s.rank = v.rank /\ s.device = v.device /\ s.usesChip = TRUE
    BY DEF SnapshotOf
  <2>2. v.device \in {"absent", "valid"}
    BY <1>3 DEF Version
  <2>3. ~NotReady(s) => v.device = "valid"
    BY <2>1, <2>2 DEF NotReady
  <2>. QED  BY <2>1, <2>3 DEF DoWork, Requeued
<1>. QED  BY <1>1, <1>2, <1>3, <1>4, <1>5, <1>6, <1>7

LEMMA DispatchStays ==
    ASSUME Calm, NEW t \in Thread, Dispatch(t)
    PROVE  StayParts'
<1>. DEFINE p == item[t].key.pod
<1>1. /\ stage[t] = "fetched" /\ pc[t] = "idle" /\ p \in Live /\ store[p] # None
      /\ item[t].key.type # "delete" /\ item[t].key \in Key
      /\ UNCHANGED <<status, serverList, rankIndex, cachedPodNum, taskReplicasTotal, cmMu,
                     cm, annotation, faults, owner, watch, store, businessWorker>>
  BY DispatchKinds DEF Calm, StayParts, VersionsInv, worker, api, pods, informer
<1>2. /\ waiting' \cup ready' \subseteq waiting \cup ready \cup {item[t].key}
      /\ \A u \in Thread : stage'[u] = "fetched" => u # t /\ stage[u] = "fetched"
                                                     /\ item'[u] = item[u]
  <2>1. item \in [Thread -> [key : Key, pod : Version \cup {None}] \cup {None}]
        /\ stage \in [Thread -> {"free", "fetched", "running"}]
    BY DEF Calm, AgentInv, Typed, AgentTypeOK
  <2>2. \/ Release(t) /\ waiting' \in {waiting, waiting \cup {item[t].key}} /\ ready' = ready
        \/ Enter(t)
    BY DispatchKinds DEF Requeue, Forget, queue
  <2>3. CASE Enter(t)
    BY <2>1, <2>3 DEF Enter, queue
  <2>4. CASE Release(t) /\ waiting' \in {waiting, waiting \cup {item[t].key}} /\ ready' = ready
    BY <2>1, <2>4 DEF Release
  <2>. QED  BY <2>2, <2>3, <2>4
<1>3. VersionsInv'
  BY <1>1, <1>2 DEF Calm, StayParts, VersionsInv, Live
<1>4. \A u \in Thread : \/ pc'[u] = "idle"
                        \/ pc'[u] = pc[u] /\ ctx'[u] = ctx[u] /\ u # t
                        \/ u = t /\ pc'[u] = "sync" /\ ctx'[u].pod = p
                           /\ ctx'[u].device = "valid" /\ businessWorker = 1
  BY <1>1, DispatchKinds, CalmTypes DEF Calm, Requeue, Forget, vars, Goto
<1>5. HandlersInv'
  BY <1>1, <1>4 DEF Calm, StayParts, HandlersInv, Live
<1>6. LiveInv' /\ WorkerInv'
  <2>1. \A u \in Thread : pc[u] = "publish" => pc'[u] = "publish"
    BY <1>1, DispatchKinds, CalmTypes DEF Calm, Requeue, Forget, vars, Goto
  <2>. QED  BY <1>1, <1>4, <2>1 DEF Calm, StayParts, LiveInv, WorkerInv, Live
<1>. QED  BY <1>3, <1>5, <1>6 DEF StayParts

LEMMA FinishStays ==
    ASSUME Calm, NEW t \in Thread, Finish(t)
    PROVE  StayParts'
<1>1. /\ UNCHANGED <<status, serverList, rankIndex, cachedPodNum, taskReplicasTotal, cmMu, pc,
                     ctx, cm, annotation, faults, owner, watch, store, waiting, ready,
                     businessWorker>>
      /\ stage' = [stage EXCEPT ![t] = "free"] /\ item' = [item EXCEPT ![t] = None]
  BY DEF Finish, Forget, Release, vars, pods, informer, queue
<1>2. \A u \in Thread : stage'[u] = "fetched" => stage[u] = "fetched" /\ item'[u] = item[u]
  BY <1>1, CalmTypes DEF Calm
<1>3. VersionsInv'
  BY <1>1, <1>2 DEF Calm, StayParts, VersionsInv, Live
<1>. QED  BY <1>1, <1>3 DEF Calm, StayParts, HandlersInv, LiveInv, WorkerInv, Live

\* The worker begins with the status of the ConfigMap.
LEMMA StartStays ==
    ASSUME Calm, StartWorker
    PROVE  StayParts'
<1>1. /\ UNCHANGED <<taskReplicasTotal, cmMu, pc, ctx, cm, annotation, faults, owner, watch,
                     store, waiting, ready, stage, item>>
      /\ status' = cm.status /\ serverList' = << >> /\ rankIndex' = 0 /\ cachedPodNum' = 0
      /\ businessWorker' = 1
  BY DEF StartWorker, NewWorker, FreshWorker, api, pods, informer, queue, agent
<1>2. Pods(serverList') = {}
  BY <1>1 DEF Pods
<1>. QED  BY <1>1, <1>2
          DEF Calm, StayParts, VersionsInv, HandlersInv, LiveInv, WorkerInv, Live

\* The next process lists the pods there are.
LEMMA RestartStays ==
    ASSUME Calm, Restart
    PROVE  StayParts'
<1>1. /\ UNCHANGED <<taskReplicasTotal, cm, annotation, faults, owner>>
      /\ status' = cm.status /\ serverList' = << >> /\ rankIndex' = 0 /\ cachedPodNum' = 0
      /\ pc' = [t \in Thread |-> "idle"] /\ stage' = [t \in Thread |-> "free"]
      /\ watch' = [p \in Pod |-> << >>] /\ store' = [p \in Pod |-> CurrentVersion(p)]
      /\ waiting' = { [pod |-> p, type |-> "add"] : p \in Live } /\ ready' = {}
      /\ businessWorker' = 0
  BY DEF Restart, Crash, FreshWorker, api, pods
<1>2. Live' = Live /\ Live \subseteq Pod /\ Pods(serverList') = {}
  BY <1>1 DEF Live, Pods
<1>3. \A p \in Pod : IF p \in Live THEN store'[p] # None /\ store'[p].job = 1
                     ELSE store'[p] = None
  <2>1. \A p \in Pod \ Live : CurrentVersion(p) = None
    BY DEF CurrentVersion, VersionOf, Live
  <2>. QED  BY <1>1, <2>1, VersionOfLive
<1>4. VersionsInv'
  <2>1. \A p \in Pod : watch'[p] = << >>
    BY <1>1
  <2>2. \A k \in waiting' \cup ready' : k.type # "delete" /\ store'[k.pod] # None
    BY <1>1, <1>2, <1>3
  <2>3. \A t \in Thread : stage'[t] # "fetched"
    BY <1>1
  <2>. QED  BY <1>1, <1>2, <1>3, <2>1, <2>2, <2>3 DEF Calm, StayParts, VersionsInv
<1>5. HandlersInv'
  BY <1>1 DEF HandlersInv
<1>6. LiveInv' /\ WorkerInv'
  BY <1>1, <1>2 DEF Calm, StayParts, LiveInv, WorkerInv
<1>. QED  BY <1>4, <1>5, <1>6 DEF StayParts

\* A handler that no API call fails for: it gives its pod a rank, caches the
\* pod, or finds it cached, and publishes the table.  It changes the pod's
\* annotation in one step only.
LEMMA WorkKinds ==
    ASSUME Calm, NEW t \in Thread, Work(t), faults' = faults
    PROVE  LET c == ctx[t]
               v == VersionOf(rankIndex, c.pod \in allotted, owner[c.pod])
           IN  /\ stage[t] = "running" /\ businessWorker = 1 /\ taskReplicasTotal > 0
               /\ c \in Context /\ c.pod \in Live /\ c.device = "valid"
               /\ UNCHANGED <<allotted, used, owner, store, waiting, ready, stage, item,
                              businessWorker, spent, taskReplicasTotal>>
               /\ \/ /\ \/ /\ pc[t] = "sync" /\ Goto(t, "addLock")
                           /\ UNCHANGED <<worker, cmMu, ctx, cm>>
                        \/ AddLock(t) \/ AddRejected(t) \/ CachePod(t) \/ CacheRejected(t)
                        \/ Publish(t) /\ Written
                     /\ UNCHANGED <<annotation, watch>>
                  \/ /\ pc[t] = "annotate" /\ Goto(t, "cache")
                     /\ Annotated(c.pod)
                     /\ UNCHANGED <<worker, cmMu, ctx, cm>>
                     /\ watch' \in {watch, [watch EXCEPT ![c.pod] = Append(watch[c.pod], v)]}
<1>. DEFINE c == ctx[t]
            v == VersionOf(rankIndex, c.pod \in allotted, owner[c.pod])
<1>1. Step(t) /\ pc[t] # "idle"
  BY DEF Work, Step, AddSteps, DeleteSteps, SyncHandler, AddLock, AddRejected, UpdatePod,
         CachePod, CacheRejected, Publish, ZeroPublish, DeleteLock, DeleteRejected,
         DeletePublish
<1>2. /\ stage[t] = "running" /\ businessWorker = 1 /\ taskReplicasTotal > 0
      /\ c \in Context /\ c.pod \in Live /\ c.device = "valid"
      /\ pc[t] \notin {"deleteLock", "deletePublish", "zeroPublish"}
  BY <1>1, CalmTypes, HandlersMeanReplicas DEF Calm, StayParts, HandlersInv
<1>3. UNCHANGED <<allotted, used, owner, store, waiting, ready, stage, item,
                  businessWorker, spent>>
  BY DEF Work, pods, queue, agent
<1>4. ~Fault
  BY CalmTypes DEF Fault, Calm
<1>5. \/ SyncHandler(t) \/ AddLock(t) \/ AddRejected(t) \/ UpdatePod(t)
      \/ CachePod(t) \/ CacheRejected(t) \/ Publish(t)
  BY <1>1, <1>2 DEF Step, AddSteps, DeleteSteps, ZeroPublish, DeleteLock, DeleteRejected,
                    DeletePublish
<1>6. annotation' = annotation => watch' = watch
  BY CalmTypes DEF Work, Calm
<1>7. CASE SyncHandler(t)
  <2>1. ~NothingToCache
    BY <1>2 DEF NothingToCache
  <2>2. pc[t] = "sync" /\ Goto(t, "addLock") /\ UNCHANGED <<worker, cmMu, ctx, api>>
    BY <1>2, <1>7, <2>1 DEF SyncHandler, worker
  <2>. QED  BY <1>2, <1>3, <1>6, <2>2 DEF api, worker
<1>8. CASE AddLock(t) \/ AddRejected(t) \/ CachePod(t) \/ CacheRejected(t)
  <2>1. annotation' = annotation /\ taskReplicasTotal' = taskReplicasTotal
    BY <1>8 DEF AddLock, AddRejected, CachePod, CacheRejected, api, worker
  <2>. QED  BY <1>2, <1>3, <1>6, <1>8, <2>1
<1>9. CASE Publish(t)
  <2>1. annotation' = annotation /\ taskReplicasTotal' = taskReplicasTotal
    BY <1>9 DEF Publish
  <2>2. Written
    BY <1>4, <1>9 DEF Publish, UpdateConfigMap, NotAcknowledged
  <2>. QED  BY <1>2, <1>3, <1>6, <1>9, <2>1, <2>2
<1>10. CASE UpdatePod(t)
  <2>1. annotation[c.pod] # Gone /\ c.pod \in Pod
    BY <1>2 DEF Live
  <2>2. /\ pc[t] = "annotate" /\ Goto(t, "cache") /\ Annotated(c.pod)
        /\ UNCHANGED <<worker, cmMu, ctx, cm>>
    BY <1>4, <1>10, <2>1 DEF UpdatePod
  <2>3. annotation' = [annotation EXCEPT ![c.pod] = rankIndex]
    BY <2>2 DEF Annotated
  <2>4. watch' = [p \in Pod |-> IF annotation'[p] = annotation[p] THEN watch[p]
                                ELSE Append(watch[p], CurrentVersion(p)')]
    BY DEF Work
  <2>5. CASE annotation'[c.pod] = annotation[c.pod]
    <3>1. annotation' = annotation
      BY <2>3, <2>5, CalmTypes DEF Calm
    <3>. QED  BY <1>2, <1>3, <1>6, <2>2, <3>1 DEF worker
  <2>6. CASE annotation'[c.pod] # annotation[c.pod]
    <3>1. \A p \in Pod : CurrentVersion(p)' = VersionOf(annotation'[p], p \in allotted, owner[p])
      BY <1>3 DEF CurrentVersion
    <3>2. /\ \A p \in Pod : p # c.pod => annotation'[p] = annotation[p]
          /\ annotation'[c.pod] = rankIndex
      BY <2>1, <2>3, CalmTypes DEF Calm
    <3>3. \A p \in Pod : watch'[p] = [watch EXCEPT ![c.pod] = Append(watch[c.pod], v)][p]
      <4>1. \A p \in Pod : p # c.pod => watch'[p] = watch[p]
        BY <2>4, <3>2
      <4>2. watch'[c.pod] = Append(watch[c.pod], v)
        BY <2>1, <2>4, <2>6, <3>1, <3>2
      <4>. HIDE DEF v, c
      <4>. QED  BY <2>1, <4>1, <4>2, CalmTypes DEF Calm
    <3>4. watch' = [watch EXCEPT ![c.pod] = Append(watch[c.pod], v)]
      <4>. HIDE DEF v, c
      <4>1. DOMAIN watch' = Pod /\ watch' = [p \in Pod |-> watch'[p]]
        BY <2>4
      <4>2. DOMAIN watch = Pod
        BY CalmTypes DEF Calm
      <4>. QED  BY <3>3, <4>1, <4>2
    <3>. QED  BY <1>2, <1>3, <2>2, <3>4 DEF worker
  <2>. QED  BY <2>5, <2>6
<1>. QED  BY <1>5, <1>7, <1>8, <1>9, <1>10

\* Where a step takes a handler; the other handlers stay where they are.
LEMMA WorkMoves ==
    ASSUME Calm, NEW t \in Thread, Work(t), faults' = faults
    PROVE  /\ \A u \in Thread : u # t => pc'[u] = pc[u] /\ ctx'[u] = ctx[u]
           /\ \/ pc'[t] = "idle"
              \/ /\ pc'[t] \in {"addLock", "annotate", "cache", "publish"}
                 /\ ctx'[t].pod = ctx[t].pod /\ ctx'[t].rank = ctx[t].rank
                 /\ ctx'[t].device = "valid"
<1>1. ctx[t] \in Context /\ ctx[t].device = "valid"
  BY WorkKinds
<1>2. pc \in [Thread -> PC] /\ ctx \in [Thread -> Context \cup {None}]
  BY CalmTypes DEF Calm
<1>3. CASE AddLock(t)
  <2>1. ctx' = [ctx EXCEPT ![t] = [ctx[t] EXCEPT !.tmp = rankIndex]]
    BY <1>3 DEF AddLock
  <2>2. ctx'[t].pod = ctx[t].pod /\ ctx'[t].rank = ctx[t].rank /\ ctx'[t].device = ctx[t].device
    BY <1>1, <1>2, <2>1 DEF Context
  <2>. QED  BY <1>1, <1>2, <1>3, <2>1, <2>2 DEF AddLock, Goto
<1>4. CASE AddRejected(t) \/ CacheRejected(t) \/ Publish(t)
  BY <1>2, <1>4 DEF AddRejected, CacheRejected, Publish, Return, Goto
<1>5. CASE CachePod(t)
  BY <1>1, <1>2, <1>5 DEF CachePod, Return, Goto
<1>6. CASE (Goto(t, "addLock") \/ Goto(t, "cache")) /\ ctx' = ctx
  BY <1>1, <1>2, <1>6 DEF Goto
<1>. QED  BY <1>3, <1>4, <1>5, <1>6, WorkKinds

LEMMA WorkStays ==
    ASSUME Calm, NEW t \in Thread, Work(t), faults' = faults
    PROVE  StayParts'
<1>. DEFINE p == ctx[t].pod
            v == VersionOf(rankIndex, p \in allotted, owner[p])
<1>1. /\ p \in Live /\ p \in Pod /\ businessWorker = 1 /\ taskReplicasTotal > 0
      /\ UNCHANGED <<owner, store, waiting, ready, stage, item, businessWorker,
                     taskReplicasTotal>>
  BY WorkKinds DEF Live
<1>2. VersionsInv' /\ Live' = Live
  <2>1. CASE UNCHANGED <<annotation, watch>>
    BY <1>1, <2>1 DEF Calm, StayParts, VersionsInv, Live
  <2>2. CASE /\ Annotated(p)
             /\ watch' \in {watch, [watch EXCEPT ![p] = Append(watch[p], v)]}
    <3>1. annotation' = [annotation EXCEPT ![p] = rankIndex] /\ rankIndex \in Int
      BY <2>2, CalmTypes DEF Annotated, Calm
    <3>2. Live' = Live
      BY <1>1, <3>1, CalmTypes, GoneAssumption DEF Live, Calm
    <3>3. v # None /\ v.job = 1
      <4>1. owner[p] = 1
        BY <1>1, VersionOfLive
      <4>. QED  BY <3>1, <4>1, GoneAssumption, NoVersionAssumption DEF VersionOf, Version
    <3>. HIDE DEF v, p
    <3>4. CASE watch' = watch
      BY <1>1, <3>2, <3>4 DEF Calm, StayParts, VersionsInv
    <3>5. CASE watch' = [watch EXCEPT ![p] = Append(watch[p], v)]
      <4>1. Live' = Live \cup {p}
        BY <1>1, <3>2
      <4>2. owner' = [owner EXCEPT ![p] = 1]
        BY <1>1, VersionOfLive, CalmTypes DEF Calm
      <4>. QED  BY <1>1, <3>2, <3>3, <3>5, <4>1, <4>2, NotifiedVersions
    <3>. QED  BY <2>2, <3>2, <3>4, <3>5
  <2>. QED  BY <2>1, <2>2, WorkKinds
<1>3. HandlersInv'
  BY <1>1, <1>2, WorkMoves DEF Calm, StayParts, HandlersInv
<1>4. LiveInv'
  <2>1. Pods(serverList') \subseteq Live
    <3>1. CASE CachePod(t)
      BY <1>1, <3>1, CachePodInfoLemma, CalmTypes DEF CachePod, Calm, StayParts, LiveInv
    <3>2. CASE UNCHANGED serverList
      BY <3>2 DEF Calm, StayParts, LiveInv
    <3>. QED  BY <3>1, <3>2, WorkKinds DEF worker, AddLock, AddRejected, CacheRejected, Publish
  <2>2. cm' = cm \/ cm' = RankTableData
    BY WorkKinds DEF AddLock, AddRejected, CachePod, CacheRejected, Written, api
  <2>. QED  BY <1>1, <1>2, <2>1, <2>2 DEF Calm, StayParts, LiveInv, RankTableData
<1>5. WorkerInv'
  <2>1. CASE CachePod(t)
    <3>1. /\ cm' = cm /\ cachedPodNum' = cachedPodNum + 1
          /\ \/ cachedPodNum' = taskReplicasTotal /\ pc'[t] = "publish"
             \/ cachedPodNum' # taskReplicasTotal /\ status' = status
      BY <2>1, CalmTypes DEF CachePod, api, Goto, Calm
    <3>2. \A u \in Thread : pc[u] = "publish" => pc'[u] = "publish"
      BY <2>1, WorkMoves DEF CachePod
    <3>. QED  BY <1>1, <3>1, <3>2 DEF Calm, StayParts, WorkerInv
  <2>2. CASE Publish(t) /\ Written
    <3>1. cm'.status = Completed /\ cm'.replicas = taskReplicasTotal
      BY <2>2 DEF Written, RankTableData, Publish, Calm, AgentInv, IInv, PublishInv
    <3>. QED  BY <1>1, <3>1 DEF WorkerInv
  <2>3. CASE /\ UNCHANGED <<status, cachedPodNum, cm>> /\ pc[t] # "publish"
    <3>1. \A u \in Thread : pc[u] = "publish" => pc'[u] = "publish"
      BY <2>3, WorkMoves
    <3>. QED  BY <1>1, <2>3, <3>1 DEF Calm, StayParts, WorkerInv
  <2>. QED  BY <2>1, <2>2, <2>3, WorkKinds
            DEF worker, AddLock, AddRejected, CacheRejected, api
<1>. QED  BY <1>2, <1>3, <1>4, <1>5 DEF StayParts

\* While the job is undisturbed its pods stay, and no event takes one out.
LEMMA StayStep ==
    ASSUME SnapshotsCover, AgentInv, StayInv, [AgentNext]_agentVars, Undisturbed'
    PROVE  Calm /\ faults' = faults /\ AgentInv' /\ StayParts'
<1>1. Calm /\ faults' = faults /\ AgentInv' /\ \A p \in Pod : ~DeletePod(p)
  BY UndisturbedBefore DEF Calm, StayInv
<1>2. CASE UNCHANGED agentVars
  BY <1>1, <1>2 DEF agentVars, vars, Calm, StayParts, VersionsInv, HandlersInv, LiveInv,
                    WorkerInv, Live
<1>3. CASE \E p \in Pod : \/ CreatePod(p, 1, 1, taskReplicasTotal, FALSE)
                          \/ AllotDevices(p) \/ WatchEvent(p) \/ Relist(p)
  BY <1>1, <1>3, CreateStays, AllotStays, WatchStays
<1>4. CASE \E k \in waiting : Due(k)
  BY <1>1, <1>4, DueStays
<1>5. CASE \E t \in Thread : ThreadSteps(t)
  BY <1>1, <1>5, TakeStays, DispatchStays, WorkStays, FinishStays DEF ThreadSteps
<1>6. CASE StartWorker \/ Restart
  BY <1>1, <1>6, StartStays, RestartStays
<1>. QED  BY <1>1, <1>2, <1>3, <1>4, <1>5, <1>6 DEF AgentNext, BuildNext

-----------------------------------------------------------------------------
(* No event is lost *)

\* validate refuses no rank that a pod of a job of one of the sizes can have.
RoomForRanks == \A n \in Replicas : n <= MaxRankIndex + 1

\* What is published as completed stays so.
LEMMA CompletedStays ==
    ASSUME SnapshotsCover, AgentInv, StayInv, [AgentNext]_agentVars, Undisturbed',
           cm.status = Completed
    PROVE  cm'.status = Completed /\ cm' \in {cm, RankTableData}
<1>1. Calm /\ faults' = faults /\ \A p \in Pod : ~DeletePod(p)
  BY StayStep, UndisturbedBefore
<1>2. CASE cm' = cm
  BY <1>2
<1>3. ASSUME NEW t \in Thread, Work(t) PROVE cm'.status = Completed /\ cm' \in {cm, RankTableData}
  <2>1. CASE Publish(t) /\ Written
    BY <1>1, <2>1
    DEF Publish, Written, RankTableData, Calm, AgentInv, IInv, PublishInv
  <2>. QED  BY <1>1, <1>2, <1>3, <2>1, WorkKinds
            DEF AddLock, AddRejected, CachePod, CacheRejected, api
<1>4. ASSUME NEW t \in Thread, Dispatch(t) PROVE cm' = cm
  BY <1>1, <1>4, DispatchKinds DEF api
<1>5. CASE Restart
  BY <1>2, <1>5 DEF Restart, Crash, api
<1>. QED  BY <1>1, <1>2, <1>3, <1>4, <1>5
          DEF AgentNext, BuildNext, ThreadSteps, agentVars, vars, CreatePod, ReplacePod,
              AllotDevices, WatchEvent, Relist, Due, Take, Finish, Forget, StartWorker,
              NewWorker, api

LEMMA ToldFrame ==
    ASSUME NEW p \in Pod, Told(p), UNCHANGED <<serverList, stage, item, pc, ctx>>,
           waiting \cup ready \subseteq waiting' \cup ready'
    PROVE  Told(p)'
BY DEF Told, Keyed, Fetched, Caching

\* The informer tells of a pod when it stores the first version of it.
LEMMA ToldWatch ==
    ASSUME Calm, NEW q \in Pod, WatchEvent(q) \/ Relist(q), NEW p \in Pod,
           store[p] # None => Told(p), store'[p] # None
    PROVE  Told(p)'
<1>1. /\ UNCHANGED <<serverList, stage, item, pc, ctx, ready>>
      /\ waiting \subseteq waiting'
  BY DEF WatchEvent, Relist, vars, agent
<1>2. CASE store'[p] = store[p]
  BY <1>1, <1>2, ToldFrame
<1>3. CASE store'[p] # store[p]
  <2>1. p = q
    BY <1>3, CalmTypes DEF WatchEvent, Relist, Calm
  <2>2. \E e : [pod |-> p, type |-> e] \in waiting'
    BY <1>3, <2>1, CalmTypes DEF WatchEvent, Relist, Calm
  <2>. QED  BY <2>2 DEF Told, Keyed
<1>. QED  BY <1>2, <1>3

\* Taking a key keeps it in hand.
LEMMA ToldTake ==
    ASSUME Calm, NEW t \in Thread, NEW k \in ready, Take(t, k), NEW p \in Pod, Told(p)
    PROVE  Told(p)'
<1>1. /\ UNCHANGED <<serverList, pc, ctx, waiting>> /\ ready' = ready \ {k}
      /\ stage[t] = "free"
      /\ stage' = [stage EXCEPT ![t] = "fetched"]
      /\ item' = [item EXCEPT ![t] = [key |-> k, pod |-> store[k.pod]]]
  BY DEF Take, vars
<1>2. /\ item \in [Thread -> [key : Key, pod : Version \cup {None}] \cup {None}]
      /\ stage \in [Thread -> {"free", "fetched", "running"}]
  BY DEF Calm, AgentInv, Typed, AgentTypeOK
<1>3. CASE Cached(serverList, p) \/ Caching(p)
  BY <1>1, <1>3 DEF Told, Caching
<1>4. CASE Keyed(p)
  <2>1. PICK j \in waiting \cup ready : j.pod = p
    BY <1>4 DEF Keyed
  <2>2. CASE j = k
    <3>1. stage'[t] = "fetched" /\ item'[t].key.pod = p
      BY <1>1, <1>2, <2>1, <2>2
    <3>. QED  BY <3>1 DEF Told, Fetched
  <2>3. CASE j # k
    BY <1>1, <2>1, <2>3 DEF Told, Keyed
  <2>. QED  BY <2>2, <2>3
<1>5. CASE Fetched(p)
  <2>1. PICK u \in Thread : stage[u] = "fetched" /\ item[u].key.pod = p
    BY <1>5 DEF Fetched
  <2>2. stage'[u] = "fetched" /\ item'[u].key.pod = p
    BY <1>1, <1>2, <2>1
  <2>. QED  BY <2>2 DEF Told, Fetched
<1>. QED  BY <1>3, <1>4, <1>5 DEF Told

\* An event is dropped only when the table has all pods.
LEMMA ToldDispatch ==
    ASSUME Calm, NEW t \in Thread, Dispatch(t), NEW p \in Pod, Told(p),
           cm.status # Completed
    PROVE  Told(p)'
<1>1. /\ UNCHANGED serverList /\ waiting \cup ready \subseteq waiting' \cup ready'
      /\ item[t].key.pod \in Live /\ stage[t] = "fetched" /\ pc[t] = "idle"
  BY DispatchKinds DEF worker, Requeue, Forget, Enter, queue
<1>2. /\ item \in [Thread -> [key : Key, pod : Version \cup {None}] \cup {None}]
      /\ stage \in [Thread -> {"free", "fetched", "running"}]
      /\ pc \in [Thread -> PC] /\ ctx \in [Thread -> Context \cup {None}]
  BY CalmTypes DEF Calm, AgentInv, Typed, AgentTypeOK
<1>3. \A u \in Thread : u # t => /\ stage'[u] = stage[u] /\ item'[u] = item[u]
                                 /\ pc'[u] = pc[u] /\ ctx'[u] = ctx[u]
  <2>1. \A u \in Thread : u # t => stage'[u] = stage[u] /\ item'[u] = item[u]
    BY <1>2, DispatchKinds DEF Requeue, Forget, Release, Enter
  <2>2. \A u \in Thread : u # t => pc'[u] = pc[u] /\ ctx'[u] = ctx[u]
    BY <1>2, DispatchKinds DEF Requeue, Forget, vars, Goto
  <2>. QED  BY <2>1, <2>2
<1>4. CASE Cached(serverList, p) \/ Keyed(p)
  BY <1>1, <1>4 DEF Told, Keyed
<1>5. CASE Caching(p)
  <2>1. PICK u \in Thread : /\ pc[u] \in {"sync", "addLock", "annotate", "cache"}
                            /\ ctx[u].pod = p
    BY <1>5 DEF Caching
  <2>. QED  BY <1>1, <1>3, <2>1 DEF Told, Caching
<1>6. CASE Fetched(p)
  <2>1. PICK u \in Thread : stage[u] = "fetched" /\ item[u].key.pod = p
    BY <1>6 DEF Fetched
  <2>2. CASE u # t
    BY <1>3, <2>1, <2>2 DEF Told, Fetched
  <2>3. CASE u = t /\ Requeue(t)
    BY <2>1, <2>3 DEF Told, Keyed, Requeue
  <2>4. CASE u = t /\ Forget(t) /\ status = Completed
    <3>1. PICK x \in Thread : pc[x] = "publish"
      BY <2>4 DEF Calm, StayParts, WorkerInv
    <3>2. cachedPodNum = taskReplicasTotal /\ taskReplicasTotal \in Nat
      BY <3>1, CalmTypes DEF Calm, AgentInv, IInv, PublishInv
    <3>3. Pods(serverList) = Live
      BY <3>2, TableIsFull
    <3>. QED  BY <1>1, <2>1, <2>4, <3>3 DEF Told, Cached
  <2>5. CASE /\ u = t /\ Goto(t, "sync")
             /\ ctx' = [ctx EXCEPT ![t] = [pod |-> item[t].key.pod, rank |-> item[t].pod.rank,
                                           device |-> "valid", tmp |-> None]]
    <3>1. pc'[t] = "sync" /\ ctx'[t].pod = p
      BY <1>2, <2>1, <2>5 DEF Goto
    <3>. QED  BY <3>1 DEF Told, Caching
  <2>. QED  BY <2>2, <2>3, <2>4, <2>5, DispatchKinds
<1>. QED  BY <1>4, <1>5, <1>6 DEF Told

\* A handler ends with its pod in the table: the rank that the pod brings is in
\* range, and the chips pass the test.
LEMMA ToldWork ==
    ASSUME RoomForRanks, Calm, RangeInv, NEW t \in Thread, Work(t), faults' = faults,
           NEW p \in Pod, Told(p), cm.status # Completed
    PROVE  Told(p)'
<1>1. /\ UNCHANGED <<stage, item, waiting, ready>>
      /\ ctx[t] \in Context /\ ctx[t].device = "valid" /\ ctx[t].pod \in Pod
  BY WorkKinds DEF Live
<1>2. CASE Keyed(p) \/ Fetched(p)
  BY <1>1, <1>2 DEF Told, Keyed, Fetched
<1>3. CASE Cached(serverList, p)
  <2>1. CASE CachePod(t)
    <3>1. Pods(serverList') = Pods(serverList) \cup {ctx[t].pod}
      BY <1>1, <2>1, CachePodInfoLemma, CalmTypes DEF CachePod, Calm
    <3>. QED  BY <1>3, <3>1 DEF Told, Cached
  <2>2. CASE serverList' = serverList
    BY <1>3, <2>2 DEF Told
  <2>. QED  BY <2>1, <2>2, WorkKinds DEF worker, AddLock, AddRejected, CacheRejected, Publish
<1>4. CASE Caching(p)
  <2>1. PICK u \in Thread : /\ pc[u] \in {"sync", "addLock", "annotate", "cache"}
                            /\ ctx[u].pod = p
    BY <1>4 DEF Caching
  <2>2. CASE u # t
    BY <2>1, <2>2, WorkMoves DEF Told, Caching
  <2>3. CASE u = t
    <3>1. CASE pc'[t] \in {"addLock", "annotate", "cache"}
      BY <2>1, <2>3, <3>1, WorkMoves DEF Told, Caching
    <3>2. CASE AddRejected(t)
      <4>1. ctx[t].rank \in Int \cup {None} /\ ~ValidRank(ctx[t].rank)
        BY <1>1, <3>2 DEF Context, AddRejected
      <4>2. ctx[t].rank \in Int /\ SeenRank(p, ctx[t].rank)
        BY <2>1, <2>3, <4>1 DEF ValidRank, SeenRank
      <4>3. ctx[t].rank \in 0 .. taskReplicasTotal - 1
        BY <4>2 DEF RangeInv, Calm
      <4>4. taskReplicasTotal <= MaxRankIndex + 1 /\ taskReplicasTotal \in Nat
        BY CalmTypes DEF RoomForRanks, Calm, AgentInv, Typed
      <4>. QED  BY <4>1, <4>3, <4>4, MaxRankAssumption DEF ValidRank
    <3>3. CASE CachePod(t)
      <4>1. Pods(serverList') = Pods(serverList) \cup {ctx[t].pod}
        BY <1>1, <3>3, CachePodInfoLemma, CalmTypes DEF CachePod, Calm
      <4>. QED  BY <2>1, <2>3, <4>1 DEF Told, Cached
    <3>4. CASE CacheRejected(t)
      <4>1. Cached(serverList, p) /\ serverList' = serverList
        BY <1>1, <2>1, <2>3, <3>4 DEF CacheRejected, Accepted
      <4>. QED  BY <4>1 DEF Told
    <3>5. AddLock(t) \/ Goto(t, "addLock") \/ Goto(t, "cache") =>
            pc'[t] \in {"addLock", "annotate", "cache"}
      BY CalmTypes DEF AddLock, Goto, Calm
    <3>. QED  BY <2>1, <2>3, <3>1, <3>2, <3>3, <3>4, <3>5, WorkKinds DEF Publish
  <2>. QED  BY <2>2, <2>3
<1>. QED  BY <1>2, <1>3, <1>4 DEF Told

LEMMA ToldStep ==
    ASSUME SnapshotsCover, RoomForRanks, AgentInv, StayInv, RangeInv, ToldInv,
           [AgentNext]_agentVars
    PROVE  ToldInv'
<1>. SUFFICES ASSUME Undisturbed', cm'.status # Completed, NEW p \in Pod, store'[p] # None
              PROVE  Told(p)'
  BY DEF ToldInv
<1>1. /\ Calm /\ faults' = faults /\ cm.status # Completed
      /\ \A q \in Pod : ~DeletePod(q)
      /\ store[p] # None => Told(p)
  BY StayStep, CompletedStays, UndisturbedBefore DEF ToldInv, Calm
<1>2. CASE \/ UNCHANGED agentVars
           \/ \E q \in Pod : CreatePod(q, 1, 1, taskReplicasTotal, FALSE) \/ AllotDevices(q)
           \/ \E k \in waiting : Due(k)
  <2>1. /\ UNCHANGED <<serverList, stage, item, pc, ctx, store>>
        /\ waiting \cup ready \subseteq waiting' \cup ready'
    BY <1>2 DEF agentVars, vars, CreatePod, ReplacePod, AllotDevices, Due, pods, informer, agent,
                queue, worker
  <2>. QED  BY <1>1, <2>1, ToldFrame
<1>3. CASE \E q \in Pod : WatchEvent(q) \/ Relist(q)
  BY <1>1, <1>3, ToldWatch
<1>4. ASSUME NEW t \in Thread, ThreadSteps(t) PROVE Told(p)'
  <2>1. store' = store
    BY <1>1, <1>4, WorkKinds, DispatchKinds DEF ThreadSteps, Take, Finish, informer
  <2>2. CASE Finish(t)
    <3>1. /\ UNCHANGED <<serverList, pc, ctx, waiting, ready>> /\ stage[t] # "fetched"
          /\ stage' = [stage EXCEPT ![t] = "free"] /\ item' = [item EXCEPT ![t] = None]
      BY <2>2 DEF Finish, Forget, Release, vars, queue
    <3>2. \A u \in Thread : stage[u] = "fetched" => stage'[u] = "fetched" /\ item'[u] = item[u]
      BY <1>1, <3>1, CalmTypes DEF Calm, AgentInv, Typed, AgentTypeOK
    <3>. QED  BY <1>1, <2>1, <3>1, <3>2 DEF Told, Keyed, Fetched, Caching
  <2>. QED  BY <1>1, <1>4, <2>1, <2>2, ToldTake, ToldDispatch, ToldWork DEF ThreadSteps
<1>5. CASE StartWorker
  <2>1. serverList = << >> /\ serverList' = << >>
        /\ UNCHANGED <<stage, item, pc, ctx, waiting, ready, store>>
    BY <1>1, <1>5 DEF StartWorker, NewWorker, FreshWorker, Calm, StayParts, WorkerInv,
                      queue, agent, informer
  <2>. QED  BY <1>1, <2>1, ToldFrame
<1>6. CASE Restart
  <2>1. /\ store' = [q \in Pod |-> CurrentVersion(q)]
        /\ waiting' = { [pod |-> q, type |-> "add"] : q \in Live }
    BY <1>6 DEF Restart
  <2>2. p \in Live
    BY <2>1 DEF CurrentVersion, VersionOf, Live
  <2>3. [pod |-> p, type |-> "add"] \in waiting'
    BY <2>1, <2>2
  <2>4. \E k \in waiting' \cup ready' : k.pod = p
    BY <2>3
  <2>. QED  BY <2>4 DEF Told, Keyed
<1>. QED  BY <1>1, <1>2, <1>3, <1>4, <1>5, <1>6 DEF AgentNext, BuildNext

-----------------------------------------------------------------------------
(* Where ranks come from *)

\* The handler of p gives it rank r.
Giving(p, r) ==
    \E t \in Thread : /\ Work(t) /\ pc[t] = "annotate" /\ pc'[t] = "cache"
                      /\ ctx[t].pod = p /\ rankIndex = r

LEMMA SeenByPods ==
    ASSUME Calm, NEW q \in Pod, NEW p \in Pod, NEW r \in Int, SeenRank(p, r)',
           \/ CreatePod(q, 1, 1, taskReplicasTotal, FALSE)
           \/ AllotDevices(q) \/ WatchEvent(q) \/ Relist(q)
    PROVE  SeenRank(p, r)
<1>1. UNCHANGED <<stage, item, pc, ctx>>
  BY DEF CreatePod, ReplacePod, AllotDevices, WatchEvent, Relist, agent, vars
<1>2. /\ watch \in [Pod -> Seq(Version \cup {None})] /\ watch[q] \in Seq(Version \cup {None})
      /\ store \in [Pod -> Version \cup {None}]
      /\ annotation \in [Pod -> Int \cup {None, Gone}]
  BY CalmTypes DEF Calm
<1>3. CASE WatchEvent(q) \/ Relist(q)
  <2>1. annotation' = annotation /\ watch[q] # << >>
        /\ \A x \in Pod : x # q => watch'[x] = watch[x] /\ store'[x] = store[x]
    BY <1>2, <1>3 DEF WatchEvent, Relist, vars
  <2>2. CASE p # q
    BY <1>1, <2>1, <2>2 DEF SeenRank
  <2>3. CASE p = q
    <3>1. CASE WatchEvent(q)
      <4>1. /\ store'[q] = watch[q][1] /\ 1 \in DOMAIN watch[q]
            /\ \A i \in DOMAIN watch'[q] : i + 1 \in DOMAIN watch[q] /\ watch'[q][i] = watch[q][i + 1]
        BY <1>2, <2>1, <3>1 DEF WatchEvent
      <4>. QED  BY <1>1, <2>1, <2>3, <4>1 DEF SeenRank
    <3>2. CASE Relist(q)
      <4>1. /\ store'[q] = CurrentVersion(q) /\ watch'[q] = << >>
            /\ q \in Live
        BY <1>2, <2>1, <3>2 DEF Relist, Calm, StayParts, VersionsInv
      <4>2. CurrentVersion(q).rank = annotation[q]
        BY <4>1, VersionOfLive
      <4>. QED  BY <1>1, <2>1, <2>3, <4>1, <4>2 DEF SeenRank
    <3>. QED  BY <1>3, <3>1, <3>2
  <2>. QED  BY <2>2, <2>3
<1>4. ASSUME NEW v, watch' = [watch EXCEPT ![q] = Append(watch[q], v)], store' = store,
             v # None /\ v.rank = r => annotation[q] = r,
             annotation'[p] = r => annotation[p] = r
      PROVE  SeenRank(p, r)
  <2>1. \A i \in DOMAIN watch'[p] : \/ i \in DOMAIN watch[p] /\ watch'[p][i] = watch[p][i]
                                    \/ p = q /\ watch'[p][i] = v
    <3>1. p # q => watch'[p] = watch[p]
      BY <1>2, <1>4
    <3>2. p = q => watch'[p] = Append(watch[p], v)
      BY <1>2, <1>4
    <3>3. watch[p] \in Seq(Version \cup {None})
      BY <1>2
    <3>4. CASE p # q
      BY <3>1, <3>4
    <3>5. CASE p = q
      BY <3>2, <3>3, <3>5
    <3>. QED  BY <3>4, <3>5
  <2>. QED  BY <1>1, <1>4, <2>1 DEF SeenRank
<1>5. CASE CreatePod(q, 1, 1, taskReplicasTotal, FALSE)
  <2>1. /\ annotation' = [annotation EXCEPT ![q] = None] /\ store' = store
        /\ watch' = [watch EXCEPT ![q] = Append(watch[q], VersionOf(None, FALSE, 1))]
    BY <1>5 DEF CreatePod, ReplacePod, Notify
  <2>2. annotation'[p] = r => annotation[p] = r
    BY <1>2, <2>1, NoneAssumption
  <2>3. VersionOf(None, FALSE, 1) # None => VersionOf(None, FALSE, 1).rank # r
    BY NoneAssumption DEF VersionOf
  <2>. QED  BY <1>4, <2>1, <2>2, <2>3
<1>6. CASE AllotDevices(q)
  <2>1. /\ annotation' = annotation /\ store' = store /\ q \in Live
        /\ watch' = [watch EXCEPT ![q] = Append(watch[q], VersionOf(annotation[q], TRUE, owner[q]))]
    BY <1>6 DEF AllotDevices, Notify, vars
  <2>2. VersionOf(annotation[q], TRUE, owner[q]).rank = annotation[q]
    BY <2>1, VersionOfLive
  <2>. QED  BY <1>4, <2>1, <2>2
<1>. QED  BY <1>3, <1>5, <1>6

LEMMA SeenByThread ==
    ASSUME Calm, NEW t \in Thread, ThreadSteps(t), faults' = faults,
           NEW p \in Pod, NEW r \in Int, SeenRank(p, r)'
    PROVE  SeenRank(p, r) \/ Giving(p, r)
<1>1. /\ item \in [Thread -> [key : Key, pod : Version \cup {None}] \cup {None}]
      /\ stage \in [Thread -> {"free", "fetched", "running"}]
      /\ pc \in [Thread -> PC] /\ ctx \in [Thread -> Context \cup {None}]
      /\ watch \in [Pod -> Seq(Version \cup {None})]
      /\ annotation \in [Pod -> Int \cup {None, Gone}]
  BY CalmTypes DEF Calm, AgentInv, Typed, AgentTypeOK
<1>2. CASE \E k \in ready : Take(t, k)
  <2>1. PICK k \in ready : Take(t, k)
    BY <1>2
  <2>2. /\ UNCHANGED <<annotation, watch, store, pc, ctx>>
        /\ stage' = [stage EXCEPT ![t] = "fetched"]
        /\ item' = [item EXCEPT ![t] = [key |-> k, pod |-> store[k.pod]]]
    BY <2>1 DEF Take, vars, informer
  <2>3. \A u \in Thread : u # t => stage'[u] = stage[u] /\ item'[u] = item[u]
    BY <1>1, <2>2
  <2>4. item'[t].key = k /\ item'[t].pod = store[k.pod]
    BY <1>1, <2>2
  <2>. QED  BY <2>2, <2>3, <2>4 DEF SeenRank
<1>3. CASE Finish(t)
  <2>1. /\ UNCHANGED <<annotation, watch, store, pc, ctx>>
        /\ stage' = [stage EXCEPT ![t] = "free"] /\ item' = [item EXCEPT ![t] = None]
    BY <1>3 DEF Finish, Forget, Release, vars, informer
  <2>2. \A u \in Thread : stage'[u] = "fetched" => stage[u] = "fetched" /\ item'[u] = item[u]
    BY <1>1, <2>1
  <2>. QED  BY <2>1, <2>2 DEF SeenRank
<1>4. CASE Dispatch(t)
  <2>1. UNCHANGED <<annotation, watch, store>> /\ stage[t] = "fetched" /\ item[t].pod # None
    BY <1>4, DispatchKinds, NoVersionAssumption DEF api, informer
  <2>2. \A u \in Thread : stage'[u] = "fetched" => stage[u] = "fetched" /\ item'[u] = item[u]
    BY <1>1, <1>4, DispatchKinds DEF Requeue, Forget, Release, Enter
  <2>3. \A u \in Thread : \/ pc'[u] = pc[u] /\ ctx'[u] = ctx[u]
                          \/ u = t /\ ctx'[u].pod = item[t].key.pod
                             /\ ctx'[u].rank = item[t].pod.rank
    BY <1>1, <1>4, DispatchKinds DEF Requeue, Forget, vars, Goto
  <2>. QED  BY <2>1, <2>2, <2>3 DEF SeenRank
<1>5. CASE Work(t)
  <2>1. UNCHANGED <<store, stage, item>> /\ ctx[t].pod \in Pod /\ pc[t] # "idle"
    BY <1>5, WorkKinds DEF Live, AddLock, AddRejected, CachePod, CacheRejected, Publish
  <2>2. \A u \in Thread : pc'[u] # "idle" => /\ pc[u] # "idle"
                                             /\ ctx'[u].pod = ctx[u].pod
                                             /\ ctx'[u].rank = ctx[u].rank
    BY <1>5, <2>1, WorkMoves
  <2>3. CASE UNCHANGED <<annotation, watch>>
    BY <2>1, <2>2, <2>3 DEF SeenRank
  <2>4. CASE /\ pc[t] = "annotate" /\ Goto(t, "cache")
             /\ Annotated(ctx[t].pod)
             /\ watch' \in {watch, [watch EXCEPT ![ctx[t].pod] =
                   Append(watch[ctx[t].pod],
                          VersionOf(rankIndex, ctx[t].pod \in allotted, owner[ctx[t].pod]))]}
    <3>1. CASE p = ctx[t].pod /\ r = rankIndex
      BY <1>1, <1>5, <2>4, <3>1 DEF Giving, Goto
    <3>2. CASE ~(p = ctx[t].pod /\ r = rankIndex)
      <4>. DEFINE q == ctx[t].pod
                  v == VersionOf(rankIndex, q \in allotted, owner[q])
      <4>1. annotation'[p] = r => annotation[p] = r
        BY <1>1, <2>4, <3>2 DEF Annotated
      <4>2. v # None => v.rank = rankIndex
        BY CalmTypes, GoneAssumption DEF VersionOf, Calm
      <4>. HIDE DEF v
      <4>3. \A i \in DOMAIN watch'[p] : \/ i \in DOMAIN watch[p] /\ watch'[p][i] = watch[p][i]
                                        \/ p = q /\ watch'[p][i] = v
        <5>1. watch[p] \in Seq(Version \cup {None}) /\ q \in Pod
          BY <1>1, <2>1
        <5>2. watch'[p] = watch[p] \/ (p = q /\ watch'[p] = Append(watch[p], v))
          <6>1. watch' = watch \/ watch' = [watch EXCEPT ![q] = Append(watch[q], v)]
            BY <2>4 DEF v
          <6>. HIDE DEF q
          <6>. QED  BY <1>1, <5>1, <6>1
        <5>. QED  BY <5>1, <5>2
      <4>. QED  BY <2>1, <2>2, <3>2, <4>1, <4>2, <4>3 DEF SeenRank
    <3>. QED  BY <3>1, <3>2
  <2>. QED  BY <1>5, <2>3, <2>4, WorkKinds
<1>. QED  BY <1>2, <1>3, <1>4, <1>5 DEF ThreadSteps

\* A rank of a pod that is seen is one that was seen of it before, or one that
\* its handler gives to it.
LEMMA SeenStep ==
    ASSUME SnapshotsCover, AgentInv, StayInv, [AgentNext]_agentVars, Undisturbed',
           NEW p \in Pod, NEW r \in Int, SeenRank(p, r)'
    PROVE  SeenRank(p, r) \/ Giving(p, r)
<1>1. Calm /\ faults' = faults /\ \A q \in Pod : ~DeletePod(q)
  BY StayStep, UndisturbedBefore
<1>2. CASE \E q \in Pod : \/ CreatePod(q, 1, 1, taskReplicasTotal, FALSE)
                          \/ AllotDevices(q) \/ WatchEvent(q) \/ Relist(q)
  BY <1>1, <1>2, SeenByPods
<1>3. CASE \/ UNCHANGED agentVars \/ StartWorker
           \/ \E k \in waiting : Due(k)
  <2>1. UNCHANGED <<annotation, watch, store, stage, item, pc, ctx>>
    BY <1>3 DEF agentVars, vars, StartWorker, NewWorker, Due, api, informer, agent
  <2>. QED  BY <2>1 DEF SeenRank
<1>4. CASE Restart
  <2>1. /\ annotation' = annotation /\ pc' = [t \in Thread |-> "idle"]
        /\ stage' = [t \in Thread |-> "free"] /\ watch' = [q \in Pod |-> << >>]
        /\ store' = [q \in Pod |-> CurrentVersion(q)]
    BY <1>4 DEF Restart, Crash, api
  <2>2. CurrentVersion(p) # None => CurrentVersion(p).rank = annotation[p]
    BY <1>1, VersionOfLive DEF Live, CurrentVersion, VersionOf
  <2>. QED  BY <2>1, <2>2 DEF SeenRank
<1>5. CASE \E t \in Thread : ThreadSteps(t)
  BY <1>1, <1>5, SeenByThread
<1>. QED  BY <1>1, <1>2, <1>3, <1>4, <1>5 DEF AgentNext, BuildNext

-----------------------------------------------------------------------------
(* The next rank *)

\* A handler moves the next rank on when it caches a pod it gave a rank to.
LEMMA NextRankWork ==
    ASSUME Calm, NEW t \in Thread, Work(t), faults' = faults, NEW n \in Int,
           NextRankIs(n), cm'.status # Completed
    PROVE  \/ UNCHANGED serverList /\ NextRankIs(n)'
           \/ CachePod(t) /\ ctx[t].rank = None /\ rankIndex = n /\ NextRankIs(n + 1)'
           \/ CachePod(t) /\ ctx[t].rank # None /\ NextRankIs(n)'
<1>1. /\ pc \in [Thread -> PC] /\ ctx \in [Thread -> Context \cup {None}]
      /\ ctx[t] \in Context /\ rankIndex \in Int
  BY CalmTypes, WorkKinds DEF Calm
<1>2. \A u \in Thread : u # t => pc'[u] = pc[u] /\ ctx'[u] = ctx[u]
  BY WorkMoves
<1>3. IInv
  BY DEF Calm, AgentInv
<1>4. ASSUME pc[t] \in Locked PROVE \A u \in Thread : u # t => ~Borrowing(u)
  BY <1>3, <1>4, HolderAlone DEF Borrowing, Locked
<1>5. CASE pc[t] = "sync" /\ Goto(t, "addLock") /\ UNCHANGED <<worker, cmMu, ctx, cm>>
  <2>1. \A u \in Thread : Borrowing(u)' <=> Borrowing(u)
    BY <1>1, <1>5 DEF Goto, Borrowing
  <2>. QED  BY <1>5, <2>1 DEF worker, NextRankIs
<1>6. CASE AddRejected(t)
  <2>1. \A u \in Thread : /\ Borrowing(u)' <=> Borrowing(u)
                          /\ Borrowing(u) => ctx'[u] = ctx[u]
    BY <1>1, <1>2, <1>6 DEF AddRejected, Return, Goto, Borrowing
  <2>. QED  BY <1>6, <2>1 DEF AddRejected, worker, NextRankIs
<1>7. CASE AddLock(t)
  <2>1. \A u \in Thread : ~Borrowing(u)
    BY <1>3, <1>7, ThreadAssumption DEF AddLock, Lock, IInv, MutexInv, Locked, Borrowing
  <2>2. \A u \in Thread : u # t => ~Borrowing(u)'
    BY <1>2, <2>1 DEF Borrowing
  <2>3. rankIndex = n /\ UNCHANGED serverList
    BY <1>7, <2>1 DEF NextRankIs, AddLock
  <2>4. /\ ctx' = [ctx EXCEPT ![t] = [ctx[t] EXCEPT !.tmp = rankIndex]]
        /\ ctx'[t].tmp = n /\ ctx'[t].rank = ctx[t].rank
    BY <1>1, <1>7, <2>3 DEF AddLock, Context
  <2>5. Borrowing(t)' <=> ctx[t].rank # None
    BY <1>1, <1>7, <2>4 DEF AddLock, Goto, Borrowing
  <2>6. ctx[t].rank = None => rankIndex' = n
    BY <1>7, <2>3 DEF AddLock
  <2>. QED  BY <2>2, <2>3, <2>4, <2>5, <2>6 DEF NextRankIs
<1>8. CASE pc[t] = "annotate" /\ Goto(t, "cache") /\ UNCHANGED <<worker, cmMu, ctx, cm>>
  <2>1. ctx[t].rank = None
    BY <1>3, <1>8 DEF IInv, BorrowInv
  <2>2. \A u \in Thread : Borrowing(u)' <=> Borrowing(u)
    BY <1>1, <1>2, <1>8, <2>1 DEF Goto, Borrowing
  <2>. QED  BY <1>8, <2>2 DEF worker, NextRankIs
<1>9. CASE CachePod(t) \/ CacheRejected(t)
  <2>1. pc[t] = "cache" /\ pc'[t] # "cache"
    BY <1>1, <1>9 DEF CachePod, CacheRejected, Return, Goto
  <2>2. /\ \A u \in Thread : u # t => ~Borrowing(u)
        /\ \A u \in Thread : ~Borrowing(u)'
    BY <1>2, <1>4, <2>1 DEF Locked, Borrowing
  <2>3. CASE ctx[t].rank = None
    <3>1. rankIndex = n
      BY <2>2, <2>3 DEF NextRankIs, Borrowing
    <3>2. CacheRejected(t) => rankIndex' = n /\ UNCHANGED serverList
      BY <2>3, <3>1 DEF CacheRejected, OldRankIndex
    <3>3. CachePod(t) => rankIndex' = n + 1
      BY <2>3, <3>1 DEF CachePod, NextRankIndex
    <3>. QED  BY <1>9, <2>2, <2>3, <3>1, <3>2, <3>3 DEF NextRankIs
  <2>4. CASE ctx[t].rank # None
    <3>1. ctx[t].tmp = n
      BY <2>1, <2>4 DEF NextRankIs, Borrowing
    <3>2. CacheRejected(t) => rankIndex' = n /\ UNCHANGED serverList
      BY <2>4, <3>1 DEF CacheRejected, OldRankIndex
    <3>3. CachePod(t) => rankIndex' = n
      BY <2>4, <3>1 DEF CachePod, NextRankIndex
    <3>. QED  BY <1>9, <2>2, <2>4, <3>2, <3>3 DEF NextRankIs
  <2>. QED  BY <2>3, <2>4
<1>10. ~(Publish(t) /\ Written)
  BY <1>3 DEF Publish, Written, RankTableData, IInv, PublishInv
<1>. QED  BY <1>5, <1>6, <1>7, <1>8, <1>9, <1>10, WorkKinds

\* The other steps leave the table and the next rank, or begin a new table.
LEMMA NextRankOther ==
    ASSUME SnapshotsCover, AgentInv, StayInv, [AgentNext]_agentVars, Undisturbed',
           \A t \in Thread : ~Work(t)
    PROVE  /\ UNCHANGED cm
           /\ \/ UNCHANGED serverList /\ \A n \in Int : NextRankIs(n) => NextRankIs(n)'
              \/ serverList' = << >> /\ NextRankIs(0)'
<1>1. Calm /\ faults' = faults /\ \A p \in Pod : ~DeletePod(p)
  BY StayStep, UndisturbedBefore
<1>2. CASE \/ UNCHANGED agentVars
           \/ \E q \in Pod : \/ CreatePod(q, 1, 1, taskReplicasTotal, FALSE)
                             \/ AllotDevices(q) \/ WatchEvent(q) \/ Relist(q)
           \/ \E k \in waiting : Due(k)
           \/ \E t \in Thread : Finish(t) \/ \E k \in ready : Take(t, k)
  <2>1. UNCHANGED <<serverList, rankIndex, pc, ctx, cm>>
    BY <1>2 DEF agentVars, vars, CreatePod, ReplacePod, AllotDevices, WatchEvent, Relist, Due,
                Finish, Forget, Take, worker
  <2>. QED  BY <2>1 DEF NextRankIs, Borrowing
<1>3. ASSUME NEW t \in Thread, Dispatch(t)
      PROVE  UNCHANGED <<cm, serverList>> /\ \A n \in Int : NextRankIs(n) => NextRankIs(n)'
  <2>1. UNCHANGED <<serverList, rankIndex, cm>>
    BY <1>1, <1>3, DispatchKinds DEF worker, api
  <2>2. \A u \in Thread : (Borrowing(u)' <=> Borrowing(u)) /\ (Borrowing(u) => ctx'[u] = ctx[u])
    BY <1>1, <1>3, DispatchKinds, CalmTypes DEF Calm, Requeue, Forget, vars, Goto, Borrowing
  <2>. QED  BY <2>1, <2>2 DEF NextRankIs
<1>4. CASE StartWorker \/ Restart
  <2>1. /\ serverList' = << >> /\ rankIndex' = 0 /\ UNCHANGED cm
        /\ \A u \in Thread : pc'[u] = "idle"
    BY <1>4 DEF StartWorker, NewWorker, Restart, Crash, FreshWorker, api
  <2>. QED  BY <2>1 DEF NextRankIs, Borrowing
<1>. QED  BY <1>1, <1>2, <1>3, <1>4 DEF AgentNext, BuildNext, ThreadSteps

LEMMA RangeStep ==
    ASSUME SnapshotsCover, AgentInv, StayInv, RangeInv, [AgentNext]_agentVars
    PROVE  RangeInv'
<1>. SUFFICES ASSUME Undisturbed', cm'.status # Completed
              PROVE  /\ \A p \in Pod, r \in Int :
                          SeenRank(p, r)' => r \in 0 .. taskReplicasTotal' - 1
                     /\ \E n \in 0 .. Len(serverList') : NextRankIs(n)'
  BY DEF RangeInv
<1>1. Calm /\ faults' = faults /\ cm.status # Completed /\ taskReplicasTotal' = taskReplicasTotal
  <2>1. Calm /\ faults' = faults /\ cm.status # Completed
    BY StayStep, CompletedStays
  <2>2. \A p \in Pod : ~DeletePod(p)
    BY UndisturbedBefore
  <2>3. ASSUME NEW t \in Thread, Work(t) \/ Dispatch(t)
        PROVE  taskReplicasTotal' = taskReplicasTotal
    BY <2>1, <2>3, WorkKinds, DispatchKinds DEF worker
  <2>. QED  BY <2>1, <2>2, <2>3
            DEF AgentNext, BuildNext, ThreadSteps, agentVars, vars, CreatePod, ReplacePod,
                AllotDevices, WatchEvent, Relist, Due, Take, Finish, Forget, StartWorker,
                NewWorker, Restart, Crash, FreshWorker, worker
<1>2. PICK n \in 0 .. Len(serverList) : NextRankIs(n)
  BY <1>1 DEF RangeInv, Calm
<1>3. /\ cachedPodNum = Len(serverList) /\ Len(serverList) \in Nat
      /\ taskReplicasTotal \in Nat /\ Len(serverList) <= taskReplicasTotal
  BY <1>1, TableIsFull, CalmTypes DEF Calm, StayParts, LiveInv
<1>4. ASSUME NEW p \in Pod, NEW r \in Int, SeenRank(p, r)'
      PROVE  r \in 0 .. taskReplicasTotal' - 1
  <2>1. CASE SeenRank(p, r)
    BY <1>1, <2>1 DEF RangeInv, Calm
  <2>2. CASE Giving(p, r)
    <3>1. PICK t \in Thread : Work(t) /\ pc[t] = "annotate" /\ rankIndex = r
      BY <2>2 DEF Giving
    <3>2. \A u \in Thread : ~Borrowing(u) /\ pc[u] # "publish"
      BY <1>1, <3>1, HolderAlone DEF Calm, AgentInv, Locked, Borrowing
    <3>3. r = n
      BY <1>2, <3>1, <3>2 DEF NextRankIs
    <3>4. Len(serverList) # taskReplicasTotal
      BY <1>1, <1>3, <3>1, <3>2, HandlersMeanReplicas DEF Calm, StayParts, WorkerInv
    <3>. QED  BY <1>1, <1>2, <1>3, <3>3, <3>4
  <2>. QED  BY <1>4, <2>1, <2>2, SeenStep
<1>5. \E m \in 0 .. Len(serverList') : NextRankIs(m)'
  <2>1. CASE \E t \in Thread : Work(t)
    <3>1. PICK t \in Thread : Work(t)
      BY <2>1
    <3>2. CASE CachePod(t)
      <4>1. ctx[t].pod \in Pod
        BY <1>1, <3>1, WorkKinds DEF Live
      <4>2. Len(serverList') = Len(serverList) + 1
        BY <1>1, <3>2, <4>1, CachePodInfoLemma, CalmTypes DEF CachePod, Calm
      <4>3. NextRankIs(n)' \/ NextRankIs(n + 1)' \/ serverList' = serverList
        BY <1>1, <1>2, <1>3, <3>1, NextRankWork
      <4>. QED  BY <1>2, <1>3, <4>2, <4>3
    <3>3. CASE ~CachePod(t)
      BY <1>1, <1>2, <1>3, <3>1, <3>3, NextRankWork
    <3>. QED  BY <3>2, <3>3
  <2>2. CASE \A t \in Thread : ~Work(t)
    <3>1. CASE UNCHANGED serverList /\ \A m \in Int : NextRankIs(m) => NextRankIs(m)'
      BY <1>2, <3>1
    <3>2. CASE serverList' = << >> /\ NextRankIs(0)'
      BY <3>2
    <3>. QED  BY <2>2, <3>1, <3>2, NextRankOther
  <2>. QED  BY <2>1, <2>2
<1>. QED  BY <1>4, <1>5

-----------------------------------------------------------------------------
(* Every event is served *)

BuildInv == AgentInv /\ StayInv /\ RangeInv /\ ToldInv

LEMMA BuildInit == AgentInit => BuildInv
<1>. SUFFICES ASSUME AgentInit PROVE BuildInv
  OBVIOUS
<1>1. /\ annotation = [p \in Pod |-> Gone] /\ watch = [p \in Pod |-> << >>]
      /\ store = [p \in Pod |-> None] /\ waiting = {} /\ ready = {}
      /\ stage = [t \in Thread |-> "free"] /\ businessWorker = 0
      /\ serverList = << >> /\ cachedPodNum = 0 /\ rankIndex = 0 /\ status = Initializing
      /\ cm = EmptyConfigMap /\ pc = [t \in Thread |-> "idle"]
  BY DEF AgentInit, Init
<1>2. AgentInv /\ taskReplicasTotal \in Nat
  BY AgentInitInv, CalmTypes
<1>3. Live = {} /\ Pods(serverList) = {} /\ Pods(cm.list) = {}
  BY <1>1 DEF Live, Pods, EmptyConfigMap
<1>4. StayParts
  <2>1. VersionsInv
    <3>1. \A p \in Pod : watch[p] = << >> /\ store[p] = None
      BY <1>1
    <3>. QED  BY <1>1, <1>3, <3>1 DEF VersionsInv
  <2>2. HandlersInv
    BY <1>1 DEF HandlersInv
  <2>3. IsFiniteSet(Live) /\ Cardinality(Live) = 0
    BY <1>3, FS_EmptySet
  <2>4. LiveInv
    BY <1>2, <1>3, <2>3 DEF LiveInv
  <2>5. WorkerInv
    BY <1>1, <1>2 DEF WorkerInv, EmptyConfigMap, Initializing, Completed
  <2>. QED  BY <2>1, <2>2, <2>4, <2>5 DEF StayParts
<1>5. \A p \in Pod, r \in Int : ~SeenRank(p, r)
  BY <1>1, GoneAssumption DEF SeenRank
<1>6. NextRankIs(0) /\ Len(serverList) = 0
  BY <1>1 DEF NextRankIs, Borrowing
<1>7. RangeInv
  BY <1>5, <1>6 DEF RangeInv
<1>8. ToldInv
  BY <1>1 DEF ToldInv
<1>. QED  BY <1>2, <1>4, <1>7, <1>8 DEF BuildInv, StayInv

LEMMA BuildStep ==
    ASSUME SnapshotsCover, RoomForRanks, BuildInv, [AgentNext]_agentVars
    PROVE  BuildInv'
<1>1. AgentInv' /\ RangeInv' /\ ToldInv'
  BY AgentStep, RangeStep, ToldStep DEF BuildInv
<1>2. StayInv'
  BY StayStep DEF BuildInv, StayInv
<1>. QED  BY <1>1, <1>2 DEF BuildInv

LEMMA BuildServes == BuildInv => SettledIsServed
<1>. SUFFICES ASSUME BuildInv, Settled, businessWorker # 0, Live # {}, spent.deletes = 0,
                     faults = 0
              PROVE  IF Cardinality(Live) = taskReplicasTotal
                     THEN cm.status = Completed /\ Pods(cm.list) = Live
                     ELSE cm.status = Initializing /\ Pods(serverList) = Live
  BY DEF SettledIsServed
<1>1. Calm /\ Undisturbed
  BY DEF BuildInv, StayInv, Calm, Undisturbed
<1>2. CASE cm.status = Completed
  BY <1>1, <1>2, PublishedIsFull
<1>3. CASE cm.status # Completed
  <2>1. cm.status = Initializing
    BY <1>1, <1>3, CalmTypes DEF Calm, Status
  <2>2. \A t \in Thread : stage[t] = "free" /\ pc[t] = "idle"
    BY <1>1, CalmTypes DEF Settled, Calm
  <2>3. Live \subseteq Pods(serverList)
    <3>1. SUFFICES ASSUME NEW p \in Live PROVE p \in Pods(serverList)
      OBVIOUS
    <3>2. p \in Pod /\ store[p] # None
      BY <1>1 DEF Settled, Calm, StayParts, VersionsInv, Live
    <3>3. Told(p)
      BY <1>1, <1>3, <3>2 DEF BuildInv, ToldInv
    <3>4. ~Keyed(p) /\ ~Fetched(p) /\ ~Caching(p)
      BY <2>2 DEF Settled, Keyed, Fetched, Caching
    <3>. QED  BY <3>3, <3>4 DEF Told, Cached
  <2>4. Pods(serverList) = Live
    BY <1>1, <2>3 DEF Calm, StayParts, LiveInv
  <2>5. cachedPodNum = Cardinality(Live) /\ Cardinality(Live) \in Nat
    BY <1>1, <2>4, TableIsFull
  <2>6. Cardinality(Live) # 0
    BY <1>1, FS_EmptySet DEF Calm, StayParts, LiveInv
  <2>7. Cardinality(Live) # taskReplicasTotal
    BY <1>1, <1>3, <2>2, <2>5, <2>6 DEF Calm, StayParts, WorkerInv
  <2>. QED  BY <2>1, <2>4, <2>7
<1>. QED  BY <1>2, <1>3

\* However the queue orders the events, however many goroutines serve them, and
\* whenever a watch breaks or the process dies: when no event is left, every pod
\* is in the table, and the table of a job that has all its pods is published.
THEOREM NoEventLost ==
    ASSUME SnapshotsCover, RoomForRanks
    PROVE  AgentSpec => []SettledIsServed
<1>1. BuildInv /\ [AgentNext]_agentVars => BuildInv'
  BY BuildStep
<1>. QED  BY <1>1, BuildInit, BuildServes, PTL DEF AgentSpec

-----------------------------------------------------------------------------
(* The ranks of a first build *)

SameChips == \A p, q \in Pod : Devices[p] = Devices[q]

\* In a first build the process was the same before.
LEMMA FirstBefore ==
    ASSUME SnapshotsCover, AgentInv, StayInv, [AgentNext]_agentVars, First'
    PROVE  /\ Calm /\ First /\ faults' = faults
           /\ ~Restart /\ \A q \in Pod : ~DeletePod(q)
<1>1. Calm /\ faults' = faults /\ \A q \in Pod : ~DeletePod(q)
  BY StayStep, UndisturbedBefore DEF First
<1>2. spent.restarts \in Nat
  BY AgentBoundsAssumption DEF AgentInv, Typed, AgentTypeOK
<1>3. spent'.restarts # spent.restarts + 1
  BY <1>2 DEF First
<1>4. spent \in [deletes : 0 .. MaxDeletes, relists : 0 .. MaxRelists,
                 restarts : 0 .. MaxRestarts]
  BY DEF AgentInv, Typed, AgentTypeOK
<1>5. ~Restart
  BY <1>3, <1>4 DEF Restart
<1>6. spent'.restarts = spent.restarts
  BY <1>1, <1>4, <1>5
  DEF AgentNext, BuildNext, agentVars, CreatePod, AllotDevices, WatchEvent, Relist, Due,
      ThreadSteps, Take, Dispatch, Work, Finish, StartWorker
<1>. QED  BY <1>1, <1>5, <1>6 DEF First, Calm

\* Only a handler changes the table of a first build.
LEMMA TableKept ==
    ASSUME SnapshotsCover, AgentInv, StayInv, [AgentNext]_agentVars, First',
           \A t \in Thread : ~Work(t)
    PROVE  serverList' = serverList
<1>1. Calm /\ ~Restart /\ \A q \in Pod : ~DeletePod(q)
  BY FirstBefore
<1>2. CASE StartWorker
  BY <1>1, <1>2 DEF StartWorker, NewWorker, FreshWorker, Calm, StayParts, WorkerInv
<1>3. ASSUME NEW u \in Thread, Dispatch(u) PROVE serverList' = serverList
  BY <1>1, <1>3, DispatchKinds DEF worker
<1>. QED  BY <1>1, <1>2, <1>3
          DEF AgentNext, BuildNext, ThreadSteps, agentVars, vars, CreatePod, ReplacePod,
              AllotDevices, WatchEvent, Relist, Due, Take, Finish, Forget, worker

\* A pod that has a rank was given it by a handler of this process, and is in
\* the table when that handler is done.
LEMMA RankedIsCached ==
    ASSUME SnapshotsCover, AgentInv, StayInv, RanksInv, [AgentNext]_agentVars, First',
           NEW p \in Pod, NEW r \in Int, SeenRank(p, r)'
    PROVE  \/ Cached(serverList, p)'
           \/ \E t \in Thread : pc'[t] = "cache" /\ ctx'[t].pod = p /\ ctx'[t].rank = None
<1>1. /\ Calm /\ First /\ faults' = faults
      /\ ~Restart /\ \A q \in Pod : ~DeletePod(q)
  BY FirstBefore
<1>2. CASE Giving(p, r)
  <2>1. PICK t \in Thread : /\ Work(t) /\ pc[t] = "annotate" /\ pc'[t] = "cache"
                            /\ ctx[t].pod = p
    BY <1>2 DEF Giving
  <2>2. ctx[t].rank = None
    BY <2>1 DEF AgentInv, IInv, BorrowInv
  <2>3. ctx'[t].pod = p /\ ctx'[t].rank = None
    BY <1>1, <2>1, <2>2, WorkMoves
  <2>. QED  BY <2>1, <2>3
<1>3. CASE SeenRank(p, r)
  <2>1. \/ Cached(serverList, p)
        \/ \E t \in Thread : pc[t] = "cache" /\ ctx[t].pod = p /\ ctx[t].rank = None
    BY <1>1, <1>3 DEF RanksInv
  <2>2. ASSUME NEW u \in Thread, Work(u)
        PROVE  \/ Cached(serverList, p)'
               \/ \E t \in Thread : pc'[t] = "cache" /\ ctx'[t].pod = p /\ ctx'[t].rank = None
    <3>1. /\ ctx[u].pod \in Pod /\ ctx[u].device = "valid"
      BY <1>1, <2>2, WorkKinds DEF Live
    <3>2. \/ serverList' = serverList
          \/ CachePod(u) /\ Pods(serverList') = Pods(serverList) \cup {ctx[u].pod}
      <4>1. CachePod(u) => Pods(serverList') = Pods(serverList) \cup {ctx[u].pod}
        BY <3>1, CachePodInfoLemma, CalmTypes DEF CachePod
      <4>. QED  BY <1>1, <2>2, <4>1, WorkKinds
                DEF worker, AddLock, AddRejected, CacheRejected, Publish
    <3>3. CASE Cached(serverList, p)
      BY <3>2, <3>3 DEF Cached
    <3>4. CASE ~Cached(serverList, p)
      <4>1. PICK t \in Thread : pc[t] = "cache" /\ ctx[t].pod = p /\ ctx[t].rank = None
        BY <2>1, <3>4
      <4>2. CASE u # t
        BY <1>1, <2>2, <4>1, <4>2, WorkMoves
      <4>3. CASE u = t
        <5>1. CASE CachePod(u)
          BY <3>1, <4>1, <4>3, <5>1, CachePodInfoLemma, CalmTypes DEF CachePod, Cached
        <5>2. CASE ~CachePod(u)
          <6>1. ~CacheRejected(u)
            BY <3>1, <3>4, <4>1, <4>3 DEF CacheRejected, Accepted
          <6>. QED  BY <1>1, <2>2, <4>1, <4>3, <5>2, <6>1, WorkKinds
                    DEF AddLock, AddRejected, Publish
        <5>. QED  BY <5>1, <5>2
      <4>. QED  BY <4>2, <4>3
    <3>. QED  BY <3>3, <3>4
  <2>3. CASE \A u \in Thread : ~Work(u)
    <3>1. serverList' = serverList
      BY <2>3, TableKept
    <3>2. \A t \in Thread : pc[t] = "cache" => pc'[t] = pc[t] /\ ctx'[t] = ctx[t]
      <4>1. ASSUME NEW u \in Thread, Dispatch(u), NEW t \in Thread, pc[t] = "cache"
            PROVE  pc'[t] = pc[t] /\ ctx'[t] = ctx[t]
        BY <1>1, <4>1, DispatchKinds, CalmTypes DEF Requeue, Forget, vars, Goto
      <4>2. StartWorker => UNCHANGED <<pc, ctx>>
        BY DEF StartWorker, NewWorker
      <4>. QED  BY <1>1, <2>3, <4>1, <4>2
                DEF AgentNext, BuildNext, ThreadSteps, agentVars, vars, CreatePod, ReplacePod,
                    AllotDevices, WatchEvent, Relist, Due, Take, Finish, Forget
    <3>. QED  BY <2>1, <3>1, <3>2 DEF Cached
  <2>. QED  BY <2>2, <2>3
<1>4. SeenRank(p, r) \/ Giving(p, r)
  BY SeenStep DEF First
<1>. QED  BY <1>2, <1>3, <1>4

\* Each pod that is cached takes the rank of its place in the table.
LEMMA RanksStep ==
    ASSUME SnapshotsCover, SameChips, JSONVersion = "v2", AgentInv, StayInv, RanksInv,
           [AgentNext]_agentVars
    PROVE  RanksInv'
<1>. SUFFICES ASSUME First'
              PROVE  /\ \A i \in DOMAIN serverList' : serverList'[i].rank = i - 1
                     /\ IF cm'.status = Completed THEN cm'.list = serverList'
                        ELSE NextRankIs(Len(serverList))'
  BY RankedIsCached DEF RanksInv
<1>1. Calm /\ First /\ faults' = faults
  BY FirstBefore
<1>2. /\ \A i \in DOMAIN serverList : serverList[i].rank = i - 1
      /\ IF cm.status = Completed THEN cm.list = serverList ELSE NextRankIs(Len(serverList))
      /\ serverList \in Seq(Entry) /\ Len(serverList) \in Nat
  BY <1>1, CalmTypes DEF RanksInv
<1>3. ASSUME NEW t \in Thread, Work(t), CachePod(t)
      PROVE  /\ \A i \in DOMAIN serverList' : serverList'[i].rank = i - 1
             /\ IF cm'.status = Completed THEN cm'.list = serverList'
                ELSE NextRankIs(Len(serverList))'
  <2>1. /\ ctx[t].pod \in Pod /\ ctx[t].pod \in Live /\ pc[t] = "cache"
        /\ ~Cached(serverList, ctx[t].pod) /\ cm' = cm
        /\ ctx[t].rank \in Int \cup {None} /\ rankIndex \in Int
    BY <1>1, <1>3, WorkKinds, CalmTypes DEF Live, CachePod, Accepted, api
  <2>2. ctx[t].rank = None
    <3>1. SUFFICES ASSUME ctx[t].rank # None PROVE FALSE
      OBVIOUS
    <3>2. SeenRank(ctx[t].pod, ctx[t].rank) /\ ctx[t].rank \in Int
      BY <2>1, <3>1 DEF SeenRank
    <3>3. \E u \in Thread : pc[u] = "cache" /\ ctx[u].rank = None
      BY <1>1, <2>1, <3>2 DEF RanksInv
    <3>. QED  BY <2>1, <3>1, <3>3, HolderAlone DEF AgentInv, Locked
  <2>3. cm.status # Completed
    BY <1>1, <1>2, <2>1, PublishedIsFull DEF Cached
  <2>4. PICK n \in Int : n = Len(serverList) /\ NextRankIs(n)
    BY <1>2, <2>3
  <2>5. Len(serverList') = n + 1
    BY <1>2, <1>3, <2>1, <2>4, CachePodInfoLemma DEF CachePod
  <2>6. rankIndex = n /\ NextRankIs(n + 1)'
    <3>1. serverList' # serverList
      BY <1>2, <2>4, <2>5
    <3>. QED  BY <1>1, <1>3, <2>1, <2>2, <2>3, <2>4, <3>1, NextRankWork
  <2>7. serverList' \in CachePodInfo(serverList, ctx[t].pod, Len(serverList))
    BY <1>3, <2>4, <2>6 DEF CachePod
  <2>8. \A i \in DOMAIN serverList' : serverList'[i].rank = i - 1
    BY <1>2, <2>1, <2>7, RanksFollow DEF SameChips
  <2>. QED  BY <2>1, <2>3, <2>5, <2>6, <2>8 DEF NextRankIs, Borrowing
<1>4. ASSUME NEW t \in Thread, Work(t), ~CachePod(t)
      PROVE  /\ serverList' = serverList
             /\ IF cm'.status = Completed THEN cm'.list = serverList'
                ELSE NextRankIs(Len(serverList))'
  <2>1. serverList' = serverList
    BY <1>1, <1>4, WorkKinds DEF worker, AddLock, AddRejected, CacheRejected, Publish
  <2>2. CASE cm' = cm
    <3>1. CASE cm.status = Completed
      BY <1>2, <2>1, <2>2, <3>1
    <3>2. CASE cm.status # Completed
      <4>1. NextRankIs(Len(serverList)) /\ Len(serverList) \in Int
        BY <1>2, <3>2
      <4>2. \A n \in Int : NextRankIs(n) => NextRankIs(n)'
        BY <1>1, <1>4, <2>2, <3>2, NextRankWork
      <4>3. PICK n \in Int : n = Len(serverList) /\ NextRankIs(n)'
        BY <4>1, <4>2
      <4>. QED  BY <2>1, <2>2, <3>2, <4>3 DEF NextRankIs, Borrowing
    <3>. QED  BY <3>1, <3>2
  <2>3. CASE Publish(t) /\ Written
    BY <2>1, <2>3 DEF Written, RankTableData, Publish, AgentInv, IInv, PublishInv
  <2>. QED  BY <1>1, <1>4, <2>2, <2>3, WorkKinds DEF AddLock, AddRejected, CacheRejected, api
<1>5. CASE \A t \in Thread : ~Work(t)
  <2>1. serverList' = serverList /\ cm' = cm
    BY <1>5, TableKept, NextRankOther DEF First
  <2>2. CASE cm.status = Completed
    BY <1>2, <2>1, <2>2
  <2>3. CASE cm.status # Completed
    <3>1. NextRankIs(Len(serverList)) /\ Len(serverList) \in Int
      BY <1>2, <2>3
    <3>2. \/ \A n \in Int : NextRankIs(n) => NextRankIs(n)'
          \/ serverList' = << >> /\ NextRankIs(0)'
      BY <1>5, NextRankOther DEF First
    <3>3. PICK n \in Int : n = Len(serverList) /\ NextRankIs(n)'
      <4>1. serverList' = << >> => Len(serverList) = 0
        BY <2>1
      <4>. QED  BY <3>1, <3>2, <4>1
    <3>. QED  BY <1>2, <2>1, <2>3, <3>3 DEF NextRankIs, Borrowing
  <2>. QED  BY <2>2, <2>3
<1>. QED  BY <1>2, <1>3, <1>4, <1>5

\* In the first build of a job whose pods have as many chips each, whatever the
\* order of the events and however many goroutines serve them, the i-th pod of
\* the published table has rank index i - 1.
THEOREM FirstRanks ==
    ASSUME SnapshotsCover, SameChips, JSONVersion = "v2"
    PROVE  AgentSpec => []FirstBuildRanks
<1>. DEFINE Inv == AgentInv /\ StayInv /\ RanksInv
<1>1. AgentInit => Inv
  <2>1. SUFFICES ASSUME AgentInit PROVE Inv
    OBVIOUS
  <2>2. AgentInv /\ StayInv
    BY <2>1, BuildInit DEF BuildInv
  <2>3. \A p \in Pod, r \in Int : ~SeenRank(p, r)
    BY <2>1, GoneAssumption DEF AgentInit, Init, SeenRank
  <2>4. serverList = << >> /\ cm.status # Completed /\ NextRankIs(0)
    BY <2>1 DEF AgentInit, Init, EmptyConfigMap, Initializing, Completed, NextRankIs, Borrowing
  <2>5. Len(serverList) = 0 /\ DOMAIN serverList = {}
    BY <2>4
  <2>6. NextRankIs(Len(serverList))
    BY <2>4, <2>5
  <2>. QED  BY <2>2, <2>3, <2>4, <2>5, <2>6 DEF RanksInv
<1>2. Inv /\ [AgentNext]_agentVars => Inv'
  BY AgentStep, StayStep, RanksStep DEF StayInv
<1>3. Inv => FirstBuildRanks
  <2>1. SUFFICES ASSUME Inv, cm.status = Completed, faults = 0,
                        spent = [deletes |-> 0, relists |-> 0, restarts |-> 0]
                 PROVE  /\ Len(cm.list) = cm.replicas
                        /\ \A i \in DOMAIN cm.list : cm.list[i].rank = i - 1
    BY DEF FirstBuildRanks
  <2>2. First /\ Calm
    BY <2>1 DEF First, Undisturbed, Calm, StayInv
  <2>. QED  BY <2>1, <2>2, PublishedIsFull DEF RanksInv
<1>. QED  BY <1>1, <1>2, <1>3, PTL DEF AgentSpec

=============================================================================
