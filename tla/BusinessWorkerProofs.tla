------------------------ MODULE BusinessWorkerProofs ------------------------
(***************************************************************************)
(* The safety of BusinessWorker for every number of pods, threads,         *)
(* replicas, chips and API faults.  IInv is shown to be inductive, one     *)
(* step per action; the invariants that the runs check follow from it.     *)
(***************************************************************************)
EXTENDS BusinessWorker, RankTableProofs

USE DEF Status, Initializing, Completed, PC

\* The worker starts in IInv.
LEMMA InitIInv == Init => IInv
<1>1. << >> \in Seq(Entry) /\ Len(<< >>) = 0 /\ DOMAIN << >> = {}
  OBVIOUS
<1>2. SUFFICES ASSUME Init PROVE IInv
  OBVIOUS
<1>3. TypeOK
  BY <1>1, <1>2, FaultsAssumption, ReplicasAssumption DEF Init, TypeOK, EmptyConfigMap
<1>4. DistinctPods /\ CompletedSorted /\ CompletedCount
  BY <1>1, <1>2 DEF Init, DistinctPods, NoPodTwice, CompletedSorted,
                    CompletedCount, EmptyConfigMap
<1>5. MutexInv /\ ContextInv /\ BorrowInv /\ PublishInv /\ ZeroInv
  BY <1>2, ThreadAssumption
  DEF Init, MutexInv, Locked, ContextInv, BorrowInv, PublishInv, ZeroInv
<1>6. CountInv
  BY <1>1, <1>2 DEF Init, CountInv, Leaving
<1>. QED  BY <1>3, <1>4, <1>5, <1>6 DEF IInv

-----------------------------------------------------------------------------

\* doWork and handleDeleteEvent begin: a thread leaves idle, nothing else.
LEMMA BeginStep ==
    ASSUME IInv, NEW t \in Thread,
           \/ \E s \in Snapshots : DoWork(t, s)
           \/ \E p \in Pod : HandleDelete(t, p)
    PROVE  IInv'
<1>1. PICK c \in Context, l \in {"sync", "deleteLock"} :
         /\ pc[t] = "idle"
         /\ pc' = [pc EXCEPT ![t] = l]
         /\ ctx' = [ctx EXCEPT ![t] = c]
         /\ UNCHANGED <<status, serverList, rankIndex, cachedPodNum, taskReplicasTotal,
                        cmMu, cm, annotation, faults>>
  <2>1. CASE \E s \in Snapshots : DoWork(t, s)
    <3>1. PICK s \in Snapshots : DoWork(t, s)
      BY <2>1
    <3>2. [pod |-> s.pod, rank |-> s.rank, device |-> s.device, tmp |-> None]
             \in Context
      BY SnapshotsAssumption DEF Snapshot, Context
    <3>. QED  BY <3>1, <3>2 DEF DoWork, Goto, worker, api
  <2>2. CASE \E p \in Pod : HandleDelete(t, p)
    <3>1. PICK p \in Pod : HandleDelete(t, p)
      BY <2>2
    <3>2. [pod |-> p, rank |-> None, device |-> "absent", tmp |-> None] \in Context
      BY DEF Context
    <3>. QED  BY <3>1, <3>2 DEF HandleDelete, Goto, worker, api
  <2>. QED  BY <2>1, <2>2
<1>2. TypeOK'
  BY <1>1 DEF IInv, TypeOK
<1>3. MutexInv' /\ ContextInv' /\ BorrowInv' /\ PublishInv' /\ ZeroInv'
  <2>1. MutexInv' /\ ContextInv'
    BY <1>1 DEF IInv, TypeOK, MutexInv, Locked, ContextInv
  <2>2. BorrowInv'
    BY <1>1 DEF IInv, TypeOK, BorrowInv
  <2>3. PublishInv'
    BY <1>1 DEF IInv, TypeOK, PublishInv
  <2>4. ZeroInv'
    <3>1. ZeroInv /\ pc \in [Thread -> PC]
      BY DEF IInv, TypeOK
    <3>2. \A u \in Thread : pc'[u] = pc[u] \/ pc'[u] \in {"sync", "deleteLock"}
      BY <1>1, <3>1
    <3>. QED  BY <1>1, <3>1, <3>2 DEF ZeroInv
  <2>. QED  BY <2>1, <2>2, <2>3, <2>4
<1>4. CountInv'
  BY <1>1 DEF IInv, TypeOK, CountInv, Leaving
<1>5. (DistinctPods /\ CompletedCount /\ CompletedSorted)'
  BY <1>1 DEF IInv, DistinctPods, CompletedCount, CompletedSorted
<1>. QED  BY <1>2, <1>3, <1>4, <1>5 DEF IInv

\* syncHandler decides without cmMu; only a worker without replicas changes.
LEMMA SyncHandlerStep ==
    ASSUME IInv, NEW t \in Thread, SyncHandler(t)
    PROVE  IInv'
<1>. USE DEF SyncHandler, NothingToCache, Goto, Return, api
<1>1. TypeOK'
  BY DEF IInv, TypeOK, Context
<1>2. MutexInv' /\ ContextInv' /\ BorrowInv' /\ ZeroInv'
  <2>1. MutexInv'
    BY DEF IInv, TypeOK, MutexInv, Locked
  <2>2. ContextInv'
    BY DEF IInv, TypeOK, ContextInv
  <2>3. BorrowInv'
    BY DEF IInv, TypeOK, MutexInv, Locked, BorrowInv
  <2>4. ZeroInv'
    BY DEF IInv, TypeOK, MutexInv, Locked, ZeroInv
  <2>. QED  BY <2>1, <2>2, <2>3, <2>4
<1>3. PublishInv'
  BY DEF IInv, TypeOK, PublishInv, ZeroInv
<1>4. CountInv'
  BY DEF IInv, TypeOK, CountInv, Leaving
<1>5. (DistinctPods /\ CompletedCount /\ CompletedSorted)'
  BY DEF IInv, DistinctPods, CompletedCount, CompletedSorted
<1>. QED  BY <1>1, <1>2, <1>3, <1>4, <1>5 DEF IInv

\* Waiting for cmMu ends: an add event takes it or is refused.
LEMMA AddLockStep ==
    ASSUME IInv, NEW t \in Thread, AddLock(t) \/ AddRejected(t)
    PROVE  IInv'
<1>1. CASE AddLock(t)
  <2>. USE <1>1 DEF AddLock, Goto, Lock, api
  <2>1. ctx[t] \in Context /\ rankIndex \in Int /\ taskReplicasTotal # 0
    BY DEF IInv, TypeOK, ContextInv, ZeroInv
  <2>2. ctx' = [ctx EXCEPT ![t] = [ctx[t] EXCEPT !.tmp = rankIndex]]
    OBVIOUS
  <2>3. [ctx[t] EXCEPT !.tmp = rankIndex] \in Context
    BY <2>1 DEF Context
  <2>4. rankIndex' \in Int
    BY <2>1, MaxRankAssumption DEF ValidRank
  <2>5. TypeOK'
    BY <2>2, <2>3, <2>4 DEF IInv, TypeOK
  <2>6. ContextInv'
    <3>1. ctx'[t] \in Context /\ ctx'[t].tmp \in Int
      BY <2>1, <2>2, <2>3 DEF IInv, TypeOK, Context
    <3>. QED  BY <2>2, <3>1 DEF IInv, TypeOK, ContextInv
  <2>7. MutexInv' /\ PublishInv' /\ ZeroInv'
    <3>1. MutexInv'
      BY <2>1, ThreadAssumption DEF IInv, TypeOK, MutexInv, Locked
    <3>2. PublishInv'
      BY <2>1, ThreadAssumption DEF IInv, TypeOK, MutexInv, Locked, PublishInv
    <3>3. ZeroInv'
      BY <2>1, ThreadAssumption DEF IInv, TypeOK, MutexInv, Locked, ZeroInv
    <3>. QED  BY <3>1, <3>2, <3>3
  <2>8. CountInv'
    BY DEF IInv, TypeOK, CountInv, Leaving
  <2>9. (DistinctPods /\ CompletedCount /\ CompletedSorted)'
    BY DEF IInv, DistinctPods, CompletedCount, CompletedSorted
  <2>10. BorrowInv'
    <3>1. \A u \in Thread : pc[u] \notin {"annotate", "cache"}
      BY ThreadAssumption DEF IInv, MutexInv, Locked
    <3>2. ctx'[t].rank = ctx[t].rank
      BY <2>1, <2>2, <2>3 DEF IInv, TypeOK, Context
    <3>. QED  BY <2>2, <3>1, <3>2 DEF IInv, TypeOK, BorrowInv, ValidRank
  <2>. QED  BY <2>5, <2>6, <2>7, <2>8, <2>9, <2>10 DEF IInv
<1>2. CASE AddRejected(t)
  <2>. USE <1>2 DEF AddRejected, Return, Goto, worker, api
  <2>1. TypeOK'
    BY DEF IInv, TypeOK
  <2>2. MutexInv' /\ ContextInv' /\ BorrowInv' /\ PublishInv' /\ ZeroInv'
    <3>1. MutexInv'
      BY DEF IInv, TypeOK, MutexInv, Locked
    <3>2. ContextInv'
      BY DEF IInv, TypeOK, ContextInv
    <3>3. BorrowInv'
      BY DEF IInv, TypeOK, MutexInv, Locked, BorrowInv
    <3>4. PublishInv'
      BY DEF IInv, TypeOK, MutexInv, Locked, PublishInv
    <3>5. ZeroInv'
      BY DEF IInv, TypeOK, MutexInv, Locked, ZeroInv
    <3>. QED  BY <3>1, <3>2, <3>3, <3>4, <3>5
  <2>3. CountInv'
    BY DEF IInv, TypeOK, CountInv, Leaving
  <2>4. (DistinctPods /\ CompletedCount /\ CompletedSorted)'
    BY DEF IInv, DistinctPods, CompletedCount, CompletedSorted
  <2>. QED  BY <2>1, <2>2, <2>3, <2>4 DEF IInv
<1>. QED  BY <1>1, <1>2

\* updatePod changes the annotation and at most gives cmMu back.
LEMMA UpdatePodStep ==
    ASSUME IInv, NEW t \in Thread, UpdatePod(t)
    PROVE  IInv'
<1>. USE DEF UpdatePod, Annotated, Fault, Unlock, Return, Goto, worker
<1>1. rankIndex \in Int /\ faults \in Nat /\ faults' \in Nat /\ faults <= faults'
      /\ faults' <= MaxFaults /\ ctx[t].pod \in Pod
  BY FaultsAssumption DEF IInv, TypeOK, ContextInv, Context
<1>2. TypeOK'
  <2>1. annotation' \in [Pod -> Int \cup {None, Gone}]
    BY <1>1 DEF IInv, TypeOK
  <2>2. pc' \in [Thread -> PC]
    BY DEF IInv, TypeOK, PC
  <2>3. ctx' \in [Thread -> Context \cup {None}]
    BY DEF IInv, TypeOK
  <2>4. cmMu' \in Thread \cup {None}
    BY DEF IInv, TypeOK
  <2>5. UNCHANGED <<status, serverList, rankIndex, cachedPodNum, taskReplicasTotal,
                  cm>>
    OBVIOUS
  <2>. QED  BY <1>1, <2>1, <2>2, <2>3, <2>4, <2>5, FaultsAssumption DEF IInv, TypeOK
<1>3. MutexInv' /\ ContextInv' /\ BorrowInv' /\ PublishInv' /\ ZeroInv'
  <2>1. MutexInv'
    BY ThreadAssumption DEF IInv, TypeOK, MutexInv, Locked
  <2>2. ContextInv'
    BY ThreadAssumption DEF IInv, TypeOK, ContextInv
  <2>3. BorrowInv'
    BY ThreadAssumption DEF IInv, TypeOK, MutexInv, Locked, BorrowInv
  <2>4. PublishInv'
    BY ThreadAssumption DEF IInv, TypeOK, MutexInv, Locked, PublishInv
  <2>5. ZeroInv'
    BY ThreadAssumption DEF IInv, TypeOK, MutexInv, Locked, ZeroInv
  <2>. QED  BY <2>1, <2>2, <2>3, <2>4, <2>5
<1>4. CountInv'
  <2>1. Leaving' = Leaving
    BY DEF IInv, TypeOK, Leaving
  <2>. QED  BY <1>1, <2>1 DEF IInv, TypeOK, CountInv, Leaving
<1>5. CompletedCount'
  BY <1>1 DEF IInv, TypeOK, CompletedCount
<1>6. (DistinctPods /\ CompletedSorted)'
  BY DEF IInv, DistinctPods, CompletedSorted
<1>. QED  BY <1>2, <1>3, <1>4, <1>5, <1>6 DEF IInv

\* What follows from holding cmMu: no other thread is between Lock and Unlock.
LEMMA HolderAlone ==
    ASSUME IInv, NEW t \in Thread, pc[t] \in Locked
    PROVE  /\ cmMu = t
           /\ \A u \in Thread : u # t => pc[u] \notin Locked
           /\ taskReplicasTotal # 0
BY DEF IInv, MutexInv, ZeroInv, Locked

\* CachePodInfo accepts a pod: the table and the count grow together, and
\* the handler that completes the table keeps cmMu until it is published.
LEMMA CachePodStep ==
    ASSUME IInv, NEW t \in Thread, CachePod(t)
    PROVE  IInv'
<1>. DEFINE c == ctx[t]
<1>1. /\ pc[t] = "cache"
      /\ c \in Context /\ c.pod \in Pod /\ c.tmp \in Int
      /\ rankIndex \in Int /\ cachedPodNum \in Nat /\ faults \in Nat
      /\ serverList \in Seq(Entry) /\ NoPodTwice(serverList)
      /\ ~Cached(serverList, c.pod)
  BY FaultsAssumption
  DEF CachePod, IInv, TypeOK, ContextInv, Context, DistinctPods, Accepted
<1>2. /\ cmMu = t
      /\ \A u \in Thread : u # t => pc[u] \notin Locked
      /\ taskReplicasTotal # 0
  BY <1>1, HolderAlone DEF Locked
<1>3. /\ serverList' \in Seq(Entry)
      /\ Len(serverList') = Len(serverList) + 1
      /\ NoPodTwice(serverList')
      /\ JSONVersion = "v2" => Sorted(serverList')
  BY <1>1, CachePodInfoLemma DEF CachePod
<1>4. rankIndex' \in Int /\ cachedPodNum' = cachedPodNum + 1
  BY <1>1 DEF CachePod, NextRankIndex
<1>5. \/ /\ cachedPodNum' = taskReplicasTotal
         /\ status' = Completed
         /\ pc' = [pc EXCEPT ![t] = "publish"]
         /\ UNCHANGED <<cmMu, ctx>>
      \/ /\ cmMu' = None
         /\ pc' = [pc EXCEPT ![t] = "idle"]
         /\ ctx' = [ctx EXCEPT ![t] = None]
         /\ UNCHANGED status
  BY DEF CachePod, Unlock, Return, Goto
<1>6. UNCHANGED <<taskReplicasTotal, cm, annotation, faults>>
  BY DEF CachePod, api
<1>. HIDE DEF c
<1>. USE DEF Locked
<1>7. TypeOK'
  <2>1. status' \in Status /\ cmMu' \in Thread \cup {None}
    BY <1>5 DEF IInv, TypeOK, Status
  <2>2. pc' \in [Thread -> PC] /\ ctx' \in [Thread -> Context \cup {None}]
    BY <1>5 DEF IInv, TypeOK, PC
  <2>3. cachedPodNum' \in Nat
    BY <1>1, <1>4
  <2>. QED  BY <1>3, <1>4, <1>6, <2>1, <2>2, <2>3 DEF IInv, TypeOK
<1>8. MutexInv' /\ ContextInv' /\ ZeroInv'
  <2>1. MutexInv'
    BY <1>1, <1>2, <1>5, <1>6, ThreadAssumption DEF IInv, TypeOK, MutexInv
  <2>2. ContextInv'
    BY <1>1, <1>2, <1>5, <1>6, ThreadAssumption DEF IInv, TypeOK, ContextInv
  <2>3. ZeroInv'
    BY <1>1, <1>2, <1>5, <1>6, ThreadAssumption DEF IInv, TypeOK, MutexInv, ZeroInv
  <2>. QED  BY <2>1, <2>2, <2>3
<1>9. PublishInv'
  BY <1>1, <1>2, <1>3, <1>5, <1>6 DEF IInv, TypeOK, PublishInv
<1>10. CountInv'
  <2>1. Leaving = 0 /\ Leaving' = 0
    BY <1>1, <1>2, <1>5 DEF IInv, TypeOK, Leaving
  <2>2. Len(serverList) \in Nat
    BY <1>1
  <2>. QED  BY <1>1, <1>3, <1>4, <1>6, <2>1, <2>2 DEF IInv, CountInv
<1>11. (DistinctPods /\ CompletedCount /\ CompletedSorted)'
  BY <1>3, <1>6 DEF IInv, DistinctPods, CompletedCount, CompletedSorted
<1>12. BorrowInv'
  <2>1. \A u \in Thread : pc'[u] \notin {"annotate", "cache"}
    BY <1>1, <1>2, <1>5 DEF IInv, TypeOK
  <2>. QED  BY <2>1 DEF BorrowInv
<1>. QED  BY <1>7, <1>8, <1>9, <1>10, <1>11, <1>12 DEF IInv

\* CachePodInfo refuses: the borrowed rank is put back and cmMu is released.
LEMMA CacheRejectedStep ==
    ASSUME IInv, NEW t \in Thread, CacheRejected(t)
    PROVE  IInv'
<1>. USE DEF CacheRejected, Unlock, Return, Goto, api, Locked
<1>1. rankIndex' \in Int
  BY DEF IInv, TypeOK, ContextInv, OldRankIndex
<1>2. TypeOK'
  BY <1>1 DEF IInv, TypeOK
<1>3. MutexInv' /\ ContextInv' /\ BorrowInv' /\ PublishInv' /\ ZeroInv'
  <2>1. MutexInv'
    BY ThreadAssumption DEF IInv, TypeOK, MutexInv
  <2>2. ContextInv'
    BY ThreadAssumption DEF IInv, TypeOK, ContextInv
  <2>3. BorrowInv'
    BY ThreadAssumption DEF IInv, TypeOK, MutexInv, BorrowInv
  <2>4. PublishInv'
    BY ThreadAssumption DEF IInv, TypeOK, MutexInv, PublishInv
  <2>5. ZeroInv'
    BY ThreadAssumption DEF IInv, TypeOK, MutexInv, ZeroInv
  <2>. QED  BY <2>1, <2>2, <2>3, <2>4, <2>5
<1>4. CountInv'
  BY DEF IInv, TypeOK, CountInv, Leaving
<1>5. (DistinctPods /\ CompletedCount /\ CompletedSorted)'
  BY DEF IInv, DistinctPods, CompletedCount, CompletedSorted
<1>. QED  BY <1>2, <1>3, <1>4, <1>5 DEF IInv

\* What updateConfigMap leaves behind, whether or not its answer arrives.
LEMMA UpdateConfigMapLemma ==
    ASSUME IInv, UpdateConfigMap
    PROVE  /\ cm' \in {cm, RankTableData}
           /\ rankIndex' \in Int
           /\ faults' \in 0 .. MaxFaults /\ faults \in Nat /\ faults <= faults'
           /\ cm' \in [status : Status, list : Seq(Entry), replicas : Nat]
           /\ (NoPodTwice(cm.list))'
<1>1. rankIndex' \in Int
  BY GetPodNumLemma DEF IInv, TypeOK, UpdateConfigMap, Written, NotAcknowledged
<1>2. cm' \in {cm, RankTableData}
  BY DEF UpdateConfigMap, Written, NotAcknowledged
<1>3. faults' \in 0 .. MaxFaults /\ faults \in Nat /\ faults <= faults'
  BY FaultsAssumption
  DEF IInv, TypeOK, UpdateConfigMap, Written, NotAcknowledged, Fault
<1>4. cm' \in [status : Status, list : Seq(Entry), replicas : Nat]
  BY <1>2 DEF IInv, TypeOK, RankTableData
<1>5. (NoPodTwice(cm.list))'
  <2>1. cm'.list \in {cm.list, serverList}
    BY <1>2 DEF RankTableData
  <2>. QED  BY <2>1 DEF IInv, DistinctPods, NoPodTwice
<1>. QED  BY <1>1, <1>2, <1>3, <1>4, <1>5

\* The completing handler publishes the table as it left it under cmMu.
LEMMA PublishStep ==
    ASSUME IInv, NEW t \in Thread, Publish(t)
    PROVE  IInv'
<1>. USE DEF Locked
<1>1. /\ pc[t] = "publish" /\ status = Completed /\ cachedPodNum = taskReplicasTotal
      /\ JSONVersion = "v2" => Sorted(serverList)
      /\ pc' = [pc EXCEPT ![t] = "idle"]
      /\ ctx' = [ctx EXCEPT ![t] = None]
      /\ cmMu' = None
      /\ UpdateConfigMap
      /\ UNCHANGED <<status, serverList, cachedPodNum, taskReplicasTotal, annotation>>
  BY DEF Publish, Unlock, Return, Goto, IInv, PublishInv
<1>2. /\ cm' \in {cm, RankTableData}
      /\ rankIndex' \in Int
      /\ faults' \in 0 .. MaxFaults /\ faults \in Nat /\ faults <= faults'
      /\ cm' \in [status : Status, list : Seq(Entry), replicas : Nat]
      /\ (NoPodTwice(cm.list))'
  BY <1>1, UpdateConfigMapLemma
<1>3. cmMu = t /\ \A u \in Thread : u # t => pc[u] \notin Locked
  BY <1>1, HolderAlone
<1>4. TypeOK'
  BY <1>1, <1>2 DEF IInv, TypeOK
<1>5. MutexInv' /\ ContextInv' /\ BorrowInv' /\ PublishInv' /\ ZeroInv'
  <2>1. MutexInv'
    BY <1>1, <1>3, ThreadAssumption DEF IInv, TypeOK, MutexInv
  <2>2. ContextInv'
    BY <1>1, <1>3, ThreadAssumption DEF IInv, TypeOK, ContextInv
  <2>3. BorrowInv'
    BY <1>1, <1>3, ThreadAssumption DEF IInv, TypeOK, MutexInv, BorrowInv
  <2>4. PublishInv'
    BY <1>1, <1>3, ThreadAssumption DEF IInv, TypeOK, MutexInv, PublishInv
  <2>5. ZeroInv'
    BY <1>1, <1>3, ThreadAssumption DEF IInv, TypeOK, MutexInv, ZeroInv
  <2>. QED  BY <2>1, <2>2, <2>3, <2>4, <2>5
<1>6. Leaving = 0 /\ Leaving' = 0
  BY <1>1, <1>3 DEF IInv, TypeOK, Leaving
<1>7. Len(serverList) \in Nat /\ Len(cm.list) \in Nat
  BY DEF IInv, TypeOK
<1>8. CountInv'
  BY <1>1, <1>2, <1>6, <1>7 DEF IInv, TypeOK, CountInv
<1>9. taskReplicasTotal \in Nat /\ taskReplicasTotal - Len(serverList) \in 0 .. faults
  BY <1>1, <1>2, <1>6, <1>7 DEF IInv, TypeOK, CountInv
<1>10. CompletedCount'
  <2>1. CASE cm' = cm
    BY <1>2, <1>7, <2>1 DEF IInv, TypeOK, CompletedCount
  <2>2. CASE cm' = RankTableData
    BY <1>2, <1>7, <1>9, <2>2 DEF RankTableData, CompletedCount
  <2>. QED  BY <1>2, <2>1, <2>2
<1>11. CompletedSorted'
  <2>1. CASE cm' = cm
    BY <2>1 DEF IInv, CompletedSorted
  <2>2. CASE cm' = RankTableData
    BY <1>1, <2>2 DEF RankTableData, CompletedSorted
  <2>. QED  BY <1>2, <2>1, <2>2
<1>12. DistinctPods'
  BY <1>1, <1>2 DEF IInv, DistinctPods
<1>. QED  BY <1>4, <1>5, <1>8, <1>10, <1>11, <1>12 DEF IInv

\* Without replicas the table that is published is empty, cmMu or not.
LEMMA ZeroPublishStep ==
    ASSUME IInv, NEW t \in Thread, ZeroPublish(t)
    PROVE  IInv'
<1>1. /\ pc[t] = "zeroPublish" /\ taskReplicasTotal = 0
      /\ serverList = << >> /\ cachedPodNum = 0
      /\ pc' = [pc EXCEPT ![t] = "idle"]
      /\ ctx' = [ctx EXCEPT ![t] = None]
      /\ UpdateConfigMap
      /\ UNCHANGED <<status, serverList, cachedPodNum, taskReplicasTotal, cmMu,
                     annotation>>
  BY DEF ZeroPublish, Return, Goto, IInv, ZeroInv
<1>2. /\ cm' \in {cm, RankTableData}
      /\ rankIndex' \in Int
      /\ faults' \in 0 .. MaxFaults /\ faults \in Nat /\ faults <= faults'
      /\ cm' \in [status : Status, list : Seq(Entry), replicas : Nat]
      /\ (NoPodTwice(cm.list))'
  BY <1>1, UpdateConfigMapLemma
<1>3. TypeOK'
  BY <1>1, <1>2 DEF IInv, TypeOK
<1>4. MutexInv' /\ ContextInv' /\ BorrowInv' /\ PublishInv' /\ ZeroInv'
  <2>1. MutexInv'
    BY <1>1 DEF IInv, TypeOK, MutexInv, Locked
  <2>2. ContextInv'
    BY <1>1 DEF IInv, TypeOK, ContextInv
  <2>3. BorrowInv'
    BY <1>1 DEF IInv, TypeOK, BorrowInv, ZeroInv
  <2>4. PublishInv'
    BY <1>1 DEF IInv, TypeOK, MutexInv, Locked, PublishInv
  <2>5. ZeroInv'
    BY <1>1 DEF IInv, TypeOK, MutexInv, Locked, ZeroInv
  <2>. QED  BY <2>1, <2>2, <2>3, <2>4, <2>5
<1>5. Leaving = 0 /\ Leaving' = 0 /\ Len(serverList) = 0 /\ DOMAIN serverList = {}
  BY <1>1 DEF IInv, TypeOK, Leaving, ZeroInv
<1>6. CountInv'
  BY <1>1, <1>2, <1>5 DEF CountInv
<1>7. (CompletedCount /\ CompletedSorted)'
  <2>1. CASE cm' = cm
    <3>1. Len(cm.list) \in Nat /\ cm.replicas \in Nat
      BY DEF IInv, TypeOK
    <3>. QED  BY <1>1, <1>2, <2>1, <3>1 DEF IInv, CompletedCount, CompletedSorted
  <2>2. CASE cm' = RankTableData
    BY <1>1, <1>2, <1>5, <2>2
    DEF RankTableData, CompletedCount, CompletedSorted, Sorted
  <2>. QED  BY <1>2, <2>1, <2>2
<1>8. DistinctPods'
  BY <1>1, <1>2 DEF IInv, DistinctPods
<1>. QED  BY <1>3, <1>4, <1>6, <1>7, <1>8 DEF IInv

\* The pod leaves the table at once and the count later.
LEMMA DeleteLockStep ==
    ASSUME IInv, NEW t \in Thread, DeleteLock(t)
    PROVE  IInv'
<1>. USE DEF Locked
<1>. DEFINE p == ctx[t].pod
<1>1. /\ pc[t] = "deleteLock" /\ cmMu = None /\ cmMu' = t
      /\ status' = Initializing
      /\ Cached(serverList, p)
      /\ serverList' = RemovePodInfo(serverList, p)
      /\ pc' = [pc EXCEPT ![t] = "deletePublish"]
      /\ UNCHANGED <<rankIndex, cachedPodNum, taskReplicasTotal, ctx, cm,
                     annotation, faults>>
  BY DEF DeleteLock, Lock, Goto, api
<1>2. p \in Pod /\ serverList \in Seq(Entry) /\ NoPodTwice(serverList)
  BY <1>1 DEF IInv, TypeOK, ContextInv, Context, DistinctPods
<1>3. /\ serverList' \in Seq(Entry)
      /\ Len(serverList') = Len(serverList) - 1
      /\ NoPodTwice(serverList')
  BY <1>1, <1>2, RemovePodInfoLemma
<1>4. taskReplicasTotal # 0
  BY <1>1, <1>2 DEF IInv, ZeroInv, Cached, Pods
<1>. HIDE DEF p
<1>5. \A u \in Thread : pc[u] \notin Locked
  BY <1>1, ThreadAssumption DEF IInv, MutexInv
<1>6. TypeOK'
  BY <1>1, <1>3 DEF IInv, TypeOK
<1>7. MutexInv' /\ ContextInv' /\ BorrowInv' /\ PublishInv' /\ ZeroInv'
  <2>1. MutexInv'
    BY <1>1, <1>4, <1>5, ThreadAssumption DEF IInv, TypeOK, MutexInv
  <2>2. ContextInv'
    BY <1>1, <1>4, <1>5, ThreadAssumption DEF IInv, TypeOK, ContextInv
  <2>3. BorrowInv'
    BY <1>1, <1>4, <1>5, ThreadAssumption DEF IInv, TypeOK, MutexInv, BorrowInv
  <2>4. PublishInv'
    BY <1>1, <1>4, <1>5, ThreadAssumption DEF IInv, TypeOK, MutexInv, PublishInv
  <2>5. ZeroInv'
    BY <1>1, <1>4, <1>5, ThreadAssumption DEF IInv, TypeOK, MutexInv, ZeroInv
  <2>. QED  BY <2>1, <2>2, <2>3, <2>4, <2>5
<1>8. Leaving = 0 /\ Leaving' = 1
  BY <1>1, <1>5 DEF IInv, TypeOK, Leaving
<1>9. CountInv'
  <2>1. Len(serverList) \in Nat
    BY <1>2
  <2>. QED  BY <1>1, <1>3, <1>8, <2>1 DEF IInv, TypeOK, CountInv
<1>10. (DistinctPods /\ CompletedCount /\ CompletedSorted)'
  BY <1>1, <1>3 DEF IInv, DistinctPods, CompletedCount, CompletedSorted
<1>. QED  BY <1>6, <1>7, <1>9, <1>10 DEF IInv

\* A pod that is not in the table still takes the status back.
LEMMA DeleteRejectedStep ==
    ASSUME IInv, NEW t \in Thread, DeleteRejected(t)
    PROVE  IInv'
<1>. USE DEF Locked
<1>1. /\ pc[t] = "deleteLock" /\ cmMu = None
      /\ status' = Initializing
      /\ pc' = [pc EXCEPT ![t] = "idle"]
      /\ ctx' = [ctx EXCEPT ![t] = None]
      /\ UNCHANGED <<serverList, rankIndex, cachedPodNum, taskReplicasTotal, cmMu,
                     cm, annotation, faults>>
  BY DEF DeleteRejected, Return, Goto, api
<1>2. \A u \in Thread : pc[u] \notin Locked
  BY <1>1, ThreadAssumption DEF IInv, MutexInv
<1>3. TypeOK'
  BY <1>1 DEF IInv, TypeOK
<1>4. MutexInv' /\ ContextInv' /\ BorrowInv' /\ PublishInv' /\ ZeroInv'
  <2>1. MutexInv'
    BY <1>1, <1>2 DEF IInv, TypeOK, MutexInv
  <2>2. ContextInv'
    BY <1>1, <1>2 DEF IInv, TypeOK, ContextInv
  <2>3. BorrowInv'
    BY <1>1, <1>2 DEF IInv, TypeOK, MutexInv, BorrowInv
  <2>4. PublishInv'
    BY <1>1, <1>2 DEF IInv, TypeOK, MutexInv, PublishInv
  <2>5. ZeroInv'
    BY <1>1, <1>2 DEF IInv, TypeOK, MutexInv, ZeroInv
  <2>. QED  BY <2>1, <2>2, <2>3, <2>4, <2>5
<1>5. CountInv'
  BY <1>1 DEF IInv, TypeOK, CountInv, Leaving
<1>6. (DistinctPods /\ CompletedCount /\ CompletedSorted)'
  BY <1>1 DEF IInv, DistinctPods, CompletedCount, CompletedSorted
<1>. QED  BY <1>3, <1>4, <1>5, <1>6 DEF IInv

\* The count follows the table, or is one too high and a fault was spent.
LEMMA DeletePublishStep ==
    ASSUME IInv, NEW t \in Thread, DeletePublish(t)
    PROVE  IInv'
<1>. USE DEF Locked
<1>1. /\ pc[t] = "deletePublish" /\ status = Initializing
      /\ pc' = [pc EXCEPT ![t] = "idle"]
      /\ ctx' = [ctx EXCEPT ![t] = None]
      /\ cmMu' = None
      /\ UpdateConfigMap
      /\ UNCHANGED <<status, serverList, taskReplicasTotal, annotation>>
      /\ \/ cachedPodNum' = cachedPodNum - 1 /\ faults' = faults
         \/ cachedPodNum' = cachedPodNum /\ faults' = faults + 1
  BY DEF DeletePublish, Unlock, Return, Goto, IInv, PublishInv,
         UpdateConfigMap, Written, NotAcknowledged, Fault
<1>2. /\ cm' \in {cm, RankTableData}
      /\ rankIndex' \in Int
      /\ faults' \in 0 .. MaxFaults /\ faults \in Nat /\ faults <= faults'
      /\ cm' \in [status : Status, list : Seq(Entry), replicas : Nat]
      /\ (NoPodTwice(cm.list))'
  BY <1>1, UpdateConfigMapLemma
<1>3. /\ cmMu = t /\ taskReplicasTotal # 0
      /\ \A u \in Thread : u # t => pc[u] \notin Locked
  BY <1>1, HolderAlone
<1>4. Leaving = 1 /\ Leaving' = 0
  BY <1>1, <1>3 DEF IInv, TypeOK, Leaving
<1>5. Len(serverList) \in Nat /\ Len(cm.list) \in Nat /\ cachedPodNum \in Nat
  BY DEF IInv, TypeOK
<1>6. CountInv' /\ cachedPodNum' \in Nat
  BY <1>1, <1>2, <1>4, <1>5 DEF IInv, CountInv
<1>7. TypeOK'
  BY <1>1, <1>2, <1>6 DEF IInv, TypeOK
<1>8. MutexInv' /\ ContextInv' /\ BorrowInv' /\ PublishInv' /\ ZeroInv'
  <2>1. MutexInv'
    BY <1>1, <1>3, ThreadAssumption DEF IInv, TypeOK, MutexInv
  <2>2. ContextInv'
    BY <1>1, <1>3, ThreadAssumption DEF IInv, TypeOK, ContextInv
  <2>3. BorrowInv'
    BY <1>1, <1>3, ThreadAssumption DEF IInv, TypeOK, MutexInv, BorrowInv
  <2>4. PublishInv'
    BY <1>1, <1>3, ThreadAssumption DEF IInv, TypeOK, MutexInv, PublishInv
  <2>5. ZeroInv'
    BY <1>1, <1>3, ThreadAssumption DEF IInv, TypeOK, MutexInv, ZeroInv
  <2>. QED  BY <2>1, <2>2, <2>3, <2>4, <2>5
<1>9. (CompletedCount /\ CompletedSorted)'
  BY <1>1, <1>2, <1>5
  DEF IInv, TypeOK, RankTableData, CompletedCount, CompletedSorted
<1>10. DistinctPods'
  BY <1>1, <1>2 DEF IInv, DistinctPods
<1>. QED  BY <1>6, <1>7, <1>8, <1>9, <1>10 DEF IInv

\* A new worker, a crash and the environment's own changes.
LEMMA EnvironmentStep ==
    ASSUME IInv, Environment
    PROVE  IInv'
<1>. USE DEF Locked
<1>1. << >> \in Seq(Entry) /\ Len(<< >>) = 0 /\ DOMAIN << >> = {}
  OBVIOUS
<1>2. CASE (\E st \in Status, n \in Replicas : NewWorker(st, n))
           \/ (\E n \in Replicas : Crash(n))
  <2>1. /\ status' \in Status
        /\ serverList' = << >> /\ rankIndex' = 0 /\ cachedPodNum' = 0
        /\ taskReplicasTotal' \in Nat
        /\ UNCHANGED <<cm, annotation, faults>>
    BY <1>2, ReplicasAssumption DEF NewWorker, Crash, FreshWorker, api, IInv, TypeOK
  <2>2. /\ pc' \in [Thread -> PC] /\ \A t \in Thread : pc'[t] = "idle"
        /\ ctx' \in [Thread -> Context \cup {None}]
        /\ cmMu' = None
    BY <1>2 DEF NewWorker, Crash, IInv, TypeOK, MutexInv
  <2>3. TypeOK'
    BY <1>1, <2>1, <2>2 DEF IInv, TypeOK
  <2>4. MutexInv' /\ ContextInv' /\ BorrowInv' /\ PublishInv' /\ ZeroInv'
    <3>1. MutexInv'
      BY <2>1, <2>2, ThreadAssumption DEF MutexInv
    <3>2. ContextInv'
      BY <2>1, <2>2, ThreadAssumption DEF ContextInv
    <3>3. BorrowInv'
      BY <2>1, <2>2, ThreadAssumption DEF MutexInv, BorrowInv
    <3>4. PublishInv'
      BY <2>1, <2>2, ThreadAssumption DEF MutexInv, PublishInv
    <3>5. ZeroInv'
      BY <2>1, <2>2, ThreadAssumption DEF MutexInv, ZeroInv
    <3>. QED  BY <3>1, <3>2, <3>3, <3>4, <3>5
  <2>5. CountInv'
    BY <1>1, <2>1, <2>2, FaultsAssumption DEF IInv, TypeOK, CountInv, Leaving
  <2>6. (DistinctPods /\ CompletedCount /\ CompletedSorted)'
    BY <1>1, <2>1
    DEF IInv, DistinctPods, NoPodTwice, CompletedCount, CompletedSorted
  <2>. QED  BY <2>3, <2>4, <2>5, <2>6 DEF IInv
<1>3. CASE ReplaceConfigMap
  <2>1. /\ cm' = [status |-> Initializing, list |-> << >>, replicas |-> 0]
        /\ UNCHANGED <<status, serverList, rankIndex, cachedPodNum, taskReplicasTotal,
                       cmMu, pc, ctx,
                       annotation, faults>>
    BY <1>3 DEF ReplaceConfigMap, EmptyConfigMap, worker
  <2>2. TypeOK'
    BY <1>1, <2>1 DEF IInv, TypeOK
  <2>3. MutexInv' /\ ContextInv' /\ BorrowInv' /\ PublishInv' /\ ZeroInv' /\ CountInv'
    <3>1. MutexInv'
      BY <2>1 DEF IInv, MutexInv
    <3>2. ContextInv'
      BY <2>1 DEF IInv, ContextInv
    <3>3. BorrowInv'
      BY <2>1 DEF IInv, MutexInv, BorrowInv
    <3>4. PublishInv'
      BY <2>1 DEF IInv, MutexInv, PublishInv
    <3>5. ZeroInv'
      BY <2>1 DEF IInv, MutexInv, ZeroInv
    <3>6. CountInv'
      BY <2>1 DEF IInv, CountInv, Leaving
    <3>. QED  BY <3>1, <3>2, <3>3, <3>4, <3>5, <3>6
  <2>4. (DistinctPods /\ CompletedCount /\ CompletedSorted)'
    BY <1>1, <2>1
    DEF IInv, DistinctPods, NoPodTwice, CompletedCount, CompletedSorted
  <2>. QED  BY <2>2, <2>3, <2>4 DEF IInv
<1>4. CASE \E p \in Pod : ReplacePod(p, None) \/ ReplacePod(p, Gone)
  <2>1. /\ annotation' \in [Pod -> Int \cup {None, Gone}]
        /\ UNCHANGED <<status, serverList, rankIndex, cachedPodNum, taskReplicasTotal,
                       cmMu, pc, ctx,
                       cm, faults>>
    BY <1>4 DEF ReplacePod, worker, IInv, TypeOK
  <2>2. TypeOK'
    BY <2>1 DEF IInv, TypeOK
  <2>3. MutexInv' /\ ContextInv' /\ BorrowInv' /\ PublishInv' /\ ZeroInv' /\ CountInv'
    <3>1. MutexInv'
      BY <2>1 DEF IInv, MutexInv
    <3>2. ContextInv'
      BY <2>1 DEF IInv, ContextInv
    <3>3. BorrowInv'
      BY <2>1 DEF IInv, MutexInv, BorrowInv
    <3>4. PublishInv'
      BY <2>1 DEF IInv, MutexInv, PublishInv
    <3>5. ZeroInv'
      BY <2>1 DEF IInv, MutexInv, ZeroInv
    <3>6. CountInv'
      BY <2>1 DEF IInv, CountInv, Leaving
    <3>. QED  BY <3>1, <3>2, <3>3, <3>4, <3>5, <3>6
  <2>4. (DistinctPods /\ CompletedCount /\ CompletedSorted)'
    BY <2>1 DEF IInv, DistinctPods, CompletedCount, CompletedSorted
  <2>. QED  BY <2>2, <2>3, <2>4 DEF IInv
<1>. QED  BY <1>2, <1>3, <1>4 DEF Environment

-----------------------------------------------------------------------------

\* IInv is kept by every step and every stutter.
THEOREM Inductive == IInv /\ [Next]_vars => IInv'
<1>1. SUFFICES ASSUME IInv, [Next]_vars PROVE IInv'
  OBVIOUS
<1>2. CASE UNCHANGED vars
  BY <1>1, <1>2
  DEF vars, IInv, TypeOK, DistinctPods, MutexInv, ContextInv, BorrowInv, PublishInv, ZeroInv,
      CountInv, Leaving, CompletedCount, CompletedSorted
<1>3. ASSUME NEW t \in Thread, AddSteps(t)
      PROVE  IInv'
  BY <1>1, <1>3, SyncHandlerStep, AddLockStep, UpdatePodStep, CachePodStep,
     CacheRejectedStep, PublishStep, ZeroPublishStep DEF AddSteps
<1>4. ASSUME NEW t \in Thread, DeleteSteps(t)
      PROVE  IInv'
  BY <1>1, <1>4, DeleteLockStep, DeleteRejectedStep, DeletePublishStep
  DEF DeleteSteps
<1>5. ASSUME NEW t \in Thread,
             (\E s \in Snapshots : DoWork(t, s)) \/ (\E p \in Pod : HandleDelete(t, p))
      PROVE  IInv'
  BY <1>1, <1>5, BeginStep
<1>6. CASE Environment
  BY <1>1, <1>6, EnvironmentStep
<1>. QED  BY <1>1, <1>2, <1>3, <1>4, <1>5, <1>6 DEF Next, Step

\* IInv holds in every reachable state.
THEOREM Invariance == Spec => []IInv
<1>. QED  BY InitIInv, Inductive, PTL DEF Spec

\* The worker's state, the locals of its threads and the API objects stay
\* within their types; the count of cached pods never becomes negative.
THEOREM TypeCorrect == Spec => []TypeOK
<1>1. IInv => TypeOK
  BY DEF IInv
<1>. QED  BY <1>1, Invariance, PTL

\* No interleaving of add and delete handlers lists a pod twice.
THEOREM PodsDistinct == Spec => []DistinctPods
<1>1. IInv => DistinctPods
  BY DEF IInv
<1>. QED  BY <1>1, Invariance, PTL

\* A completed table never has more pods than the job has replicas and
\* lacks at most as many as API calls have failed: none, without faults.
THEOREM CompletedTableCount == Spec => []CompletedCount
<1>1. IInv => CompletedCount
  BY DEF IInv
<1>. QED  BY <1>1, Invariance, PTL

\* A completed v2 table is in rank order.
THEOREM CompletedTableSorted == Spec => []CompletedSorted
<1>1. IInv => CompletedSorted
  BY DEF IInv
<1>. QED  BY <1>1, Invariance, PTL

\* Between handlers the count exceeds the table by failed deletes only.
THEOREM CountDriftBounded == Spec => []CountDrift
<1>1. IInv => CountDrift
  <2>1. SUFFICES ASSUME IInv, cmMu = None PROVE cachedPodNum - Len(serverList) \in 0 .. faults
    BY DEF CountDrift
  <2>2. \A t \in Thread : pc[t] # "deletePublish"
    BY <2>1, ThreadAssumption DEF IInv, MutexInv, Locked
  <2>3. Leaving = 0
    BY <2>2 DEF Leaving
  <2>4. cachedPodNum \in Nat /\ Len(serverList) \in Nat
    BY <2>1 DEF IInv, TypeOK
  <2>. QED  BY <2>1, <2>3, <2>4 DEF IInv, CountInv
<1>. QED  BY <1>1, Invariance, PTL
-----------------------------------------------------------------------------
(* One goroutine *)

\* The status that a lone goroutine has tested does not change under it.
TestHolds ==
    \A t \in Thread :
        pc[t] \in {"sync", "addLock", "annotate", "cache"} => status # Completed

LEMMA TestHoldsStep ==
    ASSUME NEW t0, Thread = {t0}, IInv, TestHolds, [Next]_vars
    PROVE  /\ TestHolds'
           /\ status = Completed /\ status' = Completed /\ serverList' # serverList
                => serverList' = << >>
<1>0. pc \in [Thread -> PC]
  BY DEF IInv, TypeOK
<1>1. CASE UNCHANGED vars
  BY <1>1 DEF vars, TestHolds
<1>2. CASE Step(t0)
  <2>1. TestHolds'
    BY <1>0, <1>2
    DEF TestHolds, Step, AddSteps, DeleteSteps, SyncHandler, AddLock, AddRejected,
        UpdatePod, CachePod, CacheRejected, Publish, ZeroPublish, DeleteLock,
        DeleteRejected, DeletePublish, Goto, Return, worker
  <2>2. \/ serverList' = serverList
        \/ status # Completed
        \/ status' # Completed
    BY <1>2
    DEF TestHolds, Step, AddSteps, DeleteSteps, SyncHandler, AddLock, AddRejected,
        UpdatePod, CachePod, CacheRejected, Publish, ZeroPublish, DeleteLock,
        DeleteRejected, DeletePublish, worker
  <2>. QED  BY <2>1, <2>2
<1>3. CASE (\E s \in Snapshots : DoWork(t0, s)) \/ (\E p \in Pod : HandleDelete(t0, p))
  BY <1>0, <1>3 DEF DoWork, HandleDelete, Goto, worker, TestHolds
<1>4. CASE Environment
  BY <1>0, <1>4 DEF Environment, NewWorker, Crash, FreshWorker, ReplaceConfigMap,
                    ReplacePod, worker, TestHolds
<1>. QED  BY <1>1, <1>2, <1>3, <1>4 DEF Next

\* With one goroutine, the default, a completed table stays as it is until the
\* status is taken back: the test of the status outside cmMu is safe then.
THEOREM CompletedTableFrozen ==
    ASSUME NEW CONSTANT t0, Thread = {t0}
    PROVE  Spec => FrozenWhenCompleted
<1>1. Init => IInv /\ TestHolds
  BY InitIInv DEF Init, TestHolds
<1>2. IInv /\ TestHolds /\ [Next]_vars =>
        /\ IInv' /\ TestHolds'
        /\ [status = Completed /\ status' = Completed /\ serverList' # serverList
             => serverList' = << >>]_vars
  BY Inductive, TestHoldsStep
<1>. QED  BY <1>1, <1>2, PTL DEF Spec, FrozenWhenCompleted
=============================================================================
