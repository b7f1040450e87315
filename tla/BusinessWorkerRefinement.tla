---------------------- MODULE BusinessWorkerRefinement ----------------------
(***************************************************************************)
(* BusinessWorker implements AtomicWorker: each step of a thread is a step *)
(* of the atomic worker, or changes nothing that can be seen from outside. *)
(* The steps are taken in states where IInv holds.                         *)
(***************************************************************************)
EXTENDS BusinessWorkerProofs

USE DEF Initializing, Completed

\* What the atomic worker sees of a state.
AtomicView == <<Range(serverList), cachedPodNum, taskReplicasTotal, NextRank, status,
                Pending, Published>>

\* A step of the atomic worker, or none.
AtomicStep == [Atomic!AtomicNext]_(Atomic!atomicVars)

\* The pending handler and the next rank can be told from the owner of cmMu.
OwnerView ==
    /\ cmMu = None => Pending = "none" /\ NextRank = rankIndex
    /\ \A t \in Thread : cmMu = t =>
         /\ Pending = IF pc[t] = "publish" THEN "add"
                      ELSE IF pc[t] = "deletePublish" THEN "delete" ELSE "none"
         /\ NextRank = IF Borrowing(t) THEN ctx[t].tmp ELSE rankIndex

LEMMA OwnerViewHolds == IInv => OwnerView
<1>. SUFFICES ASSUME IInv PROVE OwnerView
  OBVIOUS
<1>1. CASE cmMu = None
  <2>1. \A t \in Thread : pc[t] \notin Locked
    BY <1>1, ThreadAssumption DEF IInv, MutexInv
  <2>. QED  BY <1>1, <2>1, ThreadAssumption
            DEF OwnerView, Locked, Pending, At, NextRank, Borrowing
<1>2. ASSUME NEW t \in Thread, cmMu = t
      PROVE  /\ Pending = IF pc[t] = "publish" THEN "add"
                          ELSE IF pc[t] = "deletePublish" THEN "delete" ELSE "none"
             /\ NextRank = IF Borrowing(t) THEN ctx[t].tmp ELSE rankIndex
  <2>1. \A u \in Thread : u # t => pc[u] \notin Locked
    BY <1>2 DEF IInv, MutexInv
  <2>2. \A u \in Thread : Borrowing(u) => u = t
    BY <2>1 DEF Borrowing, Locked
  <2>3. NextRank = IF Borrowing(t) THEN ctx[t].tmp ELSE rankIndex
    BY <2>2 DEF NextRank
  <2>. QED  BY <2>1, <2>3 DEF Pending, At, Locked
<1>. QED  BY <1>1, <1>2, ThreadAssumption DEF OwnerView, IInv, TypeOK

\* A step that leaves what the atomic worker sees alone.
LEMMA Invisible ==
    ASSUME UNCHANGED <<serverList, cachedPodNum, taskReplicasTotal, status, cm>>,
           Pending' = Pending, NextRank' = NextRank
    PROVE  AtomicStep
<1>1. UNCHANGED AtomicView
  BY DEF AtomicView, Published
<1>. QED  BY <1>1 DEF AtomicStep, AtomicView, Atomic!atomicVars

-----------------------------------------------------------------------------
(* The steps that are not seen *)

\* A handler begins; another thread may own cmMu.
LEMMA BeginRefines ==
    ASSUME IInv, OwnerView, OwnerView', NEW t \in Thread,
           \/ \E s \in Snapshots : DoWork(t, s)
           \/ \E p \in Pod : HandleDelete(t, p)
    PROVE  AtomicStep
<1>1. PICK l, c :
         /\ l \in {"sync", "deleteLock"}
         /\ pc[t] = "idle"
         /\ pc' = [pc EXCEPT ![t] = l]
         /\ ctx' = [ctx EXCEPT ![t] = c]
         /\ UNCHANGED <<worker, cmMu, api>>
  BY DEF DoWork, HandleDelete, Goto
<1>2. cmMu # t
  BY <1>1 DEF IInv, MutexInv, Locked
<1>3. Pending' = Pending /\ NextRank' = NextRank
  BY <1>1, <1>2 DEF OwnerView, IInv, TypeOK, Borrowing, worker
<1>. QED  BY <1>1, <1>3, Invisible DEF worker, api

\* cmMu is taken and a rank borrowed, or the event is refused.
LEMMA AddLockRefines ==
    ASSUME IInv, OwnerView, OwnerView', NEW t \in Thread,
           AddLock(t) \/ AddRejected(t)
    PROVE  AtomicStep
<1>1. CASE AddLock(t)
  <2>. USE <1>1 DEF AddLock, Lock, Goto, api
  <2>1. ctx[t] \in Context
    BY DEF IInv, ContextInv
  <2>2. ctx'[t].rank = ctx[t].rank /\ ctx'[t].tmp = rankIndex
    BY <2>1 DEF IInv, TypeOK, Context
  <2>3. Pending' = Pending /\ NextRank' = NextRank
    BY <2>2 DEF OwnerView, IInv, TypeOK, Borrowing
  <2>. QED  BY <2>3, Invisible
<1>2. CASE AddRejected(t)
  <2>1. Pending' = Pending /\ NextRank' = NextRank
    BY <1>2 DEF AddRejected, Return, Goto, worker, OwnerView
  <2>. QED  BY <1>2, <2>1, Invisible DEF AddRejected, worker, api
<1>. QED  BY <1>1, <1>2

\* The annotation is written; the pod brought no rank, so none is borrowed.
LEMMA UpdatePodRefines ==
    ASSUME IInv, OwnerView, OwnerView', NEW t \in Thread, UpdatePod(t)
    PROVE  AtomicStep
<1>. USE DEF UpdatePod, Unlock, Return, Goto, worker
<1>1. cmMu = t /\ ctx[t].rank = None
  BY DEF IInv, MutexInv, Locked, BorrowInv
<1>2. Pending' = Pending /\ NextRank' = NextRank
  BY <1>1 DEF OwnerView, IInv, TypeOK, Borrowing
<1>. QED  BY <1>2, Invisible

\* A refused pod gives back the rank it brought.
LEMMA CacheRejectedRefines ==
    ASSUME IInv, OwnerView, OwnerView', NEW t \in Thread, CacheRejected(t)
    PROVE  AtomicStep
<1>. USE DEF CacheRejected, Unlock, Return, Goto, api
<1>1. cmMu = t
  BY DEF IInv, MutexInv, Locked
<1>2. Pending' = Pending /\ NextRank' = NextRank
  BY <1>1 DEF OwnerView, OldRankIndex, Borrowing
<1>. QED  BY <1>2, Invisible

-----------------------------------------------------------------------------
(* The steps that are seen *)

\* A set of entries has the pods of the list they are from.
LEMMA RangePods ==
    ASSUME NEW list \in Seq(Entry)
    PROVE  /\ Range(list) \subseteq Entry
           /\ \A p \in Pod : Cached(list, p) <=> \E e \in Range(list) : e.pod = p
           /\ Range(list) = {} <=> list = << >>
<1>1. DOMAIN list = 1 .. Len(list) /\ Len(list) \in Nat /\ \A i \in DOMAIN list : list[i] \in Entry
  OBVIOUS
<1>2. Range(list) \subseteq Entry
  BY <1>1 DEF Range
<1>3. \A p \in Pod : Cached(list, p) <=> \E e \in Range(list) : e.pod = p
  BY DEF Range, Cached, Pods
<1>4. Range(list) = {} <=> list = << >>
  BY <1>1 DEF Range
<1>. QED  BY <1>2, <1>3, <1>4

\* FiniteSets is there twice: once for each of the two modules.
LEMMA SameCardinality == \A S : Atomic!Cardinality(S) = Cardinality(S)
BY DEF Cardinality, Atomic!Cardinality

\* CachePod is Cache, with the rank the pod brings or the next one.
LEMMA CachePodRefines ==
    ASSUME IInv, OwnerView, OwnerView', NEW t \in Thread, CachePod(t)
    PROVE  AtomicStep
<1>. DEFINE p == ctx[t].pod
            own == ctx[t].rank
<1>1. /\ pc[t] = "cache" /\ cmMu = t
      /\ ctx[t] \in Context /\ p \in Pod
      /\ rankIndex \in Int
      /\ serverList \in Seq(Entry)
      /\ taskReplicasTotal # 0
      /\ ~Cached(serverList, p)
  BY HolderAlone DEF CachePod, Accepted, IInv, TypeOK, MutexInv, Locked, ContextInv, Context
<1>2. /\ own \in {None} \cup 0 .. MaxRankIndex
      /\ own # None => rankIndex = own
  BY <1>1 DEF IInv, BorrowInv
<1>3. Pending = "none" /\ NextRank = IF own = None THEN rankIndex ELSE ctx[t].tmp
  BY <1>1 DEF OwnerView, Borrowing
<1>4. Range(serverList)' = Range(serverList) \cup
        {[pod |-> p, rank |-> IF JSONVersion = "v1" THEN None ELSE rankIndex]}
  <2>1. Range(serverList)' = Range(serverList')
    BY DEF Range
  <2>. QED  BY <1>1, <2>1, CachePodInfoRange DEF CachePod
<1>5. \A e \in Range(serverList) : e.pod # p
  BY <1>1, RangePods
<1>6. /\ cachedPodNum' = cachedPodNum + 1
      /\ IF cachedPodNum' = taskReplicasTotal
         THEN status' = Completed /\ Pending' = "add"
         ELSE status' = status /\ Pending' = "none"
  BY <1>1 DEF CachePod, Goto, Unlock, Return, OwnerView, IInv, TypeOK
<1>7. NextRank' = IF own = None THEN rankIndex + 1 ELSE ctx[t].tmp
  BY <1>1 DEF CachePod, NextRankIndex, Goto, Unlock, Return, OwnerView, Borrowing,
              IInv, TypeOK
<1>8. taskReplicasTotal' = taskReplicasTotal /\ Published' = Published
  BY DEF CachePod, api, Published
<1>. HIDE DEF p, own
<1>9. Atomic!Cache(p, own)
  BY <1>1, <1>2, <1>3, <1>4, <1>5, <1>6, <1>7, <1>8 DEF Atomic!Cache
<1>. QED  BY <1>1, <1>2, <1>9 DEF AtomicStep, Atomic!AtomicNext

\* updateConfigMap is Publication of the table.
LEMMA UpdateConfigMapRefines ==
    ASSUME IInv, NextRank = rankIndex, NextRank' = rankIndex', NEW done \in BOOLEAN,
           IF done THEN Written ELSE NotAcknowledged
    PROVE  Atomic!Publication(done)
<1>1. serverList \in Seq(Entry) /\ NoPodTwice(serverList)
  BY DEF IInv, TypeOK, DistinctPods
<1>2. Published' \in {Published, [status |-> status, table |-> Range(serverList)]}
  BY DEF Written, NotAcknowledged, RankTableData, Published
<1>3. CASE done
  <2>1. Published' = [status |-> status, table |-> Range(serverList)]
    BY <1>3 DEF Written, RankTableData, Published
  <2>2. GetPodNum(serverList) \in Atomic!ChipCounts
    <3>1. CASE JSONVersion = "v1" \/ serverList = << >>
      BY <1>1, <3>1, RangePods DEF GetPodNum, Atomic!ChipCounts
    <3>2. CASE ~(JSONVersion = "v1" \/ serverList = << >>)
      <4>1. serverList[1] \in Range(serverList)
        BY <1>1, <3>2 DEF Range
      <4>2. GetPodNum(serverList) =
              Cardinality(Range(serverList)) * Devices[serverList[1].pod]
        BY <1>1, <3>2, TableCardinality DEF GetPodNum
      <4>3. Range(serverList) # {}
        BY <4>1
      <4>. QED  BY <3>2, <4>1, <4>2, <4>3, SameCardinality DEF Atomic!ChipCounts
    <3>. QED  BY <3>1, <3>2
  <2>3. NextRank' = GetPodNum(serverList)
    BY <1>3 DEF Written
  <2>. QED  BY <1>3, <2>1, <2>2, <2>3 DEF Atomic!Publication
<1>4. CASE ~done
  <2>1. NextRank' = NextRank
    BY <1>4 DEF NotAcknowledged
  <2>. QED  BY <1>2, <1>4, <2>1 DEF Atomic!Publication
<1>. QED  BY <1>3, <1>4

\* Publish is Complete.
LEMMA PublishRefines ==
    ASSUME IInv, OwnerView, OwnerView', NEW t \in Thread, Publish(t)
    PROVE  AtomicStep
<1>1. pc[t] = "publish" /\ cmMu = t /\ cmMu' = None
  BY DEF Publish, Unlock, IInv, MutexInv, Locked
<1>2. Pending = "add" /\ Pending' = "none" /\ NextRank = rankIndex /\ NextRank' = rankIndex'
  BY <1>1 DEF OwnerView, Borrowing
<1>3. PICK done \in BOOLEAN : IF done THEN Written ELSE NotAcknowledged
  BY DEF Publish, UpdateConfigMap
<1>4. Atomic!Publication(done)
  BY <1>2, <1>3, UpdateConfigMapRefines
<1>5. UNCHANGED <<serverList, cachedPodNum, taskReplicasTotal, status>>
  BY DEF Publish
<1>6. Atomic!Complete
  BY <1>2, <1>4, <1>5 DEF Atomic!Complete
<1>. QED  BY <1>6 DEF AtomicStep, Atomic!AtomicNext

\* DeletePublish is Withdraw.
LEMMA DeletePublishRefines ==
    ASSUME IInv, OwnerView, OwnerView', NEW t \in Thread, DeletePublish(t)
    PROVE  AtomicStep
<1>1. pc[t] = "deletePublish" /\ cmMu = t /\ cmMu' = None
  BY DEF DeletePublish, Unlock, IInv, MutexInv, Locked
<1>2. /\ Pending = "delete" /\ Pending' = "none"
      /\ NextRank = rankIndex /\ NextRank' = rankIndex'
  BY <1>1 DEF OwnerView, Borrowing
<1>3. PICK done \in BOOLEAN :
         /\ IF done THEN Written ELSE NotAcknowledged
         /\ cachedPodNum' = IF done THEN cachedPodNum - 1 ELSE cachedPodNum
  BY DEF DeletePublish
<1>4. Atomic!Publication(done)
  BY <1>2, <1>3, UpdateConfigMapRefines
<1>5. UNCHANGED <<serverList, taskReplicasTotal, status>>
  BY DEF DeletePublish
<1>6. Atomic!Withdraw
  BY <1>2, <1>3, <1>4, <1>5 DEF Atomic!Withdraw
<1>. QED  BY <1>6 DEF AtomicStep, Atomic!AtomicNext

\* DeleteLock is Remove.
LEMMA DeleteLockRefines ==
    ASSUME IInv, OwnerView, OwnerView', NEW t \in Thread, DeleteLock(t)
    PROVE  AtomicStep
<1>. DEFINE p == ctx[t].pod
<1>1. /\ pc[t] = "deleteLock" /\ cmMu = None /\ cmMu' = t /\ pc'[t] = "deletePublish"
      /\ status' = Initializing
      /\ Cached(serverList, p) /\ serverList' = RemovePodInfo(serverList, p)
      /\ UNCHANGED <<rankIndex, cachedPodNum, taskReplicasTotal, cm>>
  BY DEF DeleteLock, Lock, Goto, IInv, TypeOK, api
<1>2. p \in Pod /\ serverList \in Seq(Entry) /\ NoPodTwice(serverList)
  BY <1>1 DEF IInv, TypeOK, ContextInv, Context, DistinctPods
<1>3. /\ Pending = "none" /\ Pending' = "delete"
      /\ NextRank = rankIndex /\ NextRank' = rankIndex'
  BY <1>1 DEF OwnerView, Borrowing
<1>4. \E e \in Range(serverList) :
         e.pod = p /\ Range(serverList)' = Range(serverList) \ {e}
  <2>1. Range(serverList)' = Range(serverList')
    BY DEF Range
  <2>. QED  BY <1>1, <1>2, <2>1, RemovePodInfoRange
<1>5. Published' = Published
  BY <1>1 DEF Published
<1>. HIDE DEF p
<1>6. Atomic!Remove(p)
  BY <1>1, <1>3, <1>4, <1>5 DEF Atomic!Remove
<1>. QED  BY <1>2, <1>6 DEF AtomicStep, Atomic!AtomicNext

\* DeleteRejected is Reopen.
LEMMA DeleteRejectedRefines ==
    ASSUME IInv, OwnerView, OwnerView', NEW t \in Thread, DeleteRejected(t)
    PROVE  AtomicStep
<1>1. /\ cmMu = None /\ cmMu' = None /\ status' = Initializing
      /\ UNCHANGED <<serverList, rankIndex, cachedPodNum, taskReplicasTotal, cm>>
  BY DEF DeleteRejected, api
<1>2. Pending = "none" /\ Pending' = "none" /\ NextRank' = NextRank /\ Published' = Published
  BY <1>1 DEF OwnerView, Published
<1>3. Atomic!Reopen
  BY <1>1, <1>2 DEF Atomic!Reopen, Range
<1>. QED  BY <1>3 DEF AtomicStep, Atomic!AtomicNext

\* A worker without replicas: syncHandler and its publication are CompleteEmpty.
LEMMA SyncHandlerRefines ==
    ASSUME IInv, OwnerView, OwnerView', NEW t \in Thread, SyncHandler(t)
    PROVE  AtomicStep
<1>. USE DEF SyncHandler, NothingToCache, Goto, Return, api
<1>1. cmMu # t
  BY DEF IInv, MutexInv, Locked
<1>2. Pending' = Pending /\ NextRank' = NextRank
  BY <1>1 DEF OwnerView, IInv, TypeOK, Borrowing
<1>3. CASE NothingToCache
  <2>1. Range(serverList) = {} /\ UNCHANGED Range(serverList)
    BY <1>3, RangePods DEF IInv, TypeOK, ZeroInv, Range
  <2>2. Published' = Published /\ status' = Completed
    BY <1>3 DEF Published
  <2>3. Atomic!CompleteEmpty
    BY <1>2, <1>3, <2>1, <2>2 DEF Atomic!CompleteEmpty
  <2>. QED  BY <2>3 DEF AtomicStep, Atomic!AtomicNext
<1>4. CASE ~NothingToCache
  BY <1>2, <1>4, Invisible
<1>. QED  BY <1>3, <1>4

LEMMA ZeroPublishRefines ==
    ASSUME IInv, OwnerView, OwnerView', NEW t \in Thread, ZeroPublish(t)
    PROVE  AtomicStep
<1>1. /\ taskReplicasTotal = 0 /\ cachedPodNum = 0 /\ serverList = << >>
      /\ cmMu = None
  BY ThreadAssumption DEF ZeroPublish, IInv, TypeOK, ZeroInv, MutexInv, Locked
<1>2. UNCHANGED <<status, serverList, cachedPodNum, taskReplicasTotal, cmMu>>
  BY DEF ZeroPublish
<1>3. /\ Pending' = Pending
      /\ NextRank = rankIndex /\ NextRank' = rankIndex'
  BY <1>1, <1>2 DEF OwnerView
<1>4. PICK done \in BOOLEAN : IF done THEN Written ELSE NotAcknowledged
  BY DEF ZeroPublish, UpdateConfigMap
<1>5. Atomic!Publication(done)
  BY <1>3, <1>4, UpdateConfigMapRefines
<1>6. Range(serverList) = {} /\ UNCHANGED Range(serverList)
  BY <1>1, <1>2, RangePods DEF IInv, TypeOK, Range
<1>7. Atomic!CompleteEmpty
  BY <1>1, <1>2, <1>3, <1>5, <1>6 DEF Atomic!CompleteEmpty
<1>. QED  BY <1>7 DEF AtomicStep, Atomic!AtomicNext

\* A new worker and a crash are Renew; a new ConfigMap is Clear.
LEMMA EnvironmentRefines ==
    ASSUME IInv, OwnerView, OwnerView', Environment
    PROVE  AtomicStep
<1>1. CASE (\E st \in Status, n \in Replicas : NewWorker(st, n))
           \/ (\E n \in Replicas : Crash(n))
  <2>1. /\ status' \in Status /\ serverList' = << >> /\ rankIndex' = 0
        /\ cachedPodNum' = 0 /\ taskReplicasTotal' \in Replicas
        /\ UNCHANGED cm
    BY <1>1 DEF NewWorker, Crash, FreshWorker, api, IInv, TypeOK
  <2>2. cmMu' = None
    BY <1>1 DEF NewWorker, Crash, IInv, TypeOK, MutexInv, Locked
  <2>3. Pending' = "none" /\ NextRank' = 0
    BY <2>1, <2>2 DEF OwnerView
  <2>4. Range(serverList)' = {}
    BY <2>1 DEF Range
  <2>5. Atomic!Renew
    BY <2>1, <2>3, <2>4 DEF Atomic!Renew, Status, Published
  <2>. QED  BY <2>5 DEF AtomicStep, Atomic!AtomicNext
<1>2. CASE ReplaceConfigMap
  <2>1. cm' = [status |-> Initializing, list |-> << >>, replicas |-> 0]
    BY <1>2 DEF ReplaceConfigMap, EmptyConfigMap
  <2>2. Published' = [status |-> "initializing", table |-> {}]
    <3>1. Range(<< >>) = {}
      BY DEF Range
    <3>. QED  BY <2>1, <3>1 DEF Published, Range
  <2>3. UNCHANGED <<worker, cmMu, pc, ctx>>
    BY <1>2 DEF ReplaceConfigMap
  <2>4. Pending' = Pending /\ NextRank' = NextRank
    BY <2>3 DEF OwnerView, IInv, TypeOK, Borrowing, worker
  <2>5. Atomic!Clear
    BY <2>2, <2>3, <2>4 DEF Atomic!Clear, worker, Range
  <2>. QED  BY <2>5 DEF AtomicStep, Atomic!AtomicNext
<1>3. CASE \E p \in Pod : ReplacePod(p, None) \/ ReplacePod(p, Gone)
  <2>1. UNCHANGED <<worker, cmMu, pc, ctx, cm>>
    BY <1>3 DEF ReplacePod
  <2>2. Pending' = Pending /\ NextRank' = NextRank
    BY <2>1 DEF OwnerView, IInv, TypeOK, Borrowing, worker
  <2>. QED  BY <2>1, <2>2, Invisible DEF worker
<1>. QED  BY <1>1, <1>2, <1>3 DEF Environment

-----------------------------------------------------------------------------

\* The initial states are those of the atomic worker.
LEMMA InitRefines == Init => Atomic!AtomicInit
<1>. SUFFICES ASSUME Init PROVE Atomic!AtomicInit
  OBVIOUS
<1>1. /\ status = Initializing /\ serverList = << >> /\ cachedPodNum = 0
      /\ taskReplicasTotal \in Replicas
      /\ cm = [status |-> Initializing, list |-> << >>, replicas |-> 0]
      /\ rankIndex = 0 /\ cmMu = None
  BY DEF Init, EmptyConfigMap
<1>2. Pending = "none" /\ NextRank = 0
  BY <1>1, InitIInv, OwnerViewHolds DEF OwnerView
<1>3. Range(<< >>) = {}
  BY DEF Range
<1>. QED  BY <1>1, <1>2, <1>3 DEF Atomic!AtomicInit, Published

\* Every step of the detailed worker, from a state of the invariant, is a
\* step of the atomic worker or is not seen.
LEMMA NextRefines ==
    ASSUME IInv, IInv', OwnerView, OwnerView', [Next]_vars
    PROVE  AtomicStep
<1>1. CASE UNCHANGED vars
  <2>1. UNCHANGED <<serverList, cachedPodNum, taskReplicasTotal, status, cm, rankIndex,
                    cmMu, pc, ctx>>
    BY <1>1 DEF vars
  <2>2. Pending' = Pending /\ NextRank' = NextRank
    BY <2>1 DEF OwnerView, IInv, TypeOK, Borrowing
  <2>. QED  BY <2>1, <2>2, Invisible
<1>2. ASSUME NEW t \in Thread, AddSteps(t)
      PROVE  AtomicStep
  BY <1>2, SyncHandlerRefines, AddLockRefines, UpdatePodRefines, CachePodRefines,
     CacheRejectedRefines, PublishRefines, ZeroPublishRefines DEF AddSteps
<1>3. ASSUME NEW t \in Thread, DeleteSteps(t)
      PROVE  AtomicStep
  BY <1>3, DeleteLockRefines, DeleteRejectedRefines, DeletePublishRefines
  DEF DeleteSteps
<1>4. ASSUME NEW t \in Thread,
             (\E s \in Snapshots : DoWork(t, s)) \/ (\E p \in Pod : HandleDelete(t, p))
      PROVE  AtomicStep
  BY <1>4, BeginRefines
<1>5. CASE Environment
  BY <1>5, EnvironmentRefines
<1>. QED  BY <1>1, <1>2, <1>3, <1>4, <1>5 DEF Next, Step

\* The handlers of any number of pod goroutines take effect as if they ran
\* one at a time, although the status is tested without cmMu, a rank is
\* borrowed by overwriting rankIndex and a delete leaves the table unordered.
THEOREM Refinement == Spec => ImplementsAtomic
<1>1. Init => Atomic!AtomicInit
  BY InitRefines
<1>2. IInv /\ IInv' /\ [Next]_vars => [Atomic!AtomicNext]_(Atomic!atomicVars)
  <2>1. SUFFICES ASSUME IInv, IInv', [Next]_vars
                 PROVE  [Atomic!AtomicNext]_(Atomic!atomicVars)
    OBVIOUS
  <2>2. OwnerView
    BY <2>1, OwnerViewHolds
  <2>3. OwnerView'
    BY <2>1, OwnerViewHolds, PTL
  <2>. QED  BY <2>1, <2>2, <2>3, NextRefines DEF AtomicStep
<1>. QED  BY <1>1, <1>2, Invariance, PTL DEF Spec, ImplementsAtomic, Atomic!AtomicSpec
=============================================================================
