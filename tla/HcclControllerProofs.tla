------------------------ MODULE HcclControllerProofs ------------------------
(***************************************************************************)
(* The composition, for every number of jobs, pods, goroutines, replicas,  *)
(* updates, deletes, lost watches and restarts: the pod side and the job   *)
(* side together use the worker only as BusinessWorker allows, so what     *)
(* is proved there of any pods and any snapshots holds of the controller.  *)
(***************************************************************************)
EXTENDS HcclController, PodAgentProofs, BusinessWorkerRefinement

JobsProved == INSTANCE JobControllerProofs

USE DEF Status, Initializing, Completed

HcclInv ==
    /\ AgentInv
    /\ Jobs!JobTypeOK
    /\ jobStart \in [Goroutine -> Status]

-----------------------------------------------------------------------------
(* The job side is the one JobControllerProofs is about *)

LEMMA SameTypes ==
    /\ Jobs!JobTypeOK <=> JobsProved!JobTypeOK
    /\ Jobs!JobTypeOK' <=> JobsProved!JobTypeOK'
BY DEF Jobs!JobTypeOK, Jobs!WatchInv, Jobs!Job, Jobs!NoJob, Jobs!Model, Jobs!NoModel,
       JobsProved!JobTypeOK, JobsProved!WatchInv, JobsProved!Job, JobsProved!NoJob,
       JobsProved!Model, JobsProved!NoModel

LEMMA SameNext == Jobs!JobNext <=> JobsProved!JobNext
BY DEF Jobs!JobNext, Jobs!CreateJob, Jobs!UpdateJob, Jobs!DeleteJob,
       Jobs!CreateConfigMap, Jobs!DeleteConfigMap, Jobs!JobEvent, Jobs!JobRelist,
       Jobs!JobRestart, Jobs!Get, Jobs!JobStep, Jobs!SyncJob, Jobs!EventUpdate,
       Jobs!EventAdd, Jobs!CheckCMCreation, Jobs!InstallWorker, Jobs!DeleteWorker,
       Jobs!NotifyJob, Jobs!ModelOf, Jobs!TypeOf, Jobs!JobGoto, Jobs!JobDone,
       Jobs!SyncTarget, Jobs!GetFails, Jobs!jobAPI, Jobs!jobInformer, Jobs!NoJob,
       Jobs!NoModel,
       JobsProved!JobNext, JobsProved!CreateJob, JobsProved!UpdateJob,
       JobsProved!DeleteJob, JobsProved!CreateConfigMap, JobsProved!DeleteConfigMap,
       JobsProved!JobEvent, JobsProved!JobRelist, JobsProved!JobRestart,
       JobsProved!Get, JobsProved!JobStep, JobsProved!SyncJob,
       JobsProved!EventUpdate, JobsProved!EventAdd, JobsProved!CheckCMCreation,
       JobsProved!InstallWorker, JobsProved!DeleteWorker, JobsProved!NotifyJob,
       JobsProved!ModelOf, JobsProved!TypeOf, JobsProved!JobGoto, JobsProved!JobDone,
       JobsProved!SyncTarget, JobsProved!GetFails, JobsProved!jobAPI, JobsProved!jobInformer,
       JobsProved!NoJob, JobsProved!NoModel

\* Every step of the composition is one of the job side, or leaves it alone.
LEMMA JobSideStep == HcclNext => Jobs!JobNext \/ UNCHANGED Jobs!jobVars
<1>. SUFFICES ASSUME HcclNext PROVE Jobs!JobNext \/ UNCHANGED Jobs!jobVars
  OBVIOUS
<1>. USE DEF jobSide, Jobs!jobVars
<1>1. CASE NewJob \/ JobChanges \/ JobInformer \/ RestartAll
  BY <1>1 DEF NewJob, JobChanges, JobInformer, RestartAll, Jobs!JobNext
<1>2. CASE \E g \in Goroutine : JobSteps(g)
  BY <1>2 DEF JobSteps, ReadConfigMap, InstallWorker, DeleteWorker, Jobs!JobNext,
              Jobs!JobStep
<1>3. ASSUME UNCHANGED <<businessWorker, jobSide>> PROVE UNCHANGED Jobs!jobVars
  BY <1>3
<1>4. CASE NewConfigMap
  BY <1>4 DEF NewConfigMap
<1>5. ASSUME NEW p \in Pod, NewPod(p) \/ LatePod(p) \/ CollectPod(p)
                            \/ (PodSteps(p) /\ UNCHANGED jobSide)
      PROVE  UNCHANGED <<businessWorker, jobSide>>
  BY <1>5 DEF NewPod, LatePod, CreatePod, CollectPod, PodGone, PodSteps, AllotDevices, DeletePod,
              WatchEvent, Relist
<1>6. ASSUME NEW k \in waiting, Due(k) /\ UNCHANGED jobSide
      PROVE  UNCHANGED <<businessWorker, jobSide>>
  BY <1>6 DEF Due
<1>7. ASSUME NEW t \in Thread, ThreadSteps(t) /\ UNCHANGED jobSide
      PROVE  UNCHANGED <<businessWorker, jobSide>>
  BY <1>7 DEF ThreadSteps, Take, Dispatch, Work, Finish
<1>. QED  BY <1>1, <1>2, <1>3, <1>4, <1>5, <1>6, <1>7 DEF HcclNext

LEMMA JobTypesKept ==
    ASSUME HcclInv, [HcclNext]_hcclVars
    PROVE  Jobs!JobTypeOK'
<1>1. JobsProved!JobTypeOK
  BY SameTypes DEF HcclInv
<1>2. JobsProved!JobNext \/ UNCHANGED JobsProved!jobVars
  <2>1. Jobs!JobNext \/ UNCHANGED Jobs!jobVars
    <3>1. CASE HcclNext
      BY <3>1, JobSideStep
    <3>2. CASE UNCHANGED hcclVars
      BY <3>2 DEF hcclVars, Jobs!jobVars
    <3>. QED  BY <3>1, <3>2
  <2>. QED  BY <2>1, SameNext DEF Jobs!jobVars, JobsProved!jobVars
<1>3. JobsProved!JobTypeOK'
  BY <1>1, <1>2, JobsProved!NextJobTypeOK, HcclBoundsAssumption, AgentBoundsAssumption,
     KindAssumption, ReplicasAssumption DEF JobsProved!jobVars
<1>. QED  BY <1>3, SameTypes

-----------------------------------------------------------------------------
(* Each step is one that the worker allows, and keeps the types *)

\* What the job side keeps is numbered.
LEMMA JobNumbers ==
    ASSUME HcclInv
    PROVE  /\ job.id \in Nat /\ job.replicas \in Nat
           /\ \A g \in Goroutine : jobPC[g] # "idle" => model[g].job \in Jobs!Job
           /\ \A j \in Jobs!Job : j.id \in Nat /\ j.replicas \in Replicas
<1>1. /\ job \in Jobs!Job \cup {Jobs!NoJob}
      /\ \A g \in Goroutine : /\ jobPC[g] # "idle" => model[g] # Jobs!NoModel
                              /\ model[g] \in Jobs!Model \cup {Jobs!NoModel}
  BY DEF HcclInv, Jobs!JobTypeOK
<1>2. \A j \in Jobs!Job : j.id \in Nat /\ j.replicas \in Replicas
  BY HcclBoundsAssumption DEF Jobs!Job
<1>3. job.id \in Nat /\ job.replicas \in Nat
  <2>1. CASE job \in Jobs!Job
    BY <1>2, <2>1, ReplicasAssumption
  <2>2. CASE job = Jobs!NoJob
    BY <2>2 DEF Jobs!NoJob
  <2>. QED  BY <1>1, <2>1, <2>2
<1>4. \A m \in Jobs!Model : m.job \in Jobs!Job
  BY DEF Jobs!Model
<1>. QED  BY <1>1, <1>2, <1>3, <1>4

\* A pod is created for the job there is, or for one that is gone, and not before
\* the last job was.
LEMMA CreatedBy ==
    ASSUME HcclInv, NEW p \in Pod, NewPod(p) \/ LatePod(p)
    PROVE  /\ jobs \in Nat /\ owner \in [Pod -> Nat] /\ created \in [Pod -> Nat]
           /\ \E j \in 1 .. jobs, n \in Nat :
                CreatePod(p, j, jobs, n, TRUE) /\ (j = jobs \/ owner[p] <= j)
<1>1. /\ jobs \in Nat /\ owner \in [Pod -> Nat] /\ created \in [Pod -> Nat]
      /\ job \in Jobs!Job \cup {Jobs!NoJob} /\ job.id \in {0, jobs}
  BY HcclBoundsAssumption DEF HcclInv, AgentInv, Typed, AgentTypeOK, Jobs!JobTypeOK
<1>2. CASE NewPod(p)
  <2>1. job # Jobs!NoJob /\ CreatePod(p, job.id, jobs, job.replicas, TRUE)
    BY <1>2 DEF NewPod
  <2>2. job.id = jobs /\ jobs \in 1 .. jobs
    BY <1>1, <2>1, HcclBoundsAssumption DEF Jobs!Job
  <2>3. job.replicas \in Nat
    BY JobNumbers
  <2>. QED  BY <1>1, <2>1, <2>2, <2>3, Zenon
<1>3. CASE LatePod(p)
  <2>1. PICK j \in 1 .. jobs \ {job.id}, n \in Replicas :
          owner[p] <= j /\ CreatePod(p, j, jobs, n, TRUE)
    BY <1>3 DEF LatePod
  <2>2. j \in 1 .. jobs /\ n \in Nat
    BY <2>1, ReplicasAssumption
  <2>. QED  BY <1>1, <2>1, <2>2, Zenon
<1>. QED  BY <1>2, <1>3

\* Where the worker is left alone the worker's types are as they were.
LEMMA WorkerAlone ==
    ASSUME HcclInv, UNCHANGED <<vars, allotted, used, owner, watch, store, waiting, ready,
                                stage, item, spent>>,
           created' \in [Pod -> Nat], businessWorker' \in Nat
    PROVE  Typed'
BY DEF HcclInv, AgentInv, Typed, AgentTypeOK, Entered, Live, vars

\* The API server's and the informers' steps are the worker's environment.
LEMMA OutsideSteps ==
    ASSUME HcclInv, NewJob \/ JobChanges \/ NewConfigMap \/ JobInformer \/ RestartAll
    PROVE  [Next]_vars /\ Typed' /\ jobStart' \in [Goroutine -> Status]
<1>1. CASE NewJob \/ JobChanges \/ JobInformer
  <2>1. UNCHANGED <<vars, allotted, used, owner, watch, store, waiting, ready, stage, item,
                    spent, businessWorker, jobStart>>
    BY <1>1 DEF NewJob, JobChanges, JobInformer, podSide, pods, informer, queue, agent,
                Jobs!CreateJob, Jobs!UpdateJob, Jobs!DeleteJob, Jobs!JobEvent,
                Jobs!JobRelist
  <2>2. created' \in [Pod -> Nat]
    <3>1. created \in [Pod -> Nat] /\ jobs \in Nat
      BY HcclBoundsAssumption DEF HcclInv, AgentInv, Typed, AgentTypeOK, Jobs!JobTypeOK
    <3>2. CASE NewJob
      BY <3>1, <3>2 DEF NewJob
    <3>3. CASE JobChanges \/ JobInformer
      BY <3>1, <3>3 DEF JobChanges, JobInformer, podSide, pods
    <3>. QED  BY <1>1, <3>2, <3>3
  <2>. QED  BY <2>1, <2>2, WorkerAlone DEF HcclInv, AgentInv, Typed, AgentTypeOK
<1>2. CASE NewConfigMap
  <2>1. ReplaceConfigMap /\ jobStart' = jobStart
    BY <1>2 DEF NewConfigMap, jobSide
  <2>2. Typed'
    BY <1>2 DEF NewConfigMap, ReplaceConfigMap, worker, pods, informer, queue, agent,
                HcclInv, AgentInv, Typed, AgentTypeOK, Entered, Live
  <2>. QED  BY <2>1, <2>2 DEF Next, Environment, HcclInv
<1>3. CASE RestartAll
  <2>1. Restart /\ AgentInv /\ jobStart' = [g \in Goroutine |-> Initializing]
    BY <1>3 DEF RestartAll, HcclInv
  <2>2. jobStart' \in [Goroutine -> Status]
    BY <2>1
  <2>. QED  BY <2>1, <2>2, RestartRefines, RestartTyped
<1>. QED  BY <1>1, <1>2, <1>3

LEMMA PodSideSteps ==
    ASSUME SnapshotsCover, HcclInv,
           \/ \E p \in Pod : \/ NewPod(p) \/ LatePod(p) \/ CollectPod(p)
                             \/ (PodSteps(p) /\ UNCHANGED jobSide)
           \/ \E k \in waiting : Due(k) /\ UNCHANGED jobSide
           \/ \E t \in Thread : ThreadSteps(t) /\ UNCHANGED jobSide
    PROVE  [Next]_vars /\ Typed' /\ jobStart' \in [Goroutine -> Status]
<1>1. jobStart' \in [Goroutine -> Status]
  BY DEF HcclInv, NewPod, LatePod, CollectPod, jobSide
<1>2. ASSUME NEW p \in Pod, NewPod(p) \/ LatePod(p) \/ CollectPod(p)
                            \/ (PodSteps(p) /\ UNCHANGED jobSide)
      PROVE  [Next]_vars /\ Typed'
  <2>1. CASE NewPod(p) \/ LatePod(p)
    <3>1. \E j, c, n \in Nat : CreatePod(p, j, c, n, TRUE)
      <4>1. PICK j \in 1 .. jobs, n \in Nat : CreatePod(p, j, jobs, n, TRUE)
        BY <2>1, CreatedBy
      <4>2. jobs \in Nat
        BY HcclBoundsAssumption DEF HcclInv, Jobs!JobTypeOK
      <4>3. j \in Nat
        BY <4>2
      <4>. QED  BY <4>1, <4>2, <4>3, Zenon
    <3>. QED  BY <3>1, PodRefines, CreateTyped DEF HcclInv
  <2>2. CASE CollectPod(p)
    <3>1. spent' = spent
      BY <2>2 DEF CollectPod
    <3>. QED  BY <2>2, <3>1, PodRefines, GoneTyped, SpentTyped DEF CollectPod, HcclInv
  <2>3. CASE PodSteps(p)
    BY <2>3, PodRefines, PodStepTyped DEF HcclInv
  <2>. QED  BY <1>2, <2>1, <2>2, <2>3
<1>3. ASSUME NEW k \in waiting, Due(k) PROVE [Next]_vars /\ Typed'
  BY <1>3, DueTyped DEF Due, HcclInv
<1>4. ASSUME NEW t \in Thread, ThreadSteps(t) PROVE [Next]_vars /\ Typed'
  <2>1. [Next]_vars
    BY <1>4, ThreadRefines DEF HcclInv
  <2>2. IInv'
    BY <2>1, Inductive DEF HcclInv, AgentInv
  <2>. QED  BY <1>4, <2>1, <2>2, ThreadTyped DEF HcclInv
<1>. QED  BY <1>1, <1>2, <1>3, <1>4

\* The write lock is what makes a new worker a step BusinessWorker allows: no
\* thread is in a handler then.
LEMMA GoroutineStep ==
    ASSUME HcclInv, NEW g \in Goroutine, JobSteps(g)
    PROVE  [Next]_vars /\ Typed' /\ jobStart' \in [Goroutine -> Status]
<1>1. CASE InstallWorker(g)
  <2>. DEFINE n == Jobs!ReplicasTotal(model[g].job)
  <2>0. /\ UNCHANGED <<annotation, pc, allotted, used, owner, created, watch, store, waiting,
                       ready, stage, item, spent>>
        /\ businessWorker' \in Nat
    <3>1. model[g].job.id \in Nat /\ businessWorker \in Nat
      BY <1>1, JobNumbers
      DEF InstallWorker, Jobs!InstallWorker, HcclInv, AgentInv, Typed, AgentTypeOK
    <3>2. businessWorker' \in {businessWorker, model[g].job.id}
      BY <1>1 DEF InstallWorker, Jobs!InstallWorker
    <3>3. UNCHANGED <<annotation, pc>>
      BY <1>1 DEF InstallWorker, vars, api
    <3>. QED  BY <1>1, <3>1, <3>2, <3>3 DEF InstallWorker, pods, informer, queue, agent
  <2>1. jobStart' \in [Goroutine -> Status]
    BY <1>1 DEF InstallWorker, HcclInv
  <2>2. CASE UNCHANGED vars
    <3>1. created' \in [Pod -> Nat]
      BY <2>0 DEF HcclInv, AgentInv, Typed, AgentTypeOK
    <3>. QED  BY <2>0, <2>1, <2>2, <3>1, WorkerAlone
  <2>3. CASE FreshWorker(jobStart[g], n) /\ UNCHANGED <<cmMu, pc, ctx, api>>
    <3>1. \A u \in Thread : pc[u] = "idle"
      BY <1>1 DEF InstallWorker, WriteLock, HcclInv, AgentInv, Typed, Entered
    <3>2. jobStart[g] \in Status /\ n \in Replicas
      BY <1>1, JobNumbers
      DEF InstallWorker, Jobs!InstallWorker, Jobs!ReplicasTotal, HcclInv
    <3>3. [Next]_vars
      BY <2>3, <3>1, <3>2 DEF NewWorker, Next, Environment
    <3>4. Typed'
      BY <2>0, <2>3, <3>2
      DEF FreshWorker, HcclInv, AgentInv, Typed, AgentTypeOK, Entered, Live
    <3>. QED  BY <2>1, <3>3, <3>4
  <2>. QED  BY <1>1, <2>2, <2>3 DEF InstallWorker
<1>2. CASE ~InstallWorker(g)
  <2>1. /\ UNCHANGED <<vars, allotted, used, owner, created, watch, store, waiting, ready, stage,
                       item, spent>>
        /\ businessWorker' \in {businessWorker, 0}
    BY <1>2
    DEF JobSteps, ReadConfigMap, DeleteWorker, podSide, pods, informer, queue, agent,
        Jobs!Get, Jobs!SyncJob, Jobs!EventUpdate, Jobs!EventAdd, Jobs!CheckCMCreation,
        Jobs!DeleteWorker
  <2>2. jobStart' \in [Goroutine -> Status]
    BY <1>2 DEF JobSteps, ReadConfigMap, DeleteWorker, HcclInv, AgentInv, IInv, TypeOK
  <2>. QED  BY <2>1, <2>2, WorkerAlone DEF HcclInv, AgentInv, Typed, AgentTypeOK
<1>. QED  BY <1>1, <1>2

\* Every step of the composition is one of the worker, or leaves it alone.
LEMMA HcclStep ==
    ASSUME SnapshotsCover, HcclInv, [HcclNext]_hcclVars
    PROVE  [Next]_vars /\ HcclInv'
<1>1. [Next]_vars /\ Typed' /\ jobStart' \in [Goroutine -> Status]
  <2>1. CASE UNCHANGED hcclVars
    <3>1. UNCHANGED <<vars, allotted, used, owner, created, watch, store, waiting, ready, stage,
                      item, spent, businessWorker, jobStart>>
      BY <2>1 DEF hcclVars
    <3>. QED  BY <3>1, WorkerAlone DEF HcclInv, AgentInv, Typed, AgentTypeOK
  <2>2. CASE HcclNext
    BY <2>2, OutsideSteps, PodSideSteps, GoroutineStep DEF HcclNext
  <2>. QED  BY <2>1, <2>2
<1>2. IInv'
  BY <1>1, Inductive DEF HcclInv, AgentInv
<1>. QED  BY <1>1, <1>2, JobTypesKept DEF HcclInv, AgentInv

LEMMA HcclInitInv == HcclInit => HcclInv
<1>. SUFFICES ASSUME HcclInit PROVE HcclInv
  OBVIOUS
<1>1. JobsProved!JobInit
  BY DEF HcclInit, Jobs!JobInit, Jobs!NoJob, Jobs!NoModel,
         JobsProved!JobInit, JobsProved!NoJob, JobsProved!NoModel
<1>2. JobsProved!JobTypeOK
  BY <1>1, JobsProved!InitJobTypeOK, HcclBoundsAssumption, AgentBoundsAssumption,
     KindAssumption, ReplicasAssumption
<1>3. Jobs!JobTypeOK
  BY <1>2, SameTypes
<1>4. AgentInv
  BY AgentInitInv DEF HcclInit
<1>5. jobStart \in [Goroutine -> Status]
  BY DEF HcclInit
<1>. QED  BY <1>3, <1>4, <1>5 DEF HcclInv

-----------------------------------------------------------------------------

\* The whole controller puts the worker of a name through a behaviour of
\* BusinessWorker: RwMutex keeps the job side from replacing it under a handler,
\* and the snapshots are those of pods that were there.
THEOREM Composition == ASSUME SnapshotsCover PROVE HcclSpec => Spec
<1>1. HcclInit => Init
  BY DEF HcclInit, AgentInit
<1>2. HcclInv /\ [HcclNext]_hcclVars => [Next]_vars /\ HcclInv'
  BY HcclStep
<1>. QED  BY <1>1, <1>2, HcclInitInv, PTL DEF HcclSpec, Spec

-----------------------------------------------------------------------------
(* Pods of earlier jobs *)

\* A version, or none, of p is never of a later job than p's last pod.
NotLater(v, p) == v # None => v.job <= owner[p]

Adding == {"sync", "addLock", "annotate", "cache"}

\* The owners of a name never decrease, nor do the times its pods were created;
\* what the informer, its store and a thread hold of a pod is of its last owner
\* or an earlier one; and a pod that is being added passed the test of the
\* worker's own job.
OwnerInv ==
    /\ \A p \in Pod : owner[p] <= jobs /\ created[p] <= jobs
    /\ \A p \in Pod : \A i \in DOMAIN watch[p] : NotLater(watch[p][i], p)
    /\ \A p \in Pod : NotLater(store[p], p)
    /\ \A t \in Thread : stage[t] = "fetched" => NotLater(item[t].pod, item[t].key.pod)
    /\ \A t \in Thread : pc[t] \in Adding =>
          businessWorker # 0 /\ Incarnation(ctx[t].pod) >= businessWorker
    /\ NoOlderPod

\* A step of a handler puts no pod into the table but the one it works on.
LEMMA StepPods ==
    ASSUME IInv, NEW t \in Thread, Step(t)
    PROVE  /\ \A p \in Pods(serverList') :
                p \in Pods(serverList) \/ (pc[t] = "cache" /\ p = ctx[t].pod)
           /\ \A u \in Thread \ {t} : pc'[u] = pc[u] /\ ctx'[u] = ctx[u]
           /\ pc'[t] \in Adding => pc[t] \in Adding /\ ctx'[t].pod = ctx[t].pod
<1>1. /\ serverList \in Seq(Entry) /\ rankIndex \in Int
      /\ pc \in [Thread -> PC] /\ ctx \in [Thread -> Context \cup {None}]
      /\ pc[t] # "idle" => ctx[t] \in Context
  BY DEF IInv, TypeOK, ContextInv
<1>2. \A u \in Thread \ {t} : pc'[u] = pc[u] /\ ctx'[u] = ctx[u]
  BY <1>1
  DEF Step, AddSteps, DeleteSteps, SyncHandler, AddLock, AddRejected, UpdatePod, CachePod,
      CacheRejected, Publish, ZeroPublish, DeleteLock, DeleteRejected, DeletePublish,
      Goto, Return
<1>3. pc'[t] \in Adding => pc[t] \in Adding /\ ctx'[t].pod = ctx[t].pod
  BY <1>1
  DEF Step, AddSteps, DeleteSteps, SyncHandler, AddLock, AddRejected, UpdatePod, CachePod,
      CacheRejected, Publish, ZeroPublish, DeleteLock, DeleteRejected, DeletePublish,
      Goto, Return, Adding, Context, PC
<1>4. CASE CachePod(t)
  <2>1. ctx[t].pod \in Pod /\ pc[t] = "cache"
    BY <1>1, <1>4 DEF CachePod, Context
  <2>2. serverList' \in CachePodInfo(serverList, ctx[t].pod, rankIndex)
    BY <1>4 DEF CachePod
  <2>3. Pods(serverList') = Pods(serverList) \cup {ctx[t].pod}
    BY <1>1, <2>1, <2>2, CachePodInfoLemma
  <2>. QED  BY <1>2, <1>3, <2>1, <2>3
<1>5. CASE DeleteLock(t)
  <2>1. /\ Len(serverList) \in Nat /\ DOMAIN serverList = 1 .. Len(serverList)
        /\ serverList' = RemovePodInfo(serverList, ctx[t].pod)
    BY <1>1, <1>5 DEF DeleteLock
  <2>2. Pods(serverList') \subseteq Pods(serverList)
    BY <2>1 DEF RemovePodInfo, Pods
  <2>. QED  BY <1>2, <1>3, <2>2
<1>6. CASE ~CachePod(t) /\ ~DeleteLock(t)
  <2>1. serverList' = serverList
    BY <1>6 DEF Step, AddSteps, DeleteSteps, SyncHandler, AddLock, AddRejected, UpdatePod,
                CacheRejected, Publish, ZeroPublish, DeleteRejected, DeletePublish, worker
  <2>. QED  BY <1>2, <1>3, <2>1
<1>. QED  BY <1>4, <1>5, <1>6

\* Jobs are numbered in the order they come, and so are the owners of a name and
\* the times its pods were created.
LEMMA OwnersGrow ==
    ASSUME HcclInv, OwnerInv, HcclNext
    PROVE  \A p \in Pod : /\ owner[p] \in Nat /\ owner'[p] \in Nat
                          /\ owner[p] <= owner'[p] /\ owner'[p] <= jobs'
                          /\ created[p] <= created'[p] /\ created'[p] <= jobs'
                          /\ Incarnation(p) \in Nat /\ Incarnation(p)' \in Nat
                          /\ Incarnation(p) <= Incarnation(p)'
<1>1. /\ owner \in [Pod -> Nat] /\ created \in [Pod -> Nat] /\ jobs \in Nat /\ jobs' \in Nat
      /\ \A p \in Pod : owner[p] <= jobs /\ created[p] <= jobs
  <2>1. jobs \in Nat /\ jobs' \in Nat
    BY JobTypesKept, HcclBoundsAssumption DEF HcclInv, Jobs!JobTypeOK
  <2>. QED  BY <2>1 DEF HcclInv, AgentInv, Typed, AgentTypeOK, OwnerInv
<1>2. jobs <= jobs'
  BY <1>1, JobSideStep
  DEF Jobs!JobNext, Jobs!jobVars, Jobs!CreateJob, Jobs!UpdateJob, Jobs!DeleteJob,
      Jobs!CreateConfigMap, Jobs!DeleteConfigMap, Jobs!JobEvent, Jobs!JobRelist,
      Jobs!JobRestart, Jobs!Get, Jobs!JobStep, Jobs!SyncJob, Jobs!EventUpdate,
      Jobs!EventAdd, Jobs!CheckCMCreation, Jobs!InstallWorker, Jobs!DeleteWorker,
      Jobs!jobAPI
<1>3. SUFFICES \A p \in Pod : /\ owner'[p] \in Nat /\ created'[p] \in Nat
                              /\ owner[p] <= owner'[p] /\ owner'[p] <= jobs'
                              /\ created[p] <= created'[p] /\ created'[p] <= jobs'
  BY <1>1 DEF Incarnation
<1>4. CASE UNCHANGED <<owner, created>>
  BY <1>1, <1>2, <1>4
<1>5. CASE NewJob
  <2>1. PICK S \in SUBSET { p \in used : created[p] = jobs } :
          created' = [p \in Pod |-> IF p \in S THEN jobs + 1 ELSE created[p]]
    BY <1>5 DEF NewJob
  <2>2. owner' = owner /\ jobs' = jobs + 1
    BY <1>5 DEF NewJob, Jobs!CreateJob
  <2>3. \A p \in Pod : IF p \in S THEN created'[p] = jobs + 1 ELSE created'[p] = created[p]
    BY <2>1
  <2>. QED  BY <1>1, <2>2, <2>3
<1>6. ASSUME NEW p \in Pod, NewPod(p) \/ LatePod(p)
      PROVE  \A q \in Pod : /\ owner'[q] \in Nat /\ created'[q] \in Nat
                            /\ owner[q] <= owner'[q] /\ owner'[q] <= jobs'
                            /\ created[q] <= created'[q] /\ created'[q] <= jobs'
  <2>1. PICK j \in 1 .. jobs : /\ owner' = [owner EXCEPT ![p] = j]
                               /\ created' = [created EXCEPT ![p] = jobs]
                               /\ owner[p] <= j
    <3>1. PICK j \in 1 .. jobs, n \in Nat :
            CreatePod(p, j, jobs, n, TRUE) /\ (j = jobs \/ owner[p] <= j)
      BY <1>6, CreatedBy
    <3>2. owner[p] <= j
      BY <1>1, <3>1
    <3>. QED  BY <3>1, <3>2 DEF CreatePod
  <2>. QED  BY <1>1, <1>2, <2>1
<1>. QED  BY <1>4, <1>5, <1>6
          DEF HcclNext, JobChanges, NewConfigMap, JobInformer, RestartAll, Restart, CollectPod,
              PodGone, PodSteps, AllotDevices, DeletePod, WatchEvent, Relist, Due, ThreadSteps,
              Take, Dispatch, Work, Finish, JobSteps, ReadConfigMap, InstallWorker,
              DeleteWorker, podSide, pods

LEMMA VersionOfJob ==
    ASSUME HcclInv
    PROVE  /\ \A r, c, j : VersionOf(r, c, j) # None => VersionOf(r, c, j).job = j
           /\ \A p \in Pod : NotLater(CurrentVersion(p), p)
<1>1. \A r, c, j : VersionOf(r, c, j) # None => VersionOf(r, c, j).job = j
  BY DEF VersionOf
<1>2. owner \in [Pod -> Nat]
  BY DEF HcclInv, AgentInv, Typed, AgentTypeOK
<1>. QED  BY <1>1, <1>2 DEF CurrentVersion, NotLater

\* What goes down a watch is of the owner the pod has then.
LEMMA WatchGrows ==
    ASSUME SnapshotsCover, HcclInv, HcclNext, NEW p \in Pod
    PROVE  \/ watch'[p] = watch[p]
           \/ watch'[p] = << >>
           \/ watch[p] # << >> /\ watch'[p] = Tail(watch[p])
           \/ \E v : /\ watch'[p] = Append(watch[p], v)
                     /\ v \in Version \cup {None}
                     /\ v # None => v.job = owner'[p]
<1>0. /\ watch \in [Pod -> Seq(Version \cup {None})] /\ owner \in [Pod -> Nat]
      /\ job.id \in Nat
  BY JobNumbers DEF HcclInv, AgentInv, Typed, AgentTypeOK
<1>1. CASE \E q \in Pod : NewPod(q) \/ LatePod(q)
  <2>1. PICK q \in Pod : NewPod(q) \/ LatePod(q)
    BY <1>1
  <2>2. PICK j \in Nat :
          /\ watch' = [watch EXCEPT ![q] = Append(@, VersionOf(None, TRUE, j))]
          /\ owner' = [owner EXCEPT ![q] = j]
    <3>1. PICK j \in 1 .. jobs, n \in Nat : CreatePod(q, j, jobs, n, TRUE)
      BY <2>1, CreatedBy
    <3>2. j \in Nat
      BY <2>1, CreatedBy
    <3>. QED  BY <3>1, <3>2 DEF CreatePod, Notify
  <2>3. VersionOf(None, TRUE, j) \in Version \cup {None}
    BY <1>0, VersionTyped DEF HcclInv
  <2>4. CASE p = q
    <3>. DEFINE v == VersionOf(None, TRUE, j)
    <3>1. watch'[p] = Append(watch[p], v) /\ owner'[p] = j
      BY <1>0, <2>2, <2>4
    <3>2. v # None => v.job = j
      BY VersionOfJob
    <3>. HIDE DEF v
    <3>. QED  BY <2>3, <3>1, <3>2 DEF v
  <2>. QED  BY <1>0, <2>2, <2>4
<1>2. CASE \E q \in Pod : CollectPod(q) \/ DeletePod(q)
  <2>1. PICK q \in Pod : PodGone(q)
    BY <1>2 DEF CollectPod, DeletePod
  <2>2. watch' = [watch EXCEPT ![q] = Append(@, None)]
    BY <2>1 DEF PodGone, Notify
  <2>. QED  BY <1>0, <2>2
<1>3. CASE \E q \in Pod : AllotDevices(q)
  <2>1. PICK q \in Pod : AllotDevices(q)
    BY <1>3
  <2>2. /\ watch' = [watch EXCEPT ![q] = Append(@, VersionOf(annotation[q], TRUE, owner[q]))]
        /\ owner' = owner /\ owner[q] \in Nat
    BY <1>0, <2>1 DEF AllotDevices, Notify
  <2>3. VersionOf(annotation[q], TRUE, owner[q]) \in Version \cup {None}
    BY <2>2, VersionTyped DEF HcclInv
  <2>4. CASE p = q
    <3>. DEFINE v == VersionOf(annotation[q], TRUE, owner[q])
    <3>1. watch'[p] = Append(watch[p], v) /\ owner'[p] = owner[q]
      BY <1>0, <2>2, <2>4
    <3>2. v # None => v.job = owner[q]
      BY VersionOfJob
    <3>. HIDE DEF v
    <3>. QED  BY <2>3, <3>1, <3>2 DEF v
  <2>. QED  BY <1>0, <2>2, <2>4
<1>4. CASE \E q \in Pod : WatchEvent(q) \/ Relist(q)
  BY <1>0, <1>4 DEF WatchEvent, Relist
<1>5. CASE \E t \in Thread : Work(t)
  <2>1. owner' = owner /\ owner'[p] \in Nat
    BY <1>0, <1>5 DEF Work, pods
  <2>2. watch'[p] = watch[p] \/ watch'[p] = Append(watch[p], CurrentVersion(p)')
    BY <1>5 DEF Work
  <2>3. CurrentVersion(p)' # None => CurrentVersion(p)'.job = owner'[p]
    BY DEF CurrentVersion, VersionOf
  <2>4. CurrentVersion(p)' \in Version \cup {None}
    <3>1. IInv'
      BY HcclStep DEF HcclInv, AgentInv
    <3>2. annotation'[p] \in Int \cup {None, Gone}
      BY <3>1 DEF IInv, TypeOK
    <3>. QED  BY <2>1, <3>2, GoneAssumption DEF CurrentVersion, VersionOf, Version
  <2>. QED  BY <2>2, <2>3, <2>4
<1>6. CASE RestartAll
  BY <1>6 DEF RestartAll, Restart
<1>7. CASE UNCHANGED watch
  BY <1>7
<1>. QED  BY <1>1, <1>2, <1>3, <1>4, <1>5, <1>6, <1>7
          DEF HcclNext, NewJob, JobChanges, NewConfigMap, JobInformer, PodSteps, Due, ThreadSteps,
              Take, Dispatch, Finish, JobSteps, ReadConfigMap, InstallWorker,
              DeleteWorker, podSide, informer

\* What the store holds came down the watch, or was listed.
LEMMA StoreGrows ==
    ASSUME HcclInv, HcclNext, NEW p \in Pod
    PROVE  \/ store'[p] = store[p]
           \/ watch[p] # << >> /\ store'[p] = Head(watch[p])
           \/ store'[p] = CurrentVersion(p) /\ owner' = owner
<1>0. store \in [Pod -> Version \cup {None}]
  BY DEF HcclInv, AgentInv, Typed, AgentTypeOK
<1>1. CASE \E q \in Pod : WatchEvent(q) \/ Relist(q)
  BY <1>0, <1>1 DEF WatchEvent, Relist, pods
<1>2. CASE RestartAll
  BY <1>2 DEF RestartAll, Restart, pods
<1>3. CASE UNCHANGED store
  BY <1>3
<1>. QED  BY <1>1, <1>2, <1>3
          DEF HcclNext, NewJob, JobChanges, NewConfigMap, JobInformer, NewPod, LatePod,
              CreatePod, CollectPod, PodGone, PodSteps, DeletePod, AllotDevices, Due,
              ThreadSteps, Take, Dispatch, Work, Finish, JobSteps, ReadConfigMap, InstallWorker,
              DeleteWorker, podSide, informer

\* What a thread holds was in the store.
LEMMA ItemGrows ==
    ASSUME HcclInv, HcclNext, NEW t \in Thread, stage'[t] = "fetched"
    PROVE  \/ stage[t] = "fetched" /\ item'[t] = item[t]
           \/ \E k \in Key : item'[t] = [key |-> k, pod |-> store[k.pod]]
<1>0. /\ stage \in [Thread -> {"free", "fetched", "running"}]
      /\ item \in [Thread -> [key : Key, pod : Version \cup {None}] \cup {None}]
      /\ ready \subseteq Key
  BY DEF HcclInv, AgentInv, Typed, AgentTypeOK
<1>1. CASE \E u \in Thread, k \in ready : Take(u, k)
  BY <1>0, <1>1 DEF Take
<1>2. CASE \E u \in Thread : Dispatch(u) \/ Finish(u)
  BY <1>0, <1>2 DEF Dispatch, Finish, Forget, Requeue, Enter, Release
<1>3. CASE RestartAll
  BY <1>3 DEF RestartAll, Restart
<1>4. CASE UNCHANGED agent
  BY <1>4 DEF agent
<1>. QED  BY <1>1, <1>2, <1>3, <1>4
          DEF HcclNext, NewJob, JobChanges, NewConfigMap, JobInformer, NewPod, LatePod,
              CreatePod, CollectPod, PodGone, PodSteps, DeletePod, AllotDevices, WatchEvent,
              Relist, Due, ThreadSteps, Work, JobSteps, ReadConfigMap, InstallWorker,
              DeleteWorker, podSide, agent

\* What a handler adds, and for which worker.
LEMMA AddingGrows ==
    ASSUME HcclInv, OwnerInv, HcclNext, NEW t \in Thread, pc'[t] \in Adding
    PROVE  /\ businessWorker' = businessWorker /\ businessWorker # 0
           /\ ctx'[t].pod \in Pod
           /\ Incarnation(ctx'[t].pod) >= businessWorker
<1>0. /\ pc \in [Thread -> PC] /\ ctx \in [Thread -> Context \cup {None}]
      /\ \A u \in Thread : pc[u] # "idle" => ctx[u] \in Context /\ stage[u] = "running"
      /\ businessWorker \in Nat /\ owner \in [Pod -> Nat] /\ created \in [Pod -> Nat]
  BY DEF HcclInv, AgentInv, Typed, Entered, AgentTypeOK, IInv, TypeOK, ContextInv
<1>1. CASE \E u \in Thread : ThreadSteps(u) /\ UNCHANGED jobSide
  <2>1. PICK u \in Thread : ThreadSteps(u) /\ businessWorker' = businessWorker
    BY <1>1 DEF ThreadSteps, Take, Dispatch, Work, Finish
  <2>2. CASE Dispatch(u) /\ u = t /\ pc'[t] # pc[t]
    <3>. DEFINE key == item[t].key
                v == item[t].pod
                s == SnapshotOf(key.pod, v, created[key.pod], businessWorker)
    <3>1. key.pod \in Pod /\ v \in Version \cup {None} /\ stage[t] = "fetched"
      BY <2>2 DEF Dispatch, HcclInv, AgentInv, Typed, Entered, Key
    <3>2. businessWorker # 0 /\ v # None /\ DoWork(t, s)
      BY <1>0, <2>2 DEF Dispatch, Forget, Requeue, HandleDelete, Goto, vars, Adding
    <3>3. IF WorkerKind = "vcjob" THEN v.job = businessWorker
          ELSE ~(created[key.pod] < businessWorker)
      <4>1. ~Foreign(s)
        BY <3>2 DEF DoWork, Requeued
      <4>2. s.owned = (v.job = businessWorker) /\ s.older = (created[key.pod] < businessWorker)
        BY DEF SnapshotOf
      <4>. QED  BY <4>1, <4>2 DEF Foreign
    <3>4. Incarnation(key.pod) >= businessWorker
      <4>1. owner[key.pod] >= v.job /\ v.job \in Nat
        BY <3>1, <3>2 DEF OwnerInv, NotLater, Version
      <4>. QED  BY <1>0, <3>1, <3>3, <4>1 DEF Incarnation
    <3>5. ctx'[t].pod = key.pod
      BY <1>0, <3>2 DEF DoWork, SnapshotOf
    <3>. QED  BY <2>1, <3>1, <3>2, <3>4, <3>5
  <2>3. CASE Dispatch(u) /\ ~(u = t /\ pc'[t] # pc[t])
    <3>1. pc'[t] = pc[t] /\ ctx'[t] = ctx[t]
      BY <1>0, <2>3 DEF Dispatch, Forget, Requeue, HandleDelete, DoWork, Goto, vars
    <3>. QED  BY <1>0, <2>1, <3>1 DEF OwnerInv, Adding, Context
  <2>4. CASE Work(u)
    <3>1. pc[t] \in Adding /\ ctx'[t].pod = ctx[t].pod
      BY <2>4, StepPods DEF Work, HcclInv, AgentInv
    <3>. QED  BY <1>0, <2>1, <3>1 DEF OwnerInv, Adding, Context
  <2>5. CASE Finish(u) \/ \E k \in ready : Take(u, k)
    <3>1. UNCHANGED <<pc, ctx>>
      BY <2>5 DEF Finish, Forget, Take, vars
    <3>. QED  BY <1>0, <2>1, <3>1 DEF OwnerInv, Adding, Context
  <2>. QED  BY <2>1, <2>2, <2>3, <2>4, <2>5 DEF ThreadSteps
<1>2. CASE RestartAll
  <2>1. pc'[t] = "idle"
    BY <1>2 DEF RestartAll, Restart, Crash
  <2>. QED  BY <2>1 DEF Adding
<1>3. CASE \E g \in Goroutine : InstallWorker(g) \/ DeleteWorker(g)
  <2>1. pc' = pc /\ stage[t] # "running"
    BY <1>3 DEF InstallWorker, DeleteWorker, WriteLock, podSide, vars
  <2>. QED  BY <1>0, <2>1 DEF Adding
<1>4. CASE UNCHANGED <<pc, ctx, businessWorker>>
  BY <1>0, <1>4 DEF OwnerInv, Adding, Context
<1>5. ASSUME NEW g \in Goroutine, JobSteps(g), ~InstallWorker(g), ~DeleteWorker(g)
      PROVE  UNCHANGED <<pc, ctx, businessWorker>>
  BY <1>5 DEF JobSteps, ReadConfigMap, podSide, vars, Jobs!Get, Jobs!SyncJob,
              Jobs!EventUpdate, Jobs!EventAdd, Jobs!CheckCMCreation
<1>6. ASSUME \/ NewJob \/ JobChanges \/ NewConfigMap \/ JobInformer
             \/ \E p \in Pod : \/ NewPod(p) \/ LatePod(p) \/ CollectPod(p)
                               \/ (PodSteps(p) /\ UNCHANGED jobSide)
             \/ \E k \in waiting : Due(k) /\ UNCHANGED jobSide
      PROVE  UNCHANGED <<pc, ctx, businessWorker>>
  BY <1>6 DEF NewJob, JobChanges, NewConfigMap, JobInformer, NewPod, LatePod, CreatePod,
              CollectPod, PodGone, PodSteps, AllotDevices, DeletePod, WatchEvent, Relist, Due,
              ReplacePod, ReplaceConfigMap, podSide, vars, Jobs!CreateJob, Jobs!UpdateJob,
              Jobs!DeleteJob, Jobs!JobEvent, Jobs!JobRelist
<1>. QED  BY <1>1, <1>2, <1>3, <1>4, <1>5, <1>6 DEF HcclNext

\* The table of a worker has pods of its own job, or of a later one that the
\* job side has not heard of yet.
LEMMA TableGrows ==
    ASSUME HcclInv, OwnerInv, HcclNext, businessWorker' # 0, NEW p \in Pods(serverList')
    PROVE  p \in Pod /\ businessWorker' = businessWorker /\ Incarnation(p) >= businessWorker
<1>0. /\ Pods(serverList) \subseteq Pod /\ pc \in [Thread -> PC]
      /\ \A u \in Thread : pc[u] # "idle" => ctx[u] \in Context
      /\ Pods(<< >>) = {}
  <2>1. serverList \in Seq(Entry) /\ pc \in [Thread -> PC]
        /\ \A u \in Thread : pc[u] # "idle" => ctx[u] \in Context
    BY DEF HcclInv, AgentInv, IInv, TypeOK, ContextInv
  <2>2. Pods(serverList) \subseteq Pod
    <3>1. \A i \in DOMAIN serverList : serverList[i] \in Entry
      BY <2>1
    <3>. QED  BY <3>1 DEF Pods, Entry
  <2>. QED  BY <2>1, <2>2 DEF Pods
<1>1. CASE \E t \in Thread : ThreadSteps(t) /\ UNCHANGED jobSide
  <2>1. PICK t \in Thread : ThreadSteps(t) /\ businessWorker' = businessWorker
    BY <1>1 DEF ThreadSteps, Take, Dispatch, Work, Finish
  <2>2. CASE Work(t)
    <3>1. p \in Pods(serverList) \/ (pc[t] = "cache" /\ p = ctx[t].pod)
      BY <2>2, StepPods DEF Work, HcclInv, AgentInv
    <3>. QED  BY <1>0, <2>1, <3>1 DEF OwnerInv, NoOlderPod, Adding, Context
  <2>3. CASE ~Work(t)
    <3>1. serverList' = serverList
      BY <2>1, <2>3 DEF ThreadSteps, Take, Dispatch, Finish, Forget, Requeue, HandleDelete,
                        DoWork, vars, worker
    <3>. QED  BY <1>0, <2>1, <3>1 DEF OwnerInv, NoOlderPod
  <2>. QED  BY <2>2, <2>3
<1>2. CASE RestartAll
  <2>1. serverList' = << >>
    BY <1>2 DEF RestartAll, Restart, Crash, FreshWorker
  <2>. QED  BY <1>0, <2>1
<1>3. CASE \E g \in Goroutine : InstallWorker(g)
  <2>1. serverList' = << >> \/ UNCHANGED <<serverList, businessWorker>>
    BY <1>3 DEF InstallWorker, Jobs!InstallWorker, FreshWorker, vars
  <2>. QED  BY <1>0, <2>1 DEF OwnerInv, NoOlderPod
<1>4. CASE UNCHANGED serverList /\ businessWorker' \in {businessWorker, 0}
  BY <1>0, <1>4 DEF OwnerInv, NoOlderPod
<1>5. ASSUME NEW g \in Goroutine, JobSteps(g), ~InstallWorker(g)
      PROVE  UNCHANGED serverList /\ businessWorker' \in {businessWorker, 0}
  BY <1>5 DEF JobSteps, ReadConfigMap, DeleteWorker, podSide, vars, Jobs!Get, Jobs!SyncJob,
              Jobs!EventUpdate, Jobs!EventAdd, Jobs!CheckCMCreation, Jobs!DeleteWorker
<1>6. ASSUME \/ NewJob \/ JobChanges \/ NewConfigMap \/ JobInformer
             \/ \E q \in Pod : \/ NewPod(q) \/ LatePod(q) \/ CollectPod(q)
                               \/ (PodSteps(q) /\ UNCHANGED jobSide)
             \/ \E k \in waiting : Due(k) /\ UNCHANGED jobSide
      PROVE  UNCHANGED <<serverList, businessWorker>>
  BY <1>6 DEF NewJob, JobChanges, NewConfigMap, JobInformer, NewPod, LatePod, CreatePod,
              CollectPod, PodGone, PodSteps, AllotDevices, DeletePod, WatchEvent, Relist, Due,
              ReplacePod, ReplaceConfigMap, podSide, vars, worker, Jobs!CreateJob, Jobs!UpdateJob,
              Jobs!DeleteJob, Jobs!JobEvent, Jobs!JobRelist
<1>. QED  BY <1>1, <1>2, <1>3, <1>4, <1>5, <1>6 DEF HcclNext

LEMMA OwnerStep ==
    ASSUME SnapshotsCover, HcclInv, OwnerInv, [HcclNext]_hcclVars
    PROVE  OwnerInv'
<1>1. CASE UNCHANGED hcclVars
  BY <1>1 DEF hcclVars, vars, OwnerInv, NotLater, NoOlderPod, Pods, Incarnation
<1>2. CASE HcclNext
  <2>0. \A p \in Pod : /\ owner[p] \in Nat /\ owner'[p] \in Nat
                       /\ owner[p] <= owner'[p] /\ owner'[p] <= jobs'
                       /\ created'[p] <= jobs'
                       /\ Incarnation(p) \in Nat /\ Incarnation(p)' \in Nat
                       /\ Incarnation(p) <= Incarnation(p)'
    BY <1>2, OwnersGrow
  <2>1. \A p \in Pod, v \in Version \cup {None} : NotLater(v, p) => NotLater(v, p)'
    BY <2>0 DEF NotLater, Version
  <2>2. /\ \A p \in Pod : store[p] \in Version \cup {None}
        /\ \A p \in Pod : watch[p] \in Seq(Version \cup {None})
        /\ businessWorker \in Nat
    BY DEF HcclInv, AgentInv, Typed, AgentTypeOK
  <2>3. ASSUME NEW p \in Pod, NEW i \in DOMAIN watch'[p]
        PROVE  NotLater(watch[p][i], p)'
    <3>1. CASE watch'[p] = watch[p]
      BY <2>1, <2>2, <2>3, <3>1 DEF OwnerInv, NotLater
    <3>2. CASE watch'[p] = << >>
      BY <2>3, <3>2
    <3>3. CASE watch[p] # << >> /\ watch'[p] = Tail(watch[p])
      <4>1. i + 1 \in DOMAIN watch[p] /\ watch'[p][i] = watch[p][i + 1]
        BY <2>2, <2>3, <3>3
      <4>2. NotLater(watch[p][i + 1], p) /\ watch[p][i + 1] \in Version \cup {None}
        BY <2>2, <4>1 DEF OwnerInv
      <4>. QED  BY <2>1, <4>1, <4>2 DEF NotLater
    <3>4. ASSUME NEW v, watch'[p] = Append(watch[p], v), v \in Version \cup {None},
                 v # None => v.job = owner'[p]
          PROVE  NotLater(watch[p][i], p)'
      <4>1. CASE i \in DOMAIN watch[p]
        <5>1. watch'[p][i] = watch[p][i] /\ watch[p][i] \in Version \cup {None}
          BY <2>2, <3>4, <4>1
        <5>2. NotLater(watch[p][i], p)
          BY <4>1 DEF OwnerInv
        <5>. QED  BY <2>1, <5>1, <5>2 DEF NotLater
      <4>2. CASE i \notin DOMAIN watch[p]
        <5>1. watch'[p][i] = v
          BY <2>2, <2>3, <3>4, <4>2
        <5>. QED  BY <2>0, <3>4, <5>1 DEF NotLater
      <4>. QED  BY <4>1, <4>2
    <3>. QED  BY <1>2, <3>1, <3>2, <3>3, <3>4, WatchGrows
  <2>4. ASSUME NEW p \in Pod PROVE NotLater(store[p], p)'
    <3>1. CASE store'[p] = store[p]
      BY <2>1, <2>2, <3>1 DEF OwnerInv, NotLater
    <3>2. CASE watch[p] # << >> /\ store'[p] = Head(watch[p])
      <4>1. 1 \in DOMAIN watch[p] /\ store'[p] = watch[p][1]
            /\ watch[p][1] \in Version \cup {None}
        BY <2>2, <3>2
      <4>2. NotLater(watch[p][1], p)
        BY <4>1 DEF OwnerInv
      <4>. QED  BY <2>1, <4>1, <4>2 DEF NotLater
    <3>3. CASE store'[p] = CurrentVersion(p) /\ owner' = owner
      BY <3>3, VersionOfJob DEF NotLater
    <3>. QED  BY <1>2, <3>1, <3>2, <3>3, StoreGrows
  <2>5. ASSUME NEW t \in Thread, stage'[t] = "fetched"
        PROVE  NotLater(item[t].pod, item[t].key.pod)'
    <3>1. CASE stage[t] = "fetched" /\ item'[t] = item[t]
      <4>1. item[t].key.pod \in Pod /\ item[t].pod \in Version \cup {None}
        BY <3>1 DEF HcclInv, AgentInv, Typed, Entered, Key
      <4>2. NotLater(item[t].pod, item[t].key.pod)
        BY <3>1 DEF OwnerInv
      <4>. QED  BY <2>1, <3>1, <4>1, <4>2 DEF NotLater
    <3>2. ASSUME NEW k \in Key, item'[t] = [key |-> k, pod |-> store[k.pod]]
          PROVE  NotLater(item[t].pod, item[t].key.pod)'
      <4>1. k.pod \in Pod
        BY DEF Key
      <4>2. NotLater(store[k.pod], k.pod)
        BY <4>1 DEF OwnerInv
      <4>. QED  BY <2>1, <2>2, <3>2, <4>1, <4>2 DEF NotLater
    <3>. QED  BY <1>2, <2>5, <3>1, <3>2, ItemGrows
  <2>. HIDE DEF Incarnation
  <2>6. ASSUME NEW t \in Thread, pc'[t] \in Adding
        PROVE  (businessWorker # 0 /\ Incarnation(ctx[t].pod) >= businessWorker)'
    <3>1. /\ businessWorker' = businessWorker /\ businessWorker # 0 /\ ctx'[t].pod \in Pod
          /\ Incarnation(ctx'[t].pod) >= businessWorker
      BY <1>2, <2>6, AddingGrows
    <3>2. Incarnation(ctx[t].pod)' >= Incarnation(ctx'[t].pod)
      BY <2>0, <3>1 DEF Incarnation
    <3>. QED  BY <2>0, <2>2, <3>1, <3>2 DEF Incarnation
  <2>7. NoOlderPod'
    BY <1>2, <2>0, <2>2, TableGrows DEF NoOlderPod
  <2>. QED  BY <2>0, <2>3, <2>4, <2>5, <2>6, <2>7 DEF OwnerInv
<1>. QED  BY <1>1, <1>2

LEMMA InitOwnerInv == HcclInit => OwnerInv
<1>. SUFFICES ASSUME HcclInit PROVE OwnerInv
  OBVIOUS
<1>1. /\ owner = [p \in Pod |-> 0] /\ created = [p \in Pod |-> 0]
      /\ jobs = 0 /\ businessWorker = 0
      /\ watch = [p \in Pod |-> << >>] /\ store = [p \in Pod |-> None]
      /\ stage = [t \in Thread |-> "free"] /\ pc = [t \in Thread |-> "idle"]
  BY DEF HcclInit, AgentInit, Init, Jobs!JobInit
<1>2. DOMAIN << >> = {}
  OBVIOUS
<1>3. /\ \A p \in Pod : owner[p] <= jobs /\ created[p] <= jobs /\ NotLater(store[p], p)
      /\ \A p \in Pod : \A i \in DOMAIN watch[p] : NotLater(watch[p][i], p)
  BY <1>1, <1>2 DEF NotLater
<1>4. \A t \in Thread : stage[t] # "fetched" /\ pc[t] \notin Adding
  BY <1>1 DEF Adding
<1>. QED  BY <1>1, <1>3, <1>4 DEF OwnerInv, NoOlderPod

\* No pod of a volcano job that was deleted gets into the table of a worker made
\* for a later job, and of the other kinds no pod that was created in a second
\* before that of the worker's job, however late its events are, and whichever of
\* a chain of incarnations, updates and restarts the queues are behind with.
THEOREM OlderPodsStayOut == ASSUME SnapshotsCover PROVE HcclSpec => []NoOlderPod
<1>1. HcclInit => HcclInv /\ OwnerInv
  BY HcclInitInv, InitOwnerInv
<1>2. HcclInv /\ OwnerInv /\ [HcclNext]_hcclVars => HcclInv' /\ OwnerInv'
  BY HcclStep, OwnerStep
<1>3. OwnerInv => NoOlderPod
  BY DEF OwnerInv
<1>. QED  BY <1>1, <1>2, <1>3, PTL DEF HcclSpec

\* The types of the pod side hold in the composition, too.
THEOREM HcclAgentTypes == ASSUME SnapshotsCover PROVE HcclSpec => []AgentTypeOK
<1>1. HcclInv /\ [HcclNext]_hcclVars => HcclInv'
  BY HcclStep
<1>2. HcclInv => AgentTypeOK
  BY DEF HcclInv, AgentInv, Typed
<1>. QED  BY <1>1, <1>2, HcclInitInv, PTL DEF HcclSpec

-----------------------------------------------------------------------------
(* The job side in the composition *)

LEMMA JobSideInit == HcclInit => JobsProved!JobInit
BY DEF HcclInit, Jobs!JobInit, Jobs!NoJob, Jobs!NoModel,
       JobsProved!JobInit, JobsProved!NoJob, JobsProved!NoModel

LEMMA JobSideNext == [HcclNext]_hcclVars => [JobsProved!JobNext]_(JobsProved!jobVars)
<1>1. HcclNext => JobsProved!JobNext \/ UNCHANGED JobsProved!jobVars
  BY JobSideStep, SameNext DEF Jobs!jobVars, JobsProved!jobVars
<1>2. UNCHANGED hcclVars => UNCHANGED JobsProved!jobVars
  BY DEF hcclVars, JobsProved!jobVars
<1>. QED  BY <1>1, <1>2

\* The composition adds guards to the job side and nothing it could not do
\* alone: what is proved of JobController's safety holds here.
THEOREM JobSideKept == HcclSpec => JobsProved!JobSpec
<1>. QED  BY JobSideInit, JobSideNext, PTL DEF HcclSpec, JobsProved!JobSpec

\* With one goroutine, and as long as no watch breaks, a deleted job leaves no
\* worker behind in the map, whatever the pods do meanwhile.
THEOREM HcclNoOrphan ==
    ASSUME MaxRelists = 0, JobsProved!OneGoroutine
    PROVE  HcclSpec => []NoOrphanWorker
<1>1. JobsProved!JobSpec => []JobsProved!NoOrphanWorker
  BY JobsProved!NoWorkerOrphaned, HcclBoundsAssumption, AgentBoundsAssumption,
     KindAssumption, ReplicasAssumption
<1>2. JobsProved!NoOrphanWorker => NoOrphanWorker
  BY DEF JobsProved!NoOrphanWorker, NoOrphanWorker, Jobs!NoOrphanWorker, JobsProved!Quiet,
         Jobs!Quiet, Jobs!NoJob, JobsProved!NoJob
<1>. QED  BY <1>1, <1>2, JobSideKept, PTL

\* With one goroutine no job that is there stays without a worker, unless the last
\* Get of its ConfigMap failed, whatever the pods, the restarts and the lost
\* watches do.
THEOREM HcclJobsServed ==
    ASSUME ConfigMapFirst, JobsProved!OneGoroutine
    PROVE  HcclSpec => []NoJobUnserved
<1>1. JobsProved!JobSpec => []JobsProved!NoJobUnserved
  BY JobsProved!EveryJobServed, HcclBoundsAssumption, AgentBoundsAssumption,
     KindAssumption, ReplicasAssumption
<1>2. JobsProved!NoJobUnserved => NoJobUnserved
  BY DEF JobsProved!NoJobUnserved, NoJobUnserved, Jobs!NoJobUnserved, JobsProved!Quiet,
         Jobs!Quiet, Jobs!NoJob, JobsProved!NoJob
<1>. QED  BY <1>1, <1>2, JobSideKept, PTL

-----------------------------------------------------------------------------

\* In the whole controller, too, the handlers of the pods take effect one at a
\* time, and a table that is completed has the pods it counts, each once, in
\* order: jobs that come and go between two steps of a handler, new ConfigMaps
\* and restarts change nothing of it.
THEOREM ControllerIsAtomic ==
    ASSUME SnapshotsCover
    PROVE  HcclSpec => /\ ImplementsAtomic
                       /\ [](DistinctPods /\ CompletedCount /\ CompletedSorted)
<1>1. HcclSpec => Spec
  BY Composition
<1>. QED  BY <1>1, Refinement, PodsDistinct, CompletedTableCount, CompletedTableSorted, PTL

\* And with one pod goroutine a completed table stays as it is until the status
\* is taken back.
THEOREM ControllerFreezesTable ==
    ASSUME SnapshotsCover, NEW CONSTANT t0, Thread = {t0}
    PROVE  HcclSpec => FrozenWhenCompleted
<1>1. HcclSpec => Spec
  BY Composition
<1>2. Spec => FrozenWhenCompleted
  BY CompletedTableFrozen
<1>. QED  BY <1>1, <1>2, PTL

-----------------------------------------------------------------------------
(* Pods that are gone leave the table *)

\* What the informer will have heard of p in the end: its last notification.
LastTold(p) == IF watch[p] = << >> THEN store[p] ELSE watch[p][Len(watch[p])]

ToldGone == \A p \in Pod : LastTold(p) = None <=> annotation[p] = Gone

LEMMA LastOfWatch ==
    ASSUME NEW S, NEW s \in Seq(S)
    PROVE  /\ \A v \in S : Append(s, v) # << >> /\ Append(s, v)[Len(Append(s, v))] = v
           /\ s # << >> => IF Tail(s) = << >> THEN Head(s) = s[Len(s)]
                           ELSE Tail(s)[Len(Tail(s))] = s[Len(s)]
<1>1. ASSUME NEW v \in S PROVE Append(s, v) # << >> /\ Append(s, v)[Len(Append(s, v))] = v
  OBVIOUS
<1>2. ASSUME s # << >> PROVE IF Tail(s) = << >> THEN Head(s) = s[Len(s)]
                             ELSE Tail(s)[Len(Tail(s))] = s[Len(s)]
  <2>1. Len(s) \in Nat /\ Len(s) > 0 /\ Len(Tail(s)) = Len(s) - 1 /\ Tail(s) \in Seq(S)
    BY <1>2
  <2>2. CASE Tail(s) = << >>
    <3>1. Len(<< >>) = 0
      OBVIOUS
    <3>2. Len(Tail(s)) = 0
      BY <2>2, <3>1, Zenon
    <3>3. \A n \in Nat : n - 1 = 0 => n = 1
      OBVIOUS
    <3>4. Len(s) = 1
      BY <2>1, <3>2, <3>3, Zenon
    <3>. QED  BY <1>2, <2>2, <3>4
  <2>3. CASE Tail(s) # << >>
    <3>1. Len(Tail(s)) > 0
      BY <2>1, <2>3
    <3>2. Len(s) - 1 \in 1 .. Len(s) - 1 /\ (Len(s) - 1) + 1 = Len(s)
      BY <2>1, <3>1
    <3>3. Tail(s)[Len(s) - 1] = s[(Len(s) - 1) + 1]
      BY <1>2, <2>1, <3>2
    <3>. QED  BY <2>1, <2>3, <3>2, <3>3
  <2>. QED  BY <2>2, <2>3
<1>. QED  BY <1>1, <1>2

\* Only a pod that is gone has no version.
LEMMA GoneHasNoVersion ==
    ASSUME NEW r \in Int \cup {None, Gone}, NEW p, NEW a, NEW j \in Nat
    PROVE  /\ VersionOf(r, p \in a, j) = None <=> r = Gone
           /\ VersionOf(r, TRUE, j) = None <=> r = Gone
<1>1. CASE r = Gone
  BY <1>1 DEF VersionOf
<1>2. CASE r # Gone
  <2>1. VersionOf(r, p \in a, j) \in Version /\ VersionOf(r, TRUE, j) \in Version
    BY <1>2 DEF VersionOf, Version
  <2>. QED  BY <1>2, <2>1, NoVersionAssumption
<1>. QED  BY <1>1, <1>2

\* What a step does to what the informer has heard and has still to hear of p.
LEMMA ToldKinds ==
    ASSUME HcclInv, HcclNext, NEW p \in Pod
    PROVE  \/ watch'[p] = watch[p] /\ store'[p] = store[p] /\ annotation'[p] = annotation[p]
           \/ /\ store'[p] = store[p]
              /\ \E v : watch'[p] = Append(watch[p], v) /\ (v = None <=> annotation'[p] = Gone)
           \/ /\ watch[p] # << >> /\ watch'[p] = Tail(watch[p])
              /\ store'[p] = Head(watch[p]) /\ annotation'[p] = annotation[p]
           \/ /\ watch'[p] = << >> /\ store'[p] = CurrentVersion(p)
              /\ annotation'[p] = annotation[p]
<1>0. /\ watch \in [Pod -> Seq(Version \cup {None})] /\ store \in [Pod -> Version \cup {None}]
      /\ annotation \in [Pod -> Int \cup {None, Gone}] /\ owner \in [Pod -> Nat]
      /\ rankIndex \in Int /\ job.id \in Nat
  BY JobNumbers DEF HcclInv, AgentInv, Typed, AgentTypeOK, IInv, TypeOK
<1>1. ASSUME NEW q \in Pod, NewPod(q) \/ LatePod(q) \/ CollectPod(q) \/ DeletePod(q)
      PROVE  /\ store' = store
             /\ IF p = q
                THEN \E v : watch'[p] = Append(watch[p], v) /\ (v = None <=> annotation'[p] = Gone)
                ELSE watch'[p] = watch[p] /\ annotation'[p] = annotation[p]
  <2>1. CASE NewPod(q) \/ LatePod(q)
    <3>0. PICK j \in Nat : \E c, n \in Nat : CreatePod(q, j, c, n, TRUE)
      <4>1. PICK j \in 1 .. jobs, n \in Nat : CreatePod(q, j, jobs, n, TRUE)
        BY <2>1, CreatedBy
      <4>2. jobs \in Nat
        BY HcclBoundsAssumption DEF HcclInv, Jobs!JobTypeOK
      <4>3. j \in Nat
        BY <4>2
      <4>. QED  BY <4>1, <4>2, <4>3, Zenon
    <3>1. /\ store' = store /\ annotation' = [annotation EXCEPT ![q] = None]
          /\ watch' = [watch EXCEPT ![q] = Append(@, VersionOf(None, TRUE, j))]
      BY <3>0 DEF CreatePod, ReplacePod, Notify
    <3>2. VersionOf(None, TRUE, j) # None /\ None # Gone
      BY <1>0, GoneHasNoVersion, GoneAssumption
    <3>3. CASE p = q
      <4>1. /\ watch'[p] = Append(watch[p], VersionOf(None, TRUE, j))
            /\ annotation'[p] = None
        BY <1>0, <3>1, <3>3
      <4>. QED  BY <3>1, <3>2, <3>3, <4>1
    <3>4. CASE p # q
      BY <1>0, <3>1, <3>4
    <3>. QED  BY <3>3, <3>4
  <2>2. CASE CollectPod(q) \/ DeletePod(q)
    <3>1. /\ store' = store /\ annotation' = [annotation EXCEPT ![q] = Gone]
          /\ watch' = [watch EXCEPT ![q] = Append(@, None)]
      BY <2>2 DEF CollectPod, DeletePod, PodGone, ReplacePod, Notify
    <3>2. CASE p = q
      <4>1. watch'[p] = Append(watch[p], None) /\ annotation'[p] = Gone
        BY <1>0, <3>1, <3>2
      <4>. QED  BY <3>1, <3>2, <4>1
    <3>3. CASE p # q
      BY <1>0, <3>1, <3>3
    <3>. QED  BY <3>1, <3>2, <3>3
  <2>. QED  BY <1>1, <2>1, <2>2
<1>2. ASSUME NEW q \in Pod, AllotDevices(q)
      PROVE  /\ store' = store /\ annotation' = annotation
             /\ IF p = q
                THEN \E v : watch'[p] = Append(watch[p], v) /\ (v = None <=> annotation'[p] = Gone)
                ELSE watch'[p] = watch[p]
  <2>1. /\ store' = store /\ annotation' = annotation
        /\ watch' = [watch EXCEPT ![q] = Append(@, VersionOf(annotation[q], TRUE, owner[q]))]
    BY <1>2 DEF AllotDevices, Notify, vars
  <2>2. VersionOf(annotation[q], TRUE, owner[q]) = None <=> annotation[q] = Gone
    BY <1>0, GoneHasNoVersion
  <2>. QED  BY <1>0, <2>1, <2>2
<1>3. ASSUME NEW q \in Pod, WatchEvent(q) \/ Relist(q)
      PROVE  \/ watch'[p] = watch[p] /\ store'[p] = store[p] /\ annotation'[p] = annotation[p]
             \/ /\ watch[p] # << >> /\ watch'[p] = Tail(watch[p])
                /\ store'[p] = Head(watch[p]) /\ annotation'[p] = annotation[p]
             \/ /\ watch'[p] = << >> /\ store'[p] = CurrentVersion(p)
                /\ annotation'[p] = annotation[p]
  BY <1>0, <1>3 DEF WatchEvent, Relist, vars
<1>4. ASSUME NEW t \in Thread, Work(t)
      PROVE  /\ store' = store
             /\ \/ watch'[p] = watch[p] /\ annotation'[p] = annotation[p]
                \/ \E v : watch'[p] = Append(watch[p], v) /\ (v = None <=> annotation'[p] = Gone)
  <2>1. store' = store /\ owner' = owner /\ allotted' = allotted
    BY <1>4 DEF Work, pods
  <2>2. CASE annotation'[p] = annotation[p]
    BY <1>4, <2>1, <2>2 DEF Work
  <2>3. CASE annotation'[p] # annotation[p]
    <3>1. annotation'[p] \in Int
      BY <1>0, <1>4, <2>3
      DEF Work, Step, AddSteps, DeleteSteps, SyncHandler, AddLock, AddRejected, UpdatePod,
          Annotated, CachePod, CacheRejected, Publish, ZeroPublish, DeleteLock,
          DeleteRejected, DeletePublish, api
    <3>2. watch'[p] = Append(watch[p], CurrentVersion(p)')
      BY <1>4, <2>3 DEF Work
    <3>3. CurrentVersion(p)' = VersionOf(annotation'[p], p \in allotted, owner[p])
      BY <2>1 DEF CurrentVersion
    <3>4. annotation'[p] \in Int \cup {None, Gone} /\ owner[p] \in Nat
      BY <1>0, <3>1
    <3>5. CurrentVersion(p)' = None <=> annotation'[p] = Gone
      BY <3>3, <3>4, GoneHasNoVersion, Zenon
    <3>. QED  BY <2>1, <3>2, <3>5
  <2>. QED  BY <2>2, <2>3
<1>5. CASE RestartAll
  BY <1>0, <1>5 DEF RestartAll, Restart, Crash, api
<1>6. ASSUME NEW t \in Thread, ThreadSteps(t), ~Work(t)
      PROVE  UNCHANGED <<watch, store, annotation>>
  BY <1>6 DEF ThreadSteps, Take, Dispatch, Finish, Forget, Requeue, DoWork, HandleDelete,
              vars, informer, api
<1>7. CASE \/ NewJob \/ JobChanges \/ NewConfigMap \/ JobInformer
           \/ \E k \in waiting : Due(k) /\ UNCHANGED jobSide
  BY <1>7 DEF NewJob, JobChanges, NewConfigMap, JobInformer, Due, ReplaceConfigMap, podSide,
              informer, vars
<1>8. ASSUME NEW g \in Goroutine, JobSteps(g)
      PROVE  UNCHANGED <<watch, store, annotation>>
  BY <1>8 DEF JobSteps, ReadConfigMap, InstallWorker, DeleteWorker, podSide, informer, vars,
              api
<1>. QED  BY <1>1, <1>2, <1>3, <1>4, <1>5, <1>6, <1>7, <1>8 DEF HcclNext, PodSteps

LEMMA ToldStep ==
    ASSUME SnapshotsCover, HcclInv, ToldGone, [HcclNext]_hcclVars
    PROVE  ToldGone'
<1>0. /\ \A p \in Pod : watch[p] \in Seq(Version \cup {None}) /\ owner[p] \in Nat
      /\ annotation \in [Pod -> Int \cup {None, Gone}]
      /\ \A p \in Pod : watch'[p] \in Seq(Version \cup {None})
  <2>1. HcclInv'
    BY HcclStep
  <2>. QED  BY <2>1 DEF HcclInv, AgentInv, Typed, AgentTypeOK, IInv, TypeOK
<1>1. SUFFICES ASSUME NEW p \in Pod PROVE LastTold(p)' = None <=> annotation'[p] = Gone
  BY DEF ToldGone
<1>2. LastTold(p) = None <=> annotation[p] = Gone
  BY DEF ToldGone
<1>3. CASE watch'[p] = watch[p] /\ store'[p] = store[p] /\ annotation'[p] = annotation[p]
  BY <1>2, <1>3 DEF LastTold
<1>4. ASSUME NEW v, watch'[p] = Append(watch[p], v), v = None <=> annotation'[p] = Gone
      PROVE  LastTold(p)' = None <=> annotation'[p] = Gone
  <2>1. v \in Version \cup {None}
    <3>1. Len(watch[p]) + 1 \in DOMAIN watch'[p] /\ watch'[p][Len(watch[p]) + 1] = v
      BY <1>0, <1>4
    <3>. QED  BY <1>0, <3>1
  <2>2. watch'[p] # << >> /\ watch'[p][Len(watch'[p])] = v
    BY <1>0, <1>4, <2>1, LastOfWatch
  <2>. QED  BY <1>4, <2>2 DEF LastTold
<1>5. CASE /\ watch[p] # << >> /\ watch'[p] = Tail(watch[p])
           /\ store'[p] = Head(watch[p]) /\ annotation'[p] = annotation[p]
  <2>1. LastTold(p)' = LastTold(p)
    BY <1>0, <1>5, LastOfWatch DEF LastTold
  <2>. QED  BY <1>2, <1>5, <2>1
<1>6. CASE /\ watch'[p] = << >> /\ store'[p] = CurrentVersion(p)
           /\ annotation'[p] = annotation[p]
  <2>1. LastTold(p)' = VersionOf(annotation[p], p \in allotted, owner[p])
    BY <1>6 DEF LastTold, CurrentVersion
  <2>2. annotation[p] \in Int \cup {None, Gone} /\ owner[p] \in Nat
    BY <1>0
  <2>3. LastTold(p)' = None <=> annotation[p] = Gone
    BY <2>1, <2>2, GoneHasNoVersion, Zenon
  <2>. QED  BY <1>6, <2>3
<1>7. CASE UNCHANGED hcclVars
  BY <1>3, <1>7 DEF hcclVars, vars
<1>8. CASE HcclNext
  <2>1. \/ watch'[p] = watch[p] /\ store'[p] = store[p] /\ annotation'[p] = annotation[p]
        \/ \E v : watch'[p] = Append(watch[p], v) /\ (v = None <=> annotation'[p] = Gone)
        \/ /\ watch[p] # << >> /\ watch'[p] = Tail(watch[p])
           /\ store'[p] = Head(watch[p]) /\ annotation'[p] = annotation[p]
        \/ /\ watch'[p] = << >> /\ store'[p] = CurrentVersion(p)
           /\ annotation'[p] = annotation[p]
    BY <1>8, ToldKinds
  <2>. QED  BY <1>3, <1>4, <1>5, <1>6, <2>1
<1>. QED  BY <1>7, <1>8

\* As the code starts it by default: one pod goroutine.
OneThread == \A t, u \in Thread : t = u

\* p is in the worker's table, or a thread is about to put it there.
Coming(p) ==
    \/ businessWorker # 0 /\ Cached(serverList, p)
    \/ \E t \in Thread : /\ stage[t] = "fetched" /\ item[t].pod # None
                         /\ item[t].key.pod = p /\ item[t].key.type # "delete"
    \/ \E t \in Thread : pc[t] \in Adding /\ ctx[t].pod = p

DeleteKey(p) == [pod |-> p, type |-> "delete"]

\* A delete event of p is still to take effect.
DeleteDue(p) ==
    \/ DeleteKey(p) \in waiting \cup ready
    \/ \E t \in Thread : stage[t] = "fetched" /\ item[t].key = DeleteKey(p)
    \/ \E t \in Thread : pc[t] = "deleteLock" /\ ctx[t].pod = p

\* What comes or is in the table is a pod the informer has, or one whose delete
\* event is not handled yet.
GoneInv ==
    spent.relists = 0 =>
        \A p \in Pod : Coming(p) => store[p] # None \/ DeleteDue(p)

LEMMA GoneTypes ==
    ASSUME HcclInv
    PROVE  /\ serverList \in Seq(Entry) /\ NoPodTwice(serverList)
           /\ pc \in [Thread -> PC] /\ ctx \in [Thread -> Context \cup {None}]
           /\ stage \in [Thread -> {"free", "fetched", "running"}]
           /\ item \in [Thread -> [key : Key, pod : Version \cup {None}] \cup {None}]
           /\ store \in [Pod -> Version \cup {None}]
           /\ \A t \in Thread : stage[t] # "free" =>
                 item[t] \in [key : Key, pod : Version \cup {None}]
           /\ \A t \in Thread : pc[t] # "idle" => stage[t] = "running" /\ ctx[t] \in Context
           /\ \A k \in waiting \cup ready : k \in Key
           /\ spent.relists \in Nat
BY AgentBoundsAssumption
DEF HcclInv, AgentInv, Typed, AgentTypeOK, Entered, IInv, TypeOK, ContextInv, DistinctPods

\* Steps that leave the threads alone, and the table, unless it is made anew.
LEMMA GoneFrame ==
    ASSUME NEW p \in Pod, Coming(p)', UNCHANGED <<stage, item, pc, ctx>>,
           \/ serverList' = serverList /\ businessWorker' \in {businessWorker, 0}
           \/ serverList' = << >>
    PROVE  Coming(p)
<1>1. ~Cached(<< >>, p)
  BY DEF Cached, Pods
<1>. QED  BY <1>1 DEF Coming

LEMMA DueFrame ==
    ASSUME NEW p \in Pod, DeleteDue(p), UNCHANGED <<stage, item, pc, ctx>>,
           waiting \cup ready \subseteq waiting' \cup ready'
    PROVE  DeleteDue(p)'
BY DEF DeleteDue, DeleteKey

LEMMA GoneByTake ==
    ASSUME OneThread, HcclInv, NEW t \in Thread, NEW k \in ready, Take(t, k),
           NEW p \in Pod, Coming(p)', store'[p] = None, Coming(p) => DeleteDue(p)
    PROVE  DeleteDue(p)'
<1>1. /\ UNCHANGED <<serverList, businessWorker, pc, ctx, store, waiting>>
      /\ ready' = ready \ {k} /\ stage[t] = "free"
      /\ stage' = [stage EXCEPT ![t] = "fetched"]
      /\ item' = [item EXCEPT ![t] = [key |-> k, pod |-> store[k.pod]]]
  BY DEF Take, vars, worker, informer
<1>2. stage'[t] = "fetched" /\ item'[t].key = k /\ item'[t].pod = store[k.pod]
  BY <1>1, GoneTypes
<1>3. \A u \in Thread : u = t
  BY DEF OneThread
<1>4. Coming(p)
  BY <1>1, <1>2, <1>3 DEF Coming
<1>5. CASE DeleteKey(p) \in waiting \cup ready
  BY <1>1, <1>2, <1>5 DEF DeleteDue, DeleteKey
<1>6. CASE \E u \in Thread : pc[u] = "deleteLock" /\ ctx[u].pod = p
  BY <1>1, <1>6 DEF DeleteDue
<1>. QED  BY <1>1, <1>3, <1>4, <1>5, <1>6 DEF DeleteDue

LEMMA GoneByDispatch ==
    ASSUME OneThread, HcclInv, NEW t \in Thread, Dispatch(t),
           NEW p \in Pod, Coming(p)', Coming(p) => DeleteDue(p)
    PROVE  DeleteDue(p)'
<1>. DEFINE key == item[t].key
            v == item[t].pod
            s == SnapshotOf(key.pod, v, created[key.pod], businessWorker)
<1>1. /\ stage[t] = "fetched" /\ pc[t] = "idle"
      /\ UNCHANGED <<serverList, businessWorker>>
      /\ waiting \cup ready \subseteq waiting' \cup ready'
  BY GoneTypes
  DEF Dispatch, Forget, Requeue, Enter, HandleDelete, DoWork, vars, worker, queue
<1>2. \A u \in Thread : u = t
  BY DEF OneThread
<1>3. /\ businessWorker = 0 => stage'[t] = "free" /\ pc'[t] = "idle"
      /\ businessWorker = 0 /\ v # None => key \in waiting'
      /\ stage'[t] # "fetched"
      /\ businessWorker # 0 /\ key.type = "delete" =>
            pc'[t] = "deleteLock" /\ ctx'[t].pod = key.pod
      /\ key.type # "delete" /\ pc'[t] \in Adding => v # None /\ ctx'[t].pod = key.pod
  BY <1>1, GoneTypes
  DEF Dispatch, Forget, Requeue, Release, Enter, HandleDelete, DoWork, SnapshotOf, Goto, vars,
      Adding
<1>4. Coming(p)
  BY <1>1, <1>2, <1>3 DEF Coming, Adding
<1>5. CASE DeleteKey(p) \in waiting \cup ready
  BY <1>1, <1>5 DEF DeleteDue, DeleteKey
<1>6. CASE item[t].key = DeleteKey(p)
  <2>1. key.type = "delete" /\ key.pod = p
    BY <1>6 DEF DeleteKey
  <2>2. businessWorker # 0
    BY <1>1, <1>2, <1>3, <2>1 DEF Coming, Adding
  <2>. QED  BY <1>3, <2>1, <2>2 DEF DeleteDue
<1>. QED  BY <1>1, <1>2, <1>4, <1>5, <1>6 DEF DeleteDue

\* A handler that deletes takes its pod out of the table for good.
LEMMA GoneByWork ==
    ASSUME OneThread, HcclInv, NEW t \in Thread, Work(t),
           NEW p \in Pod, Coming(p)', Coming(p) => DeleteDue(p)
    PROVE  DeleteDue(p)'
<1>1. UNCHANGED <<stage, item, businessWorker, waiting, ready>> /\ Step(t)
  BY DEF Work, queue, agent
<1>2. /\ \A u \in Thread : u = t
      /\ pc[t] # "idle" /\ stage[t] = "running" /\ ctx[t] \in Context
  <2>1. pc[t] # "idle"
    BY <1>1 DEF Step, AddSteps, DeleteSteps, SyncHandler, AddLock, AddRejected, UpdatePod,
                CachePod, CacheRejected, Publish, ZeroPublish, DeleteLock, DeleteRejected,
                DeletePublish
  <2>. QED  BY <2>1, GoneTypes DEF OneThread
<1>3. Coming(p)
  <2>1. /\ Cached(serverList', p) => Cached(serverList, p) \/ (pc[t] = "cache" /\ p = ctx[t].pod)
        /\ pc'[t] \in Adding => pc[t] \in Adding /\ ctx'[t].pod = ctx[t].pod
    BY <1>1, StepPods DEF HcclInv, AgentInv, Cached
  <2>. QED  BY <1>1, <1>2, <2>1 DEF Coming, Adding
<1>4. CASE DeleteKey(p) \in waiting \cup ready
  BY <1>1, <1>4 DEF DeleteDue, DeleteKey
<1>5. CASE pc[t] = "deleteLock" /\ ctx[t].pod = p
  <2>1. pc'[t] \notin Adding
    BY <1>1, <1>5, GoneTypes
    DEF Step, AddSteps, DeleteSteps, SyncHandler, AddLock, AddRejected, UpdatePod, CachePod,
        CacheRejected, Publish, ZeroPublish, DeleteLock, DeleteRejected, DeletePublish, Goto,
        Return, Adding
  <2>2. DeleteLock(t) \/ DeleteRejected(t)
    BY <1>1, <1>5
    DEF Step, AddSteps, DeleteSteps, SyncHandler, AddLock, AddRejected, UpdatePod, CachePod,
        CacheRejected, Publish, ZeroPublish, DeletePublish
  <2>3. CASE DeleteLock(t)
    <3>1. Cached(serverList, p) /\ serverList' = RemovePodInfo(serverList, p)
      BY <1>5, <2>3 DEF DeleteLock
    <3>2. Pods(serverList') = Pods(serverList) \ {p}
      BY <3>1, GoneTypes, RemovePodInfoPods
    <3>. QED  BY <1>1, <1>2, <2>1, <3>2 DEF Coming, Cached
  <2>4. CASE DeleteRejected(t)
    <3>1. ~Cached(serverList', p)
      BY <1>5, <2>4 DEF DeleteRejected
    <3>. QED  BY <1>1, <1>2, <2>1, <3>1 DEF Coming
  <2>. QED  BY <2>2, <2>3, <2>4
<1>. QED  BY <1>1, <1>2, <1>3, <1>4, <1>5 DEF DeleteDue

\* The informer stores that p is gone and puts the delete event into the queue.
LEMMA GoneByWatch ==
    ASSUME HcclInv, NEW q \in Pod, WatchEvent(q),
           NEW p \in Pod, Coming(p)', store'[p] = None,
           Coming(p) => store[p] # None \/ DeleteDue(p)
    PROVE  DeleteDue(p)'
<1>1. /\ UNCHANGED <<stage, item, pc, ctx, serverList, businessWorker, ready>>
      /\ waiting \subseteq waiting'
      /\ store' = [store EXCEPT ![q] = Head(watch[q])]
  BY DEF WatchEvent, vars, worker, agent
<1>2. Coming(p)
  BY <1>1, GoneFrame
<1>3. CASE store[p] = None
  BY <1>1, <1>2, <1>3, DueFrame
<1>4. CASE store[p] # None
  <2>1. p = q /\ Head(watch[q]) = None
    BY <1>1, <1>4, GoneTypes
  <2>2. DeleteKey(p) \in waiting'
    BY <1>4, <2>1 DEF WatchEvent, EventOf, DeleteKey
  <2>. QED  BY <2>2 DEF DeleteDue, DeleteKey
<1>. QED  BY <1>3, <1>4

LEMMA RelistsGrow ==
    ASSUME HcclInv, HcclNext, spent'.relists = 0
    PROVE  spent.relists = 0 /\ \A q \in Pod : ~Relist(q)
<1>1. spent \in [deletes : 0 .. MaxDeletes, relists : 0 .. MaxRelists,
                 restarts : 0 .. MaxRestarts]
      /\ spent.relists \in Nat
  BY AgentBoundsAssumption DEF HcclInv, AgentInv, Typed, AgentTypeOK
<1>2. \A n \in Nat : n + 1 # 0
  OBVIOUS
<1>3. \A q \in Pod : ~Relist(q)
  BY <1>1, <1>2 DEF Relist
<1>4. spent'.relists = spent.relists
  BY <1>1, <1>3
  DEF HcclNext, NewJob, JobChanges, NewConfigMap, JobInformer, RestartAll, Restart, NewPod,
      LatePod, CreatePod, CollectPod, PodSteps, AllotDevices, DeletePod, WatchEvent, Due,
      ThreadSteps, Take, Dispatch, Work, Finish, JobSteps, ReadConfigMap, InstallWorker,
      DeleteWorker, podSide
<1>. QED  BY <1>3, <1>4

LEMMA GoneStep ==
    ASSUME OneThread, HcclInv, GoneInv, [HcclNext]_hcclVars
    PROVE  GoneInv'
<1>1. CASE UNCHANGED hcclVars
  <2>1. /\ UNCHANGED <<stage, item, pc, ctx, serverList, businessWorker, waiting, ready>>
        /\ UNCHANGED <<store, spent>>
    BY <1>1 DEF hcclVars, vars
  <2>2. \A p \in Pod : (Coming(p)' => Coming(p)) /\ (DeleteDue(p) => DeleteDue(p)')
    BY <2>1, GoneFrame, DueFrame
  <2>. QED  BY <2>1, <2>2 DEF GoneInv
<1>2. CASE HcclNext
  <2>1. SUFFICES ASSUME spent'.relists = 0, NEW p \in Pod, Coming(p)', store'[p] = None
                 PROVE  DeleteDue(p)'
    BY DEF GoneInv
  <2>2. /\ \A q \in Pod : ~Relist(q)
        /\ Coming(p) => store[p] # None \/ DeleteDue(p)
    BY <1>2, <2>1, RelistsGrow DEF GoneInv
  <2>3. ASSUME UNCHANGED <<stage, item, pc, ctx, store>>,
               waiting \cup ready \subseteq waiting' \cup ready',
               \/ serverList' = serverList /\ businessWorker' \in {businessWorker, 0}
               \/ serverList' = << >>
        PROVE  DeleteDue(p)'
    BY <2>1, <2>2, <2>3, GoneFrame, DueFrame
  <2>4. CASE \E t \in Thread : ThreadSteps(t)
    <3>1. PICK t \in Thread : ThreadSteps(t)
      BY <2>4
    <3>2. CASE \E k \in ready : Take(t, k)
      <4>1. store' = store
        BY <3>2 DEF Take, informer
      <4>. QED  BY <2>1, <2>2, <3>2, <4>1, GoneByTake
    <3>3. CASE Dispatch(t)
      <4>1. store' = store
        BY <3>3 DEF Dispatch, informer
      <4>. QED  BY <2>1, <2>2, <3>3, <4>1, GoneByDispatch
    <3>4. CASE Work(t)
      <4>1. store' = store
        BY <3>4 DEF Work
      <4>. QED  BY <2>1, <2>2, <3>4, <4>1, GoneByWork
    <3>5. CASE Finish(t)
      <4>1. /\ UNCHANGED <<pc, ctx, store, waiting, ready, serverList, businessWorker>>
            /\ stage[t] = "running" /\ stage' = [stage EXCEPT ![t] = "free"]
            /\ item' = [item EXCEPT ![t] = None]
        BY <3>5 DEF Finish, Forget, Release, vars, worker, queue, informer
      <4>2. \A u \in Thread : stage'[u] = "fetched" => stage[u] = "fetched" /\ item'[u] = item[u]
        BY <4>1, GoneTypes
      <4>3. \A u \in Thread : stage[u] = "fetched" => stage'[u] = "fetched" /\ item'[u] = item[u]
        BY <4>1, GoneTypes
      <4>4. Coming(p)
        BY <2>1, <4>1, <4>2 DEF Coming
      <4>. QED  BY <2>1, <2>2, <4>1, <4>3, <4>4 DEF DeleteDue, DeleteKey
    <3>. QED  BY <3>1, <3>2, <3>3, <3>4, <3>5 DEF ThreadSteps
  <2>5. CASE \E q \in Pod : WatchEvent(q)
    BY <2>1, <2>2, <2>5, GoneByWatch
  <2>6. CASE \E q \in Pod : NewPod(q) \/ LatePod(q) \/ CollectPod(q) \/ AllotDevices(q) \/ DeletePod(q)
    BY <2>3, <2>6 DEF NewPod, LatePod, CreatePod, CollectPod, AllotDevices, DeletePod, PodGone,
                      ReplacePod, queue, agent, vars, worker
  <2>7. CASE \E k \in waiting : Due(k)
    BY <2>3, <2>7 DEF Due, informer, agent, vars, worker
  <2>8. CASE RestartAll
    <3>1. /\ serverList' = << >> /\ businessWorker' = 0
          /\ pc' = [t \in Thread |-> "idle"] /\ stage' = [t \in Thread |-> "free"]
      BY <2>8 DEF RestartAll, Restart, Crash, FreshWorker
    <3>. QED  BY <2>1, <3>1 DEF Coming, Adding
  <2>9. CASE NewJob \/ JobChanges \/ NewConfigMap \/ JobInformer
    BY <2>3, <2>9 DEF NewJob, JobChanges, NewConfigMap, JobInformer, ReplaceConfigMap, podSide,
                      queue, informer, agent, vars, worker, Jobs!CreateJob, Jobs!UpdateJob,
                      Jobs!DeleteJob, Jobs!JobEvent, Jobs!JobRelist
  <2>10. CASE \E g \in Goroutine : JobSteps(g)
    <3>1. PICK g \in Goroutine : JobSteps(g)
      BY <2>10
    <3>2. CASE InstallWorker(g)
      BY <2>3, <3>2 DEF InstallWorker, Jobs!InstallWorker, FreshWorker, queue, informer,
                        agent, vars, worker, api
    <3>3. CASE ~InstallWorker(g)
      BY <2>3, <3>1, <3>3 DEF JobSteps, ReadConfigMap, DeleteWorker, podSide, queue, informer,
                        agent, vars, worker, Jobs!Get, Jobs!SyncJob, Jobs!EventUpdate,
                        Jobs!EventAdd, Jobs!CheckCMCreation, Jobs!DeleteWorker
    <3>. QED  BY <3>2, <3>3
  <2>. QED  BY <1>2, <2>2, <2>4, <2>5, <2>6, <2>7, <2>8, <2>9, <2>10 DEF HcclNext, PodSteps
<1>. QED  BY <1>1, <1>2

LEMMA GoneInit == HcclInit => ToldGone /\ GoneInv
<1>. SUFFICES ASSUME HcclInit PROVE ToldGone /\ GoneInv
  OBVIOUS
<1>1. /\ watch = [p \in Pod |-> << >>] /\ store = [p \in Pod |-> None]
      /\ annotation = [p \in Pod |-> Gone] /\ businessWorker = 0
      /\ stage = [t \in Thread |-> "free"] /\ pc = [t \in Thread |-> "idle"]
  BY DEF HcclInit, AgentInit, Init
<1>2. ToldGone
  BY <1>1 DEF ToldGone, LastTold
<1>3. \A p \in Pod : ~Coming(p)
  BY <1>1 DEF Coming, Adding
<1>. QED  BY <1>2, <1>3 DEF GoneInv

\* At rest no delete event is due, so the informer has what is in the table.
LEMMA GoneSettled ==
    ASSUME HcclInv, ToldGone, GoneInv, Settled, spent.relists = 0, NEW p \in Pod, Coming(p)
    PROVE  p \in Live
<1>1. ~DeleteDue(p)
  <2>1. waiting \cup ready = {} /\ \A t \in Thread : stage[t] = "free" /\ pc[t] = "idle"
    BY GoneTypes DEF Settled
  <2>. QED  BY <2>1 DEF DeleteDue
<1>2. store[p] # None
  BY <1>1 DEF GoneInv
<1>3. LastTold(p) # None
  BY <1>2 DEF LastTold, Settled
<1>. QED  BY <1>3 DEF ToldGone, Live

\* With one pod goroutine, as long as no watch breaks, a pod that is gone has
\* left the table of the worker when its events are handled, whatever jobs and
\* workers came and went meanwhile, and however often the process died.
THEOREM GoneIsOut ==
    ASSUME SnapshotsCover, OneThread
    PROVE  HcclSpec => []GoneLeavesTable
<1>. DEFINE Inv == HcclInv /\ ToldGone /\ GoneInv
<1>1. HcclInit => Inv
  BY HcclInitInv, GoneInit
<1>2. Inv /\ [HcclNext]_hcclVars => Inv'
  BY HcclStep, ToldStep, GoneStep
<1>3. Inv => GoneLeavesTable
  <2>1. SUFFICES ASSUME Inv, Settled, spent.relists = 0, businessWorker # 0,
                        NEW p \in Pods(serverList)
                 PROVE  p \in Live
    BY DEF GoneLeavesTable
  <2>2. p \in Pod
    <3>1. serverList \in Seq(Entry)
      BY <2>1, GoneTypes
    <3>2. \A i \in DOMAIN serverList : serverList[i] \in Entry
      BY <3>1
    <3>3. \A e \in Entry : e.pod \in Pod
      BY DEF Entry
    <3>. QED  BY <2>1, <3>2, <3>3 DEF Pods
  <2>. QED  BY <2>1, <2>2, GoneSettled DEF Coming, Cached
<1>. QED  BY <1>1, <1>2, <1>3, PTL DEF HcclSpec

-----------------------------------------------------------------------------
(* ... and the ConfigMap *)

\* While a handler runs the job side does not take its worker away.
Held == \A t \in Thread : stage[t] = "running" => businessWorker # 0

LEMMA HeldStep ==
    ASSUME HcclInv, Held, [HcclNext]_hcclVars
    PROVE  Held'
<1>0. stage \in [Thread -> {"free", "fetched", "running"}]
  BY GoneTypes
<1>1. CASE \E t \in Thread : ThreadSteps(t) /\ UNCHANGED jobSide
  <2>1. PICK t \in Thread : ThreadSteps(t)
    BY <1>1
  <2>2. businessWorker' = businessWorker
    BY <2>1 DEF ThreadSteps, Take, Dispatch, Work, Finish
  <2>3. \A u \in Thread : stage'[u] = "running" => stage[u] = "running" \/ businessWorker # 0
    BY <1>0, <2>1 DEF ThreadSteps, Take, Dispatch, Forget, Requeue, Enter, Release, Work,
                      Finish, agent
  <2>. QED  BY <2>2, <2>3 DEF Held
<1>2. CASE RestartAll
  BY <1>2 DEF RestartAll, Restart, Held
<1>3. ASSUME NEW g \in Goroutine, InstallWorker(g) \/ DeleteWorker(g)
      PROVE  Held'
  BY <1>3 DEF InstallWorker, DeleteWorker, WriteLock, podSide, agent, Held
<1>4. CASE UNCHANGED <<stage, businessWorker>>
  BY <1>4 DEF Held
<1>5. ASSUME NEW g \in Goroutine, JobSteps(g), ~InstallWorker(g), ~DeleteWorker(g)
      PROVE  UNCHANGED <<stage, businessWorker>>
  BY <1>5 DEF JobSteps, ReadConfigMap, podSide, agent, Jobs!Get, Jobs!SyncJob,
              Jobs!EventUpdate, Jobs!EventAdd, Jobs!CheckCMCreation
<1>6. ASSUME \/ NewJob \/ JobChanges \/ NewConfigMap \/ JobInformer
             \/ \E p \in Pod : \/ NewPod(p) \/ LatePod(p) \/ CollectPod(p)
                               \/ (PodSteps(p) /\ UNCHANGED jobSide)
             \/ \E k \in waiting : Due(k) /\ UNCHANGED jobSide
      PROVE  UNCHANGED <<stage, businessWorker>>
  BY <1>6 DEF NewJob, JobChanges, NewConfigMap, JobInformer, NewPod, LatePod, CreatePod,
              CollectPod, PodGone, PodSteps, AllotDevices, DeletePod, WatchEvent, Relist, Due,
              podSide, agent, Jobs!CreateJob, Jobs!UpdateJob, Jobs!DeleteJob, Jobs!JobEvent,
              Jobs!JobRelist
<1>7. CASE UNCHANGED hcclVars
  BY <1>4, <1>7 DEF hcclVars
<1>. QED  BY <1>1, <1>2, <1>3, <1>4, <1>5, <1>6, <1>7 DEF HcclNext

\* The first job's ConfigMap lists what its worker has, and the pod that a
\* handler has taken out but not published yet.
PublishedInv ==
    /\ jobs = 0 => cm.list = << >>
    /\ FirstLife =>
          IF businessWorker = 0 THEN cm.list = << >>
          ELSE \A p \in Pods(cm.list) :
                  \/ Cached(serverList, p)
                  \/ \E t \in Thread : pc[t] = "deletePublish" /\ ctx[t].pod = p

\* What the job side's own invariant says of the first job.
LEMMA FirstJobSide ==
    ASSUME JobsProved!FirstInv
    PROVE  /\ jobs = 0 => job = Jobs!NoJob /\ businessWorker = 0
           /\ FirstLife => \A g \in Goroutine : jobPC[g] # "delete"
BY DEF JobsProved!FirstInv, JobsProved!OfFirst, JobsProved!Serving, JobsProved!NoJob,
       Jobs!NoJob, FirstLife

\* A step of a handler whose call does not fail publishes its table as it is.
LEMMA PublishedByWork ==
    ASSUME HcclInv, NEW t \in Thread, Work(t), faults' = faults,
           \A p \in Pods(cm.list) :
              \/ Cached(serverList, p)
              \/ \E u \in Thread : pc[u] = "deletePublish" /\ ctx[u].pod = p
    PROVE  \A p \in Pods(cm'.list) :
              \/ Cached(serverList', p)
              \/ \E u \in Thread : pc'[u] = "deletePublish" /\ ctx'[u].pod = p
<1>0. /\ Step(t) /\ faults \in Nat /\ pc \in [Thread -> PC]
      /\ ctx \in [Thread -> Context \cup {None}]
      /\ cm \in [status : Status, list : Seq(Entry), replicas : Nat]
  BY FaultsAssumption DEF Work, HcclInv, AgentInv, IInv, TypeOK
<1>1. ~Fault
  <2>1. \A n \in Nat : n + 1 # n
    OBVIOUS
  <2>. QED  BY <1>0, <2>1 DEF Fault
<1>2. CASE Publish(t) \/ ZeroPublish(t) \/ DeletePublish(t)
  <2>1. cm'.list = serverList'
    BY <1>1, <1>2 DEF Publish, ZeroPublish, DeletePublish, UpdateConfigMap, Written,
                      NotAcknowledged, RankTableData
  <2>. QED  BY <2>1 DEF Cached
<1>3. CASE DeleteLock(t)
  <2>1. /\ cm' = cm /\ ctx' = ctx /\ pc' = [pc EXCEPT ![t] = "deletePublish"]
        /\ pc[t] = "deleteLock" /\ Cached(serverList, ctx[t].pod) /\ ctx[t] \in Context
        /\ serverList' = RemovePodInfo(serverList, ctx[t].pod)
    BY <1>3, GoneTypes DEF DeleteLock, Goto, api
  <2>2. Pods(serverList') = Pods(serverList) \ {ctx[t].pod}
    BY <2>1, GoneTypes, RemovePodInfoPods DEF Context
  <2>3. pc'[t] = "deletePublish" /\ \A u \in Thread : u # t => pc'[u] = pc[u]
    BY <1>0, <2>1
  <2>. QED  BY <2>1, <2>2, <2>3 DEF Cached
<1>4. CASE CachePod(t)
  <2>1. /\ cm' = cm /\ pc[t] = "cache" /\ ctx[t] \in Context
        /\ \A u \in Thread : u # t => pc'[u] = pc[u] /\ ctx'[u] = ctx[u]
    BY <1>0, <1>4, GoneTypes DEF CachePod, Goto, Return, api
  <2>2. serverList' \in CachePodInfo(serverList, ctx[t].pod, rankIndex) /\ rankIndex \in Int
    BY <1>4 DEF CachePod, HcclInv, AgentInv, IInv, TypeOK
  <2>3. Pods(serverList') = Pods(serverList) \cup {ctx[t].pod}
    BY <2>1, <2>2, GoneTypes, CachePodInfoLemma DEF Context
  <2>. QED  BY <2>1, <2>3 DEF Cached
<1>5. CASE ~(\/ Publish(t) \/ ZeroPublish(t) \/ DeletePublish(t) \/ DeleteLock(t) \/ CachePod(t))
  <2>1. /\ cm' = cm /\ serverList' = serverList /\ pc[t] # "deletePublish"
        /\ \A u \in Thread : u # t => pc'[u] = pc[u] /\ ctx'[u] = ctx[u]
    BY <1>0, <1>5
    DEF Step, AddSteps, DeleteSteps, SyncHandler, AddLock, AddRejected, UpdatePod,
        CacheRejected, DeleteRejected, Goto, Return, worker, api
  <2>. QED  BY <2>1
<1>. QED  BY <1>2, <1>3, <1>4, <1>5

\* The first life of a job was so before, or the job was made just now.
LEMMA FirstLifeBefore ==
    ASSUME SnapshotsCover, HcclInv, HcclNext, FirstLife'
    PROVE  /\ faults' = faults /\ ~RestartAll
           /\ FirstLife \/ (jobs = 0 /\ NewJob)
<1>1. /\ spent \in [deletes : 0 .. MaxDeletes, relists : 0 .. MaxRelists,
                    restarts : 0 .. MaxRestarts]
      /\ faults \in Nat /\ spent.restarts \in Nat /\ jobs \in Nat
  BY AgentBoundsAssumption, HcclBoundsAssumption, FaultsAssumption
  DEF HcclInv, AgentInv, Typed, AgentTypeOK, IInv, TypeOK, Jobs!JobTypeOK
<1>2. \A n \in Nat : n + 1 # 0 /\ (n + 1 = 1 => n = 0)
  OBVIOUS
<1>3. spent.relists = 0
  BY RelistsGrow DEF FirstLife
<1>4. ~RestartAll
  BY <1>1, <1>2 DEF RestartAll, Restart, FirstLife
<1>5. spent'.restarts = spent.restarts
  BY <1>1, <1>4
  DEF HcclNext, NewJob, JobChanges, NewConfigMap, JobInformer, NewPod, LatePod, CreatePod,
      CollectPod, PodSteps, AllotDevices, DeletePod, WatchEvent, Relist, Due, ThreadSteps, Take,
      Dispatch, Work, Finish, JobSteps, ReadConfigMap, InstallWorker, DeleteWorker, podSide
<1>6. faults' \in {faults, faults + 1}
  <2>1. [Next]_vars
    BY HcclStep
  <2>. QED  BY <2>1
       DEF Next, vars, Step, AddSteps, DeleteSteps, SyncHandler, AddLock, AddRejected, UpdatePod,
           CachePod, CacheRejected, Publish, ZeroPublish, DeleteLock, DeleteRejected,
           DeletePublish, DoWork, HandleDelete, Environment, NewWorker, Crash,
           ReplaceConfigMap, ReplacePod, UpdateConfigMap, Written, NotAcknowledged, Fault, api
<1>7. faults' = 0 /\ faults = 0
  BY <1>1, <1>2, <1>6 DEF FirstLife
<1>8. CASE NewJob \/ JobChanges
  <2>1. \/ NewJob /\ jobs' = jobs + 1
        \/ jobs' = jobs /\ job # Jobs!NoJob
        \/ job' = Jobs!NoJob
    BY <1>8 DEF NewJob, JobChanges, Jobs!CreateJob, Jobs!UpdateJob, Jobs!DeleteJob
  <2>. QED  BY <1>1, <1>2, <1>3, <1>4, <1>5, <1>7, <1>8, <2>1 DEF FirstLife, Jobs!NoJob
<1>9. CASE ~NewJob /\ ~JobChanges
  <2>1. UNCHANGED <<job, jobs>>
    BY <1>4, <1>9
    DEF HcclNext, NewConfigMap, JobInformer, NewPod, LatePod, CollectPod, jobSide, JobSteps,
        ReadConfigMap, InstallWorker, DeleteWorker, Jobs!JobEvent, Jobs!JobRelist, Jobs!Get,
        Jobs!SyncJob, Jobs!EventUpdate, Jobs!EventAdd, Jobs!CheckCMCreation,
        Jobs!InstallWorker, Jobs!DeleteWorker, Jobs!jobAPI
  <2>. QED  BY <1>3, <1>4, <1>5, <1>7, <2>1 DEF FirstLife, Jobs!NoJob
<1>. QED  BY <1>8, <1>9

LEMMA PublishedStep ==
    ASSUME SnapshotsCover, WorkerKind # "vcjob", HcclInv, Held, JobsProved!FirstInv,
           PublishedInv, [HcclNext]_hcclVars
    PROVE  PublishedInv'
<1>0. /\ jobs = 0 => job = Jobs!NoJob /\ businessWorker = 0
      /\ FirstLife => \A g \in Goroutine : jobPC[g] # "delete"
      /\ Pods(<< >>) = {}
  BY FirstJobSide DEF Pods
<1>. DEFINE Out(p) == \E t \in Thread : pc[t] = "deletePublish" /\ ctx[t].pod = p
            Listed == \A p \in Pods(cm.list) : Cached(serverList, p) \/ Out(p)
<1>1. CASE UNCHANGED hcclVars
  <2>1. UNCHANGED <<job, jobs, cm, serverList, pc, ctx, businessWorker, spent, faults>>
    BY <1>1 DEF hcclVars, vars
  <2>. QED  BY <2>1 DEF PublishedInv, FirstLife, Cached, Pods, Jobs!NoJob
<1>2. CASE HcclNext
  <2>1. jobs' = 0 => jobs = 0
    <3>1. jobs \in Nat /\ \A n \in Nat : n + 1 # 0
      BY HcclBoundsAssumption DEF HcclInv, Jobs!JobTypeOK
    <3>. QED  BY <1>2, <3>1
         DEF HcclNext, NewJob, JobChanges, NewConfigMap, JobInformer, RestartAll, NewPod,
             LatePod, CollectPod, jobSide, JobSteps, ReadConfigMap, InstallWorker, DeleteWorker,
             Jobs!CreateJob, Jobs!UpdateJob, Jobs!DeleteJob, Jobs!JobEvent, Jobs!JobRelist,
             Jobs!JobRestart, Jobs!Get, Jobs!SyncJob, Jobs!EventUpdate, Jobs!EventAdd,
             Jobs!CheckCMCreation, Jobs!InstallWorker, Jobs!DeleteWorker, Jobs!jobAPI
  <2>2. cm' \in {cm, EmptyConfigMap} \/ \E t \in Thread : Work(t)
    <3>1. ASSUME NEW t \in Thread, ThreadSteps(t), ~Work(t) PROVE cm' = cm
      BY <3>1 DEF ThreadSteps, Take, Dispatch, Forget, Requeue, DoWork, HandleDelete, Finish,
                  vars, api
    <3>2. ASSUME NEW p \in Pod, NewPod(p) \/ LatePod(p) \/ CollectPod(p) \/ PodSteps(p) PROVE cm' = cm
      BY <3>2 DEF NewPod, LatePod, CreatePod, CollectPod, PodGone, ReplacePod, PodSteps,
                  AllotDevices, DeletePod, WatchEvent, Relist, vars
    <3>3. ASSUME NEW g \in Goroutine, JobSteps(g) PROVE cm' = cm
      BY <3>3 DEF JobSteps, ReadConfigMap, InstallWorker, DeleteWorker, podSide, vars, api
    <3>4. ASSUME \/ NewJob \/ JobChanges \/ NewConfigMap \/ JobInformer \/ RestartAll
                 \/ \E k \in waiting : Due(k) /\ UNCHANGED jobSide
          PROVE  cm' \in {cm, EmptyConfigMap}
      BY <3>4 DEF NewJob, JobChanges, NewConfigMap, ReplaceConfigMap, JobInformer, RestartAll,
                  Restart, Crash, Due, podSide, vars, api
    <3>. QED  BY <1>2, <3>1, <3>2, <3>3, <3>4 DEF HcclNext
  <2>3. \A t \in Thread : Work(t) => businessWorker # 0
    <3>1. \A t \in Thread : Step(t) => pc[t] # "idle"
      BY DEF Step, AddSteps, DeleteSteps, SyncHandler, AddLock, AddRejected, UpdatePod,
             CachePod, CacheRejected, Publish, ZeroPublish, DeleteLock, DeleteRejected,
             DeletePublish
    <3>. QED  BY <3>1, GoneTypes DEF Work, Held
  <2>4. jobs' = 0 => cm'.list = << >>
    BY <1>0, <2>1, <2>2, <2>3 DEF PublishedInv, EmptyConfigMap
  <2>5. SUFFICES ASSUME FirstLife'
                 PROVE  IF businessWorker' = 0 THEN cm'.list = << >> ELSE Listed'
    BY <2>4 DEF PublishedInv
  <2>6. /\ faults' = faults /\ ~RestartAll
        /\ FirstLife \/ (jobs = 0 /\ NewJob)
    BY <1>2, <2>5, FirstLifeBefore
  <2>7. IF businessWorker = 0 THEN cm.list = << >> ELSE Listed
    BY <1>0, <2>6 DEF PublishedInv
  <2>8. ASSUME UNCHANGED <<serverList, businessWorker>>, cm'.list \in {cm.list, << >>},
               \A t \in Thread : pc[t] = "deletePublish" =>
                    pc'[t] = "deletePublish" /\ ctx'[t] = ctx[t]
        PROVE  IF businessWorker' = 0 THEN cm'.list = << >> ELSE Listed'
    BY <1>0, <2>7, <2>8 DEF Cached
  <2>9. CASE \E t \in Thread : Work(t)
    <3>1. PICK t \in Thread : Work(t)
      BY <2>9
    <3>2. businessWorker # 0 /\ businessWorker' = businessWorker
      BY <2>3, <3>1 DEF Work
    <3>3. Listed'
      BY <2>6, <2>7, <3>1, <3>2, PublishedByWork
    <3>. QED  BY <3>2, <3>3
  <2>10. CASE \E t \in Thread : ThreadSteps(t) /\ ~Work(t)
    <3>1. PICK t \in Thread : ThreadSteps(t) /\ ~Work(t)
      BY <2>10
    <3>2. UNCHANGED <<serverList, businessWorker, cm>>
      BY <3>1 DEF ThreadSteps, Take, Dispatch, Forget, Requeue, DoWork, HandleDelete, Finish,
                  vars, worker, api
    <3>3. \A u \in Thread : pc[u] # "idle" => pc'[u] = pc[u] /\ ctx'[u] = ctx[u]
      BY <3>1, GoneTypes
      DEF ThreadSteps, Take, Dispatch, Forget, Requeue, DoWork, HandleDelete, Finish, Goto, vars
    <3>. QED  BY <2>8, <3>2, <3>3
  <2>11. CASE \E g \in Goroutine : JobSteps(g)
    <3>1. PICK g \in Goroutine : JobSteps(g)
      BY <2>11
    <3>2. CASE InstallWorker(g)
      <4>1. CASE businessWorker = 0
        <5>1. cm'.list = << >>
          BY <2>7, <3>2, <4>1 DEF InstallWorker, vars, api
        <5>. QED  BY <1>0, <5>1
      <4>2. CASE businessWorker # 0
        <5>1. UNCHANGED vars /\ businessWorker' = businessWorker
          BY <3>2, <4>2 DEF InstallWorker, Jobs!InstallWorker
        <5>. QED  BY <2>8, <5>1 DEF vars
      <4>. QED  BY <4>1, <4>2
    <3>3. CASE DeleteWorker(g)
      <4>1. FirstLife /\ jobPC[g] = "delete"
        BY <2>5, <2>6, <3>3 DEF DeleteWorker, Jobs!DeleteWorker, NewJob, JobChanges,
                                Jobs!CreateJob, Jobs!UpdateJob, Jobs!DeleteJob, FirstLife,
                                Jobs!jobAPI
      <4>. QED  BY <1>0, <4>1
    <3>4. CASE ~InstallWorker(g) /\ ~DeleteWorker(g)
      BY <2>8, <3>1, <3>4
      DEF JobSteps, ReadConfigMap, podSide, vars, Jobs!Get, Jobs!SyncJob, Jobs!EventUpdate,
          Jobs!EventAdd, Jobs!CheckCMCreation
    <3>. QED  BY <3>2, <3>3, <3>4
  <2>12. CASE \/ NewJob \/ JobChanges \/ NewConfigMap \/ JobInformer
              \/ \E p \in Pod : \/ NewPod(p) \/ LatePod(p) \/ CollectPod(p)
                                \/ (PodSteps(p) /\ UNCHANGED jobSide)
              \/ \E k \in waiting : Due(k) /\ UNCHANGED jobSide
    <3>1. UNCHANGED <<serverList, businessWorker, pc, ctx>> /\ cm' \in {cm, EmptyConfigMap}
      BY <2>12
      DEF NewJob, JobChanges, NewConfigMap, JobInformer, NewPod, LatePod, CreatePod, CollectPod,
          PodGone, PodSteps, AllotDevices, DeletePod, WatchEvent, Relist, Due, ReplacePod,
          ReplaceConfigMap, podSide, vars, worker, Jobs!CreateJob, Jobs!UpdateJob,
          Jobs!DeleteJob, Jobs!JobEvent, Jobs!JobRelist
    <3>. QED  BY <2>8, <3>1 DEF EmptyConfigMap
  <2>. QED  BY <1>2, <2>6, <2>9, <2>10, <2>11, <2>12 DEF HcclNext
<1>. QED  BY <1>1, <1>2

LEMMA FirstSideKept ==
    ASSUME ConfigMapFirst, HcclInv, JobsProved!FirstInv, [HcclNext]_hcclVars
    PROVE  JobsProved!FirstInv'
<1>1. JobsProved!JobTypeOK
  BY SameTypes DEF HcclInv
<1>. QED  BY <1>1, JobSideNext, JobsProved!FirstStep, HcclBoundsAssumption,
             AgentBoundsAssumption, KindAssumption, ReplicasAssumption

\* And in its first life, while no call fails, a job's ConfigMap lists no pod
\* that is gone, however the deletion and the build interleave.
THEOREM GoneIsWithdrawn ==
    ASSUME SnapshotsCover, OneThread, ConfigMapFirst, WorkerKind # "vcjob"
    PROVE  HcclSpec => []GoneLeavesConfigMap
<1>. DEFINE Inv == /\ HcclInv /\ ToldGone /\ GoneInv
                   /\ Held /\ JobsProved!FirstInv /\ PublishedInv
<1>1. HcclInit => Inv
  <2>1. SUFFICES ASSUME HcclInit PROVE Inv
    OBVIOUS
  <2>2. JobsProved!FirstInv
    BY <2>1, JobSideInit DEF JobsProved!JobInit, JobsProved!FirstInv
  <2>3. Held
    BY <2>1 DEF HcclInit, AgentInit, Held
  <2>4. PublishedInv
    BY <2>1 DEF HcclInit, AgentInit, Init, EmptyConfigMap, PublishedInv
  <2>. QED  BY <2>1, <2>2, <2>3, <2>4, HcclInitInv, GoneInit
<1>2. Inv /\ [HcclNext]_hcclVars => Inv'
  BY HcclStep, ToldStep, GoneStep, HeldStep, FirstSideKept, PublishedStep
<1>3. Inv => GoneLeavesConfigMap
  <2>1. SUFFICES ASSUME Inv, Settled, FirstLife, NEW p \in Pods(cm.list)
                 PROVE  p \in Live
    BY DEF GoneLeavesConfigMap
  <2>2. businessWorker # 0
    BY <2>1 DEF PublishedInv, Pods
  <2>3. Cached(serverList, p)
    <3>1. \A t \in Thread : pc[t] # "deletePublish"
      BY <2>1, GoneTypes DEF Settled
    <3>. QED  BY <2>1, <2>2, <3>1 DEF PublishedInv
  <2>4. p \in Pod
    <3>1. cm.list \in Seq(Entry)
      BY <2>1 DEF HcclInv, AgentInv, IInv, TypeOK
    <3>2. \A i \in DOMAIN cm.list : cm.list[i] \in Entry
      BY <3>1
    <3>3. \A e \in Entry : e.pod \in Pod
      BY DEF Entry
    <3>. QED  BY <2>1, <3>2, <3>3 DEF Pods
  <2>5. Coming(p)
    BY <2>2, <2>3 DEF Coming
  <2>6. spent.relists = 0
    BY <2>1 DEF FirstLife
  <2>. QED  BY <2>1, <2>4, <2>5, <2>6, GoneSettled
<1>. QED  BY <1>1, <1>2, <1>3, PTL DEF HcclSpec

=============================================================================
