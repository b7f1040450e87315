------------------------- MODULE JobControllerProofs -------------------------
(***************************************************************************)
(* The safety of JobController for every number of jobs, goroutines,       *)
(* replicas, updates, lost watches, restarts and failed Gets.              *)
(***************************************************************************)
EXTENDS JobController, TLAPS

\* A job, once there is one, is told from none.
LEMMA JobIsNotNone == \A j \in Job : j # NoJob /\ j.id \in Nat /\ j.id > 0
BY JobBoundsAssumption DEF Job, NoJob

Past == [updates : 0 .. MaxUpdates, relists : 0 .. MaxRelists, restarts : 0 .. MaxRestarts,
         failedGets : 0 .. MaxFailedGets, lastFailed : BOOLEAN]

\* A bound that is not reached yet leaves room for one more.
LEMMA BoundPasses ==
    ASSUME past \in Past
    PROVE  /\ past.updates < MaxUpdates => [past EXCEPT !.updates = @ + 1] \in Past
           /\ past.relists < MaxRelists => [past EXCEPT !.relists = @ + 1] \in Past
           /\ past.restarts < MaxRestarts => [past EXCEPT !.restarts = @ + 1] \in Past
           /\ GetFails => past' \in Past /\ past'.lastFailed
           /\ [past EXCEPT !.lastFailed = FALSE] \in Past
<1>1. \A m \in Nat : \A k \in 0 .. m : k < m => k + 1 \in 0 .. m
  OBVIOUS
<1>2. /\ past.updates \in 0 .. MaxUpdates /\ past.relists \in 0 .. MaxRelists
      /\ past.restarts \in 0 .. MaxRestarts /\ past.failedGets \in 0 .. MaxFailedGets
  BY DEF Past
<1>. QED  BY <1>1, <1>2, JobBoundsAssumption DEF Past, GetFails

\* Only a Get tells whether the last Get failed.
LEMMA LastFailedStays ==
    ASSUME JobTypeOK,
           CreateJob \/ UpdateJob \/ DeleteJob \/ CreateConfigMap \/ DeleteConfigMap
           \/ JobEvent \/ JobRelist \/ JobRestart \/ UNCHANGED jobVars
    PROVE  past'.lastFailed = past.lastFailed
BY DEF JobTypeOK, jobVars, CreateJob, UpdateJob, DeleteJob, CreateConfigMap, DeleteConfigMap,
       JobEvent, JobRelist, JobRestart

\* The model of an event is about a job.
LEMMA ModelOfAJob ==
    ASSUME NEW old \in Job \cup {NoJob}, NEW new \in Job \cup {NoJob},
           old # NoJob \/ new # NoJob
    PROVE  ModelOf(old, new) \in Model
BY JobIsNotNone DEF ModelOf, TypeOf, Model

LEMMA InitJobTypeOK == JobInit => JobTypeOK
<1>. SUFFICES ASSUME JobInit PROVE JobTypeOK
  OBVIOUS
<1>1. << >> \in Seq(Job \cup {NoJob}) /\ << >> \in Seq(Model) /\ DOMAIN << >> = {}
  OBVIOUS
<1>2. WatchInv
  BY <1>1 DEF JobInit, WatchInv
<1>. QED  BY <1>1, <1>2, JobBoundsAssumption DEF JobInit, JobTypeOK, NoJob, NoModel

-----------------------------------------------------------------------------

\* A change of the job is told at the end: a deletion follows the job deleted.
LEMMA NotifyKeepsWatchInv ==
    ASSUME JobTypeOK, NotifyJob(job'), job' \in Job \cup {NoJob},
           job' = NoJob => job # NoJob, UNCHANGED cacheIndexer
    PROVE  WatchInv' /\ jobWatch' \in Seq(Job \cup {NoJob})
<1>. DEFINE n == Len(jobWatch)
<1>1. jobWatch \in Seq(Job \cup {NoJob}) /\ n \in Nat
  BY DEF JobTypeOK
<1>2. /\ jobWatch' \in Seq(Job \cup {NoJob})
      /\ Len(jobWatch') = n + 1
      /\ jobWatch'[n + 1] = job'
      /\ \A i \in 1 .. n : jobWatch'[i] = jobWatch[i]
      /\ DOMAIN jobWatch' = 1 .. (n + 1) /\ DOMAIN jobWatch = 1 .. n
  BY <1>1 DEF NotifyJob
<1>3. job = IF n = 0 THEN cacheIndexer ELSE jobWatch[n]
  BY <1>1 DEF JobTypeOK, WatchInv
<1>4. ASSUME NEW i \in DOMAIN jobWatch', jobWatch'[i] = NoJob
      PROVE  (IF i = 1 THEN cacheIndexer' ELSE jobWatch'[i - 1]) # NoJob
  <2>1. CASE i = n + 1
    BY <1>1, <1>2, <1>3, <1>4, <2>1
  <2>2. CASE i \in 1 .. n
    <3>1. (IF i = 1 THEN cacheIndexer ELSE jobWatch[i - 1]) # NoJob
      BY <1>2, <1>4, <2>2 DEF JobTypeOK, WatchInv
    <3>. QED  BY <1>1, <1>2, <2>2, <3>1
  <2>. QED  BY <1>1, <1>2, <1>4, <2>1, <2>2
<1>5. jobWatch' # << >>
  BY <1>1, <1>2
<1>. QED  BY <1>2, <1>4, <1>5 DEF WatchInv

LEMMA UserSteps ==
    ASSUME JobTypeOK, CreateJob \/ UpdateJob \/ DeleteJob
    PROVE  JobTypeOK'
<1>1. /\ job' \in Job \cup {NoJob} /\ (job' = NoJob => job # NoJob)
      /\ jobs' \in 0 .. MaxJobs /\ job'.id \in {0, jobs'}
      /\ past' \in Past
  <2>1. CASE CreateJob
    <3>1. PICK n \in Replicas : job' = [id |-> jobs + 1, replicas |-> n]
      BY <2>1 DEF CreateJob
    <3>2. jobs + 1 \in 1 .. MaxJobs /\ jobs' = jobs + 1 /\ past' = past
      BY <2>1, JobBoundsAssumption DEF CreateJob, JobTypeOK
    <3>3. job' \in Job /\ job'.id = jobs'
      BY <3>1, <3>2 DEF Job
    <3>. QED  BY <3>2, <3>3, JobIsNotNone, JobBoundsAssumption DEF JobTypeOK, Past
  <2>2. CASE UpdateJob
    <3>1. PICK n \in Replicas : job' = [job EXCEPT !.replicas = n]
      BY <2>2 DEF UpdateJob
    <3>2. job \in Job /\ jobs' = jobs
      BY <2>2 DEF UpdateJob, JobTypeOK
    <3>3. job' \in Job /\ job'.id = job.id
      BY <3>1, <3>2 DEF Job
    <3>4. past' \in Past
      BY <2>2, BoundPasses DEF UpdateJob, JobTypeOK, Past
    <3>. QED  BY <3>2, <3>3, <3>4, JobIsNotNone DEF JobTypeOK
  <2>3. CASE DeleteJob
    BY <2>3 DEF DeleteJob, JobTypeOK, NoJob, Past
  <2>. QED  BY <2>1, <2>2, <2>3
<1>3. WatchInv' /\ jobWatch' \in Seq(Job \cup {NoJob})
  BY <1>1, NotifyKeepsWatchInv DEF CreateJob, UpdateJob, DeleteJob
<1>4. UNCHANGED <<configMap, cacheIndexer, workqueue, jobPC, model, businessWorker>>
  BY DEF CreateJob, UpdateJob, DeleteJob
<1>. QED  BY <1>1, <1>3, <1>4 DEF JobTypeOK, Past

LEMMA ConfigMapSteps ==
    ASSUME JobTypeOK, CreateConfigMap \/ DeleteConfigMap
    PROVE  JobTypeOK'
BY DEF JobTypeOK, WatchInv, CreateConfigMap, DeleteConfigMap, jobInformer

LEMMA EventStep ==
    ASSUME JobTypeOK, JobEvent
    PROVE  JobTypeOK'
<1>. DEFINE n == Len(jobWatch)
           Before(i) == IF i = 1 THEN cacheIndexer ELSE jobWatch[i - 1]
<1>0. \A i \in DOMAIN jobWatch : jobWatch[i] = NoJob => Before(i) # NoJob
  BY DEF JobTypeOK, WatchInv
<1>1. /\ jobWatch \in Seq(Job \cup {NoJob}) /\ n \in Nat /\ n > 0
      /\ DOMAIN jobWatch = 1 .. n /\ jobWatch # << >>
      /\ Head(jobWatch) = jobWatch[1] /\ jobWatch[1] \in Job \cup {NoJob}
      /\ cacheIndexer \in Job \cup {NoJob} /\ workqueue \in Seq(Model)
  BY DEF JobTypeOK, JobEvent
<1>2. /\ jobWatch' \in Seq(Job \cup {NoJob})
      /\ Len(jobWatch') = n - 1
      /\ \A i \in 1 .. (n - 1) : jobWatch'[i] = jobWatch[i + 1]
      /\ DOMAIN jobWatch' = 1 .. (n - 1)
      /\ cacheIndexer' = jobWatch[1]
  BY <1>1 DEF JobEvent
<1>3. cacheIndexer # NoJob \/ jobWatch[1] # NoJob
  <2>1. 1 \in DOMAIN jobWatch
    BY <1>1
  <2>2. jobWatch[1] = NoJob => Before(1) # NoJob
    BY <1>0, <2>1
  <2>. QED  BY <2>2
<1>4. workqueue' \in Seq(Model)
  <2>1. ModelOf(cacheIndexer, Head(jobWatch)) \in Model
    BY <1>1, <1>3, ModelOfAJob
  <2>. QED  BY <1>1, <2>1 DEF JobEvent
<1>5. WatchInv'
  <2>1. ASSUME NEW i \in DOMAIN jobWatch', jobWatch'[i] = NoJob
        PROVE  (IF i = 1 THEN cacheIndexer' ELSE jobWatch'[i - 1]) # NoJob
    <3>1. jobWatch[i + 1] = NoJob /\ i + 1 \in DOMAIN jobWatch
      BY <1>1, <1>2, <2>1
    <3>2. jobWatch[i] # NoJob
      <4>1. i \in Nat /\ i >= 1 /\ i + 1 # 1 /\ (i + 1) - 1 = i
        BY <1>1, <1>2, <2>1
      <4>2. Before(i + 1) = jobWatch[i]
        BY <4>1
      <4>. QED  BY <1>0, <3>1, <4>2
    <3>. QED  BY <1>1, <1>2, <3>2
  <2>2. job' = IF jobWatch' = << >> THEN cacheIndexer' ELSE jobWatch'[Len(jobWatch')]
    <3>1. job' = job /\ job = jobWatch[n]
      BY <1>1 DEF JobTypeOK, WatchInv, JobEvent, jobAPI
    <3>2. CASE n = 1
      BY <1>1, <1>2, <3>1, <3>2
    <3>3. CASE n > 1
      BY <1>1, <1>2, <3>1, <3>3
    <3>4. n = 1 \/ n > 1
      BY <1>1
    <3>. QED  BY <3>2, <3>3, <3>4
  <2>. QED  BY <2>1, <2>2 DEF WatchInv
<1>6. UNCHANGED <<job, jobs, configMap, past, jobPC, model, businessWorker>>
  BY DEF JobEvent, jobAPI
<1>. QED  BY <1>1, <1>2, <1>4, <1>5, <1>6 DEF JobTypeOK

\* A new list, of a lost watch or a new process.
LEMMA ListSteps ==
    ASSUME JobTypeOK, JobRelist \/ JobRestart
    PROVE  JobTypeOK'
<1>1. job \in Job \cup {NoJob} /\ workqueue \in Seq(Model) /\ cacheIndexer \in Job \cup {NoJob}
  BY DEF JobTypeOK
<1>2. workqueue' \in Seq(Model)
  <2>1. CASE job = NoJob
    <3>1. workqueue' = workqueue \/ workqueue' = << >>
      BY <2>1 DEF JobRelist, JobRestart
    <3>2. << >> \in Seq(Model)
      OBVIOUS
    <3>. QED  BY <1>1, <3>1, <3>2
  <2>2. CASE job # NoJob
    <3>1. ModelOf(cacheIndexer, job) \in Model /\ ModelOf(NoJob, job) \in Model
      BY <1>1, <2>2, ModelOfAJob
    <3>2. \/ workqueue' = Append(workqueue, ModelOf(cacheIndexer, job))
          \/ workqueue' = << ModelOf(NoJob, job) >>
      BY <2>2 DEF JobRelist, JobRestart
    <3>3. \A m \in Model : Append(workqueue, m) \in Seq(Model) /\ << m >> \in Seq(Model)
      BY <1>1
    <3>. QED  BY <3>1, <3>2, <3>3
  <2>. QED  BY <2>1, <2>2
<1>3. /\ jobWatch' = << >> /\ cacheIndexer' = job /\ UNCHANGED <<job, jobs, configMap>>
      /\ << >> \in Seq(Job \cup {NoJob}) /\ DOMAIN << >> = {}
  BY DEF JobRelist, JobRestart, jobAPI
<1>4. past' \in Past
  BY BoundPasses DEF JobTypeOK, JobRelist, JobRestart, Past
<1>5. /\ jobPC' \in [Goroutine ->
                        {"idle", "sync", "add", "update", "poll", "install", "delete"}]
      /\ model' \in [Goroutine -> Model \cup {NoModel}]
      /\ \A g \in Goroutine : jobPC'[g] = "idle" <=> model'[g] = NoModel
      /\ businessWorker' \in 0 .. MaxJobs
  BY JobBoundsAssumption DEF JobTypeOK, JobRelist, JobRestart
<1>6. WatchInv'
  BY <1>3 DEF WatchInv
<1>. QED  BY <1>1, <1>2, <1>3, <1>4, <1>5, <1>6 DEF JobTypeOK, Past

LEMMA GoroutineSteps ==
    ASSUME JobTypeOK, NEW g \in Goroutine, Get(g) \/ JobStep(g)
    PROVE  JobTypeOK'
<1>. DEFINE Labels == {"idle", "sync", "add", "update", "poll", "install", "delete"}
<1>1. UNCHANGED <<job, jobs, configMap, jobWatch, cacheIndexer>>
  BY DEF Get, JobStep, SyncJob, EventUpdate, EventAdd, CheckCMCreation, InstallWorker,
         DeleteWorker, jobAPI, jobInformer
<1>0. past' \in Past
  <2>1. past \in Past
    BY DEF JobTypeOK, Past
  <2>. QED  BY <2>1, BoundPasses
            DEF Get, JobStep, SyncJob, EventUpdate, EventAdd, CheckCMCreation, InstallWorker,
                DeleteWorker
<1>2. WatchInv'
  BY <1>1 DEF JobTypeOK, WatchInv
<1>3. NoModel \notin Model
  BY JobIsNotNone DEF Model, NoModel
<1>4. CASE Get(g)
  <2>1. workqueue \in Seq(Model) /\ Head(workqueue) \in Model /\ Tail(workqueue) \in Seq(Model)
    BY <1>4 DEF JobTypeOK, Get
  <2>. QED  BY <1>0, <1>1, <1>2, <1>3, <1>4, <2>1 DEF JobTypeOK, Get, JobGoto, Past
<1>5. CASE JobStep(g)
  <2>1. jobPC[g] # "idle" /\ model[g] \in Model /\ model[g].job.id \in 0 .. MaxJobs
    BY <1>3, <1>5, JobBoundsAssumption
    DEF JobTypeOK, JobStep, SyncJob, EventUpdate, EventAdd, CheckCMCreation,
        InstallWorker, DeleteWorker, Model, Job
  <2>2. workqueue' = workqueue
    BY <1>5 DEF JobStep, SyncJob, EventUpdate, EventAdd, CheckCMCreation, InstallWorker,
                DeleteWorker
  <2>3. businessWorker' \in 0 .. MaxJobs
    BY <1>5, <2>1, JobBoundsAssumption
    DEF JobTypeOK, JobStep, SyncJob, EventUpdate, EventAdd, CheckCMCreation,
        InstallWorker, DeleteWorker
  <2>4. JobDone(g) \/ \E l \in Labels \ {"idle"} : JobGoto(g, l) /\ UNCHANGED model
    <3>1. CASE SyncJob(g)
      <4>1. SyncTarget(cacheIndexer # NoJob, model[g].type) \in Labels
        BY <2>1 DEF SyncTarget, Model
      <4>. QED  BY <3>1, <4>1 DEF SyncJob
    <3>2. CASE EventUpdate(g) \/ EventAdd(g) \/ CheckCMCreation(g)
      BY <3>2 DEF EventUpdate, EventAdd, CheckCMCreation
    <3>3. CASE InstallWorker(g) \/ DeleteWorker(g)
      BY <3>3 DEF InstallWorker, DeleteWorker
    <3>. QED  BY <1>5, <3>1, <3>2, <3>3 DEF JobStep
  <2>5. /\ jobPC' \in [Goroutine -> Labels]
        /\ model' \in [Goroutine -> Model \cup {NoModel}]
        /\ \A h \in Goroutine : jobPC'[h] = "idle" <=> model'[h] = NoModel
    <3>1. CASE JobDone(g)
      BY <3>1 DEF JobTypeOK, JobDone, JobGoto
    <3>2. CASE \E l \in Labels \ {"idle"} : JobGoto(g, l) /\ UNCHANGED model
      BY <1>3, <2>1, <3>2 DEF JobTypeOK, JobGoto
    <3>. QED  BY <2>4, <3>1, <3>2
  <2>. QED  BY <1>0, <1>1, <1>2, <2>2, <2>3, <2>5 DEF JobTypeOK, Past
<1>. QED  BY <1>4, <1>5

LEMMA NextJobTypeOK == JobTypeOK /\ [JobNext]_jobVars => JobTypeOK'
<1>. SUFFICES ASSUME JobTypeOK, [JobNext]_jobVars PROVE JobTypeOK'
  OBVIOUS
<1>1. CASE UNCHANGED jobVars
  BY <1>1 DEF JobTypeOK, WatchInv, jobVars
<1>2. CASE JobNext
  BY <1>2, UserSteps, ConfigMapSteps, EventStep, ListSteps, GoroutineSteps DEF JobNext
<1>. QED  BY <1>1, <1>2

-----------------------------------------------------------------------------

\* Types: a delete event that is queued has the job it is about (WatchInv, without
\* which the types are not inductive), a goroutine has a model exactly while it
\* works, and the worker is that of a job there was.
THEOREM JobTypeCorrect == JobSpec => []JobTypeOK
<1>. QED  BY InitJobTypeOK, NextJobTypeOK, PTL DEF JobSpec

\* A worker in use is never replaced, except by a volcano job: the second look
\* for a worker, under the write lock, is what keeps it.
THEOREM WorkerKept == ASSUME WorkerKind # "vcjob" PROVE JobSpec => WorkerNotReplaced
<1>1. [JobNext]_jobVars =>
        [businessWorker # 0 /\ businessWorker' # 0 => businessWorker' = businessWorker]_jobVars
  BY DEF JobNext, CreateJob, UpdateJob, DeleteJob, CreateConfigMap, DeleteConfigMap, JobEvent,
         JobRelist, JobRestart, Get, JobStep, SyncJob, EventUpdate, EventAdd,
         CheckCMCreation, InstallWorker, DeleteWorker, jobVars
<1>. QED  BY <1>1, PTL DEF JobSpec, WorkerNotReplaced

-----------------------------------------------------------------------------
(* No worker without a job *)

\* What is last in a queue stays last, until it is taken.
LEMMA LastStays ==
    ASSUME workqueue \in Seq(Model), workqueue # << >>
    PROVE  IF Tail(workqueue) = << >> THEN Head(workqueue) = workqueue[Len(workqueue)]
           ELSE Tail(workqueue)[Len(Tail(workqueue))] = workqueue[Len(workqueue)]
<1>0. Len(workqueue) \in Nat /\ \A q \in Seq(Model) : Len(q) = 0 => q = << >>
  OBVIOUS
<1>1. Head(workqueue) = workqueue[1]
  OBVIOUS
<1>2. Len(workqueue) # 0
  BY <1>0, Zenon
<1>3. Tail(workqueue) \in Seq(Model) /\ Len(Tail(workqueue)) = Len(workqueue) - 1
  OBVIOUS
<1>4. CASE Len(workqueue) = 1
  <2>1. Len(Tail(workqueue)) = 0
    BY <1>3, <1>4
  <2>2. Tail(workqueue) = << >>
    BY <1>0, <1>3, <2>1, Zenon
  <2>. QED  BY <1>1, <1>4, <2>2
<1>5. CASE Len(workqueue) # 1
  <2>1. \A n \in Nat : n # 0 /\ n # 1 => n > 1 /\ n - 1 # 0
    OBVIOUS
  <2>2. Len(workqueue) > 1 /\ Len(workqueue) - 1 # 0
    BY <1>0, <1>2, <1>5, <2>1, Zenon
  <2>3. Tail(workqueue)[Len(workqueue) - 1] = workqueue[Len(workqueue)]
    BY <1>0, <2>2
  <2>4. Len(<< >>) = 0
    OBVIOUS
  <2>5. Tail(workqueue) # << >>
    BY <1>3, <2>2, <2>4, Zenon
  <2>. QED  BY <1>3, <2>3, <2>5
<1>. QED  BY <1>4, <1>5

\* As the code starts it by default: one goroutine.
OneGoroutine == \A g, h \in Goroutine : g = h

\* A job that the informer holds no more leaves a delete event, which is the
\* last in the queue, or the one at work, until the worker is gone.
OrphanInv ==
    cacheIndexer = NoJob =>
        \/ workqueue # << >> /\ workqueue[Len(workqueue)].type = "delete"
        \/ /\ workqueue = << >>
           /\ \E g \in Goroutine : jobPC[g] \in {"sync", "delete"} /\ model[g].type = "delete"
        \/ /\ workqueue = << >> /\ businessWorker = 0
           /\ \A g \in Goroutine : jobPC[g] = "idle"

LEMMA OrphanByGoroutine ==
    ASSUME OneGoroutine, JobTypeOK, OrphanInv, NEW g \in Goroutine, Get(g) \/ JobStep(g)
    PROVE  OrphanInv'
<1>1. cacheIndexer' = cacheIndexer
  BY DEF Get, JobStep, SyncJob, EventUpdate, EventAdd, CheckCMCreation, InstallWorker,
         DeleteWorker, jobInformer
<1>2. SUFFICES ASSUME cacheIndexer = NoJob PROVE OrphanInv'
  BY <1>1 DEF OrphanInv
<1>3. /\ \A h \in Goroutine : h = g
      /\ workqueue \in Seq(Model)
      /\ jobPC \in [Goroutine -> {"idle", "sync", "add", "update", "poll", "install", "delete"}]
      /\ model \in [Goroutine -> Model \cup {NoModel}]
  BY DEF OneGoroutine, JobTypeOK
<1>4. CASE Get(g)
  <2>1. /\ workqueue # << >> /\ workqueue' = Tail(workqueue)
        /\ model' = [model EXCEPT ![g] = Head(workqueue)] /\ jobPC' = [jobPC EXCEPT ![g] = "sync"]
    BY <1>4 DEF Get, JobGoto
  <2>2. workqueue[Len(workqueue)].type = "delete"
    BY <1>2, <2>1 DEF OrphanInv
  <2>3. CASE workqueue' = << >>
    <3>1. Head(workqueue).type = "delete"
      BY <1>3, <2>1, <2>2, <2>3, LastStays
    <3>2. jobPC'[g] = "sync" /\ model'[g].type = "delete"
      BY <1>3, <2>1, <3>1
    <3>. QED  BY <2>3, <3>2 DEF OrphanInv
  <2>4. CASE workqueue' # << >>
    <3>1. workqueue'[Len(workqueue')] = workqueue[Len(workqueue)]
      BY <1>3, <2>1, <2>4, LastStays
    <3>. QED  BY <2>2, <2>4, <3>1 DEF OrphanInv
  <2>. QED  BY <2>3, <2>4
<1>5. CASE JobStep(g)
  <2>1. workqueue' = workqueue /\ jobPC[g] # "idle"
    BY <1>5 DEF JobStep, SyncJob, EventUpdate, EventAdd, CheckCMCreation, InstallWorker,
                DeleteWorker
  <2>2. CASE workqueue # << >>
    BY <1>2, <2>1, <2>2 DEF OrphanInv
  <2>3. CASE workqueue = << >>
    <3>1. jobPC[g] \in {"sync", "delete"} /\ model[g].type = "delete"
      BY <1>2, <1>3, <2>1, <2>3 DEF OrphanInv
    <3>2. CASE jobPC[g] = "sync"
      <4>1. SyncJob(g)
        BY <1>5, <3>2 DEF JobStep, EventUpdate, EventAdd, CheckCMCreation, InstallWorker,
                          DeleteWorker
      <4>2. SyncTarget(cacheIndexer # NoJob, model[g].type) = "delete"
        BY <1>2, <3>1 DEF SyncTarget
      <4>3. jobPC'[g] = "delete" /\ model' = model
        BY <1>3, <4>1, <4>2 DEF SyncJob, JobGoto
      <4>. QED  BY <2>1, <2>3, <3>1, <4>3 DEF OrphanInv
    <3>3. CASE jobPC[g] = "delete"
      <4>1. DeleteWorker(g)
        BY <1>5, <3>3 DEF JobStep, SyncJob, EventUpdate, EventAdd, CheckCMCreation,
                          InstallWorker
      <4>2. businessWorker' = 0 /\ \A h \in Goroutine : jobPC'[h] = "idle"
        BY <1>3, <4>1 DEF DeleteWorker, JobDone, JobGoto
      <4>. QED  BY <2>1, <2>3, <4>2 DEF OrphanInv
    <3>. QED  BY <3>1, <3>2, <3>3
  <2>. QED  BY <2>2, <2>3
<1>. QED  BY <1>4, <1>5

LEMMA OrphanStep ==
    ASSUME MaxRelists = 0, OneGoroutine, JobTypeOK, OrphanInv, [JobNext]_jobVars
    PROVE  OrphanInv'
<1>1. CASE JobEvent
  <2>1. SUFFICES ASSUME cacheIndexer' = NoJob
                 PROVE  workqueue' # << >> /\ workqueue'[Len(workqueue')].type = "delete"
    BY DEF OrphanInv
  <2>2. ModelOf(cacheIndexer, Head(jobWatch)).type = "delete"
    BY <1>1, <2>1 DEF JobEvent, ModelOf, TypeOf
  <2>3. workqueue' = Append(workqueue, ModelOf(cacheIndexer, Head(jobWatch)))
    BY <1>1 DEF JobEvent
  <2>4. workqueue \in Seq(Model)
    BY DEF JobTypeOK
  <2>. HIDE DEF ModelOf
  <2>. QED  BY <2>2, <2>3, <2>4
<1>2. CASE JobRestart
  BY <1>2 DEF JobRestart, OrphanInv
<1>3. ~JobRelist
  <2>1. past.relists \in Nat
    BY JobBoundsAssumption DEF JobTypeOK
  <2>. QED  BY <2>1 DEF JobRelist
<1>4. CASE \/ UNCHANGED jobVars
           \/ CreateJob \/ UpdateJob \/ DeleteJob \/ CreateConfigMap \/ DeleteConfigMap
  BY <1>4 DEF jobVars, CreateJob, UpdateJob, DeleteJob, CreateConfigMap, DeleteConfigMap,
              jobInformer, OrphanInv
<1>. QED  BY <1>1, <1>2, <1>3, <1>4, OrphanByGoroutine DEF JobNext

LEMMA InitOrphanInv == JobInit => OrphanInv
BY DEF JobInit, OrphanInv

LEMMA OrphanInvSuffices == JobTypeOK /\ OrphanInv => NoOrphanWorker
BY DEF JobTypeOK, WatchInv, OrphanInv, NoOrphanWorker, Quiet

\* With one goroutine, and as long as no watch breaks, whose new list would not
\* tell of a job that is gone, a deleted job leaves no worker behind, however
\* many jobs come and go and processes die.
THEOREM NoWorkerOrphaned ==
    ASSUME MaxRelists = 0, OneGoroutine
    PROVE  JobSpec => []NoOrphanWorker
<1>1. JobTypeOK /\ OrphanInv /\ [JobNext]_jobVars => (JobTypeOK /\ OrphanInv)'
  BY NextJobTypeOK, OrphanStep
<1>. QED  BY <1>1, InitJobTypeOK, InitOrphanInv, OrphanInvSuffices, PTL DEF JobSpec

-----------------------------------------------------------------------------
(* No job without a worker *)

Serving == {"sync", "add", "update", "poll", "install"}

\* A job that the informer holds has a worker, or an event that will make one
\* is the last in the queue, or at work; or the last Get failed; or the job is
\* gone already, which is on its way.  That the worker is another job's does not
\* matter here.
ServedInv ==
    /\ job # NoJob => configMap
    /\ cacheIndexer # NoJob =>
        \/ \E i \in DOMAIN jobWatch : jobWatch[i] = NoJob
        \/ workqueue # << >> /\ workqueue[Len(workqueue)].type # "delete"
        \/ /\ workqueue = << >>
           /\ \E g \in Goroutine : jobPC[g] \in Serving /\ model[g].type # "delete"
        \/ /\ workqueue = << >> /\ (businessWorker # 0 \/ past.lastFailed)
           /\ \A g \in Goroutine : jobPC[g] = "idle"

LEMMA ServedByGoroutine ==
    ASSUME OneGoroutine, JobTypeOK, ServedInv, NEW g \in Goroutine, Get(g) \/ JobStep(g)
    PROVE  ServedInv'
<1>1. UNCHANGED <<job, configMap, jobWatch, cacheIndexer>>
  BY DEF Get, JobStep, SyncJob, EventUpdate, EventAdd, CheckCMCreation, InstallWorker,
         DeleteWorker, jobAPI, jobInformer
<1>2. SUFFICES ASSUME cacheIndexer # NoJob, \A i \in DOMAIN jobWatch : jobWatch[i] # NoJob
               PROVE  ServedInv'
  BY <1>1 DEF ServedInv
<1>3. /\ \A h \in Goroutine : h = g
      /\ workqueue \in Seq(Model)
      /\ jobPC \in [Goroutine -> {"idle", "sync", "add", "update", "poll", "install", "delete"}]
      /\ model \in [Goroutine -> Model \cup {NoModel}]
      /\ jobPC[g] # "idle" => model[g] \in Model
  BY DEF OneGoroutine, JobTypeOK
<1>4. configMap
  <2>1. job # NoJob
    <3>1. CASE jobWatch = << >>
      BY <1>2, <3>1 DEF JobTypeOK, WatchInv
    <3>2. CASE jobWatch # << >>
      <4>1. Len(jobWatch) \in DOMAIN jobWatch
        BY <3>2 DEF JobTypeOK
      <4>. QED  BY <1>2, <3>2, <4>1 DEF JobTypeOK, WatchInv
    <3>. QED  BY <3>1, <3>2
  <2>. QED  BY <2>1 DEF ServedInv
<1>5. CASE Get(g)
  <2>1. /\ workqueue # << >> /\ workqueue' = Tail(workqueue)
        /\ model' = [model EXCEPT ![g] = Head(workqueue)] /\ jobPC' = [jobPC EXCEPT ![g] = "sync"]
    BY <1>5 DEF Get, JobGoto
  <2>2. workqueue[Len(workqueue)].type # "delete"
    BY <1>2, <2>1 DEF ServedInv
  <2>3. CASE workqueue' = << >>
    <3>1. Head(workqueue).type # "delete"
      BY <1>3, <2>1, <2>2, <2>3, LastStays
    <3>2. jobPC'[g] \in Serving /\ model'[g].type # "delete"
      BY <1>3, <2>1, <3>1 DEF Serving
    <3>. QED  BY <1>1, <1>4, <2>3, <3>2 DEF ServedInv
  <2>4. CASE workqueue' # << >>
    <3>1. workqueue'[Len(workqueue')] = workqueue[Len(workqueue)]
      BY <1>3, <2>1, <2>4, LastStays
    <3>. QED  BY <1>1, <1>4, <2>2, <2>4, <3>1 DEF ServedInv
  <2>. QED  BY <2>3, <2>4
<1>6. CASE JobStep(g)
  <2>1. workqueue' = workqueue /\ jobPC[g] # "idle"
    BY <1>6 DEF JobStep, SyncJob, EventUpdate, EventAdd, CheckCMCreation, InstallWorker,
                DeleteWorker
  <2>2. CASE workqueue # << >>
    BY <1>1, <1>2, <1>4, <2>1, <2>2 DEF ServedInv
  <2>3. CASE workqueue = << >>
    <3>1. /\ jobPC[g] \in Serving /\ model[g].type \in {"add", "update"}
          /\ model[g].job.id # 0
      <4>1. jobPC[g] \in Serving /\ model[g].type # "delete"
        BY <1>2, <1>3, <2>1, <2>3 DEF ServedInv
      <4>2. model[g].type \in {"add", "update", "delete"} /\ model[g].job \in Job
        BY <1>3, <2>1 DEF Model
      <4>. QED  BY <4>1, <4>2, JobIsNotNone
    <3>2. CASE jobPC'[g] \in Serving /\ model' = model
      BY <1>1, <1>4, <2>1, <2>3, <3>1, <3>2 DEF ServedInv
    <3>3. CASE (businessWorker' # 0 \/ past'.lastFailed) /\ JobDone(g)
      <4>1. \A h \in Goroutine : jobPC'[h] = "idle"
        BY <1>3, <3>3 DEF JobDone, JobGoto
      <4>. QED  BY <1>1, <1>4, <2>1, <2>3, <3>3, <4>1 DEF ServedInv
    <3>4. \/ (businessWorker' # 0 \/ past'.lastFailed) /\ JobDone(g)
          \/ \E l \in Serving : JobGoto(g, l) /\ UNCHANGED model
      <4>1. CASE SyncJob(g)
        <5>1. SyncTarget(cacheIndexer # NoJob, model[g].type) \in {"add", "update"}
          BY <1>2, <3>1 DEF SyncTarget
        <5>2. JobGoto(g, SyncTarget(cacheIndexer # NoJob, model[g].type)) /\ UNCHANGED model
          BY <4>1, <5>1 DEF SyncJob
        <5>. QED  BY <5>1, <5>2 DEF Serving
      <4>2. CASE EventUpdate(g) \/ EventAdd(g)
        BY <4>2 DEF EventUpdate, EventAdd, Serving
      <4>3. CASE CheckCMCreation(g)
        <5>1. GetFails => past'.lastFailed
          BY BoundPasses DEF JobTypeOK, Past
        <5>. QED  BY <1>4, <4>3, <5>1 DEF CheckCMCreation, Serving
      <4>4. CASE InstallWorker(g)
        BY <3>1, <4>4 DEF InstallWorker
      <4>5. ~DeleteWorker(g)
        BY <3>1 DEF DeleteWorker, Serving
      <4>. QED  BY <1>6, <4>1, <4>2, <4>3, <4>4, <4>5 DEF JobStep
    <3>5. ASSUME NEW l \in Serving, JobGoto(g, l) PROVE jobPC'[g] \in Serving
      BY <1>3, <3>5 DEF JobGoto
    <3>. QED  BY <3>2, <3>3, <3>4, <3>5
  <2>. QED  BY <2>2, <2>3
<1>. QED  BY <1>5, <1>6

\* The user's steps: a deletion that is on its way stays on its way.
LEMMA ServedByUser ==
    ASSUME ConfigMapFirst, JobTypeOK, ServedInv, CreateJob \/ UpdateJob \/ DeleteJob
    PROVE  ServedInv'
<1>1. /\ UNCHANGED <<configMap, cacheIndexer, workqueue, jobPC, model, businessWorker>>
      /\ jobWatch' = Append(jobWatch, job') /\ (job' # NoJob => configMap)
  BY DEF CreateJob, UpdateJob, DeleteJob, NotifyJob, ServedInv
<1>2. jobWatch \in Seq(Job \cup {NoJob})
  BY DEF JobTypeOK
<1>3. ASSUME NEW i \in DOMAIN jobWatch, jobWatch[i] = NoJob
      PROVE  \E k \in DOMAIN jobWatch' : jobWatch'[k] = NoJob
  <2>1. i \in DOMAIN jobWatch' /\ jobWatch'[i] = jobWatch[i]
    BY <1>1, <1>2, <1>3
  <2>. QED  BY <1>3, <2>1
<1>. QED  BY <1>1, <1>3, LastFailedStays DEF ServedInv

LEMMA ServedStep ==
    ASSUME ConfigMapFirst, OneGoroutine, JobTypeOK, ServedInv, [JobNext]_jobVars
    PROVE  ServedInv'
<1>0. ASSUME cacheIndexer' # NoJob => workqueue' # << >>
                                      /\ workqueue'[Len(workqueue')].type # "delete",
             UNCHANGED <<job, configMap>>
      PROVE  ServedInv'
  BY <1>0 DEF ServedInv
<1>1. \A q \in Seq(Model) : \A m \in Model :
        Append(q, m) # << >> /\ Append(q, m)[Len(Append(q, m))] = m
  OBVIOUS
<1>2. ASSUME NEW old \in Job \cup {NoJob}, NEW new \in Job
      PROVE  ModelOf(old, new) \in Model /\ ModelOf(old, new).type # "delete"
  BY <1>2, JobIsNotNone DEF ModelOf, TypeOf, Model
<1>3. /\ workqueue \in Seq(Model) /\ jobWatch \in Seq(Job \cup {NoJob})
      /\ cacheIndexer \in Job \cup {NoJob} /\ job \in Job \cup {NoJob}
  BY DEF JobTypeOK
<1>4. CASE JobEvent
  <2>1. /\ cacheIndexer' = Head(jobWatch) /\ Head(jobWatch) \in Job \cup {NoJob}
        /\ workqueue' = Append(workqueue, ModelOf(cacheIndexer, Head(jobWatch)))
        /\ UNCHANGED <<job, configMap>>
    BY <1>3, <1>4 DEF JobEvent, jobAPI
  <2>. QED  BY <1>0, <1>1, <1>2, <1>3, <2>1
<1>5. CASE JobRelist
  <2>1. /\ cacheIndexer' = job /\ UNCHANGED <<job, configMap>>
        /\ job # NoJob => workqueue' = Append(workqueue, ModelOf(cacheIndexer, job))
    BY <1>5 DEF JobRelist, jobAPI
  <2>. QED  BY <1>0, <1>1, <1>2, <1>3, <2>1
<1>6. CASE JobRestart
  <2>1. /\ cacheIndexer' = job /\ UNCHANGED <<job, configMap>>
        /\ job # NoJob => workqueue' = << ModelOf(NoJob, job) >>
    BY <1>6 DEF JobRestart, jobAPI
  <2>2. \A m : << m >> # << >> /\ << m >>[Len(<< m >>)] = m
    OBVIOUS
  <2>3. job # NoJob => ModelOf(NoJob, job).type # "delete"
    BY <1>2, <1>3
  <2>. QED  BY <1>0, <2>1, <2>2, <2>3
<1>7. CASE CreateConfigMap \/ DeleteConfigMap \/ UNCHANGED jobVars
  BY <1>7 DEF jobVars, CreateConfigMap, DeleteConfigMap, jobInformer, ServedInv
<1>. QED  BY <1>4, <1>5, <1>6, <1>7, ServedByUser, ServedByGoroutine DEF JobNext

\* With one goroutine no job stays without a worker, unless the last Get of its
\* ConfigMap failed: not behind earlier jobs of its name, not after lost watches,
\* not in a process that started late, and not after Gets that failed earlier.
THEOREM EveryJobServed ==
    ASSUME ConfigMapFirst, OneGoroutine
    PROVE  JobSpec => []NoJobUnserved
<1>1. JobInit => ServedInv
  BY DEF JobInit, ServedInv
<1>2. JobTypeOK /\ ServedInv /\ [JobNext]_jobVars => (JobTypeOK /\ ServedInv)'
  BY NextJobTypeOK, ServedStep
<1>3. JobTypeOK /\ ServedInv => NoJobUnserved
  BY DEF JobTypeOK, WatchInv, ServedInv, NoJobUnserved, Quiet, Serving
<1>. QED  BY <1>1, <1>2, <1>3, InitJobTypeOK, PTL DEF JobSpec

-----------------------------------------------------------------------------
(* The first job, with any number of goroutines *)

\* The model is one of the first job, and not of its deletion.
OfFirst(m) == m \in Model /\ m.type # "delete" /\ m.job.id = 1

\* Before the first job nothing has happened; while it stays every event is one
\* of it, none is of its deletion, and once the informer holds it either an event
\* is there to be handled, or at work, or the worker is its own, or the last Get
\* failed.
FirstInv ==
    /\ job # NoJob => configMap
    /\ jobs = 0 =>
        /\ job = NoJob /\ jobWatch = << >> /\ cacheIndexer = NoJob /\ workqueue = << >>
        /\ businessWorker = 0 /\ \A g \in Goroutine : jobPC[g] = "idle"
    /\ jobs = 1 /\ job # NoJob =>
        /\ job.id = 1
        /\ \A i \in DOMAIN jobWatch : jobWatch[i] \in Job /\ jobWatch[i].id = 1
        /\ cacheIndexer \in Job => cacheIndexer.id = 1
        /\ \A i \in DOMAIN workqueue : OfFirst(workqueue[i])
        /\ \A g \in Goroutine : jobPC[g] # "idle" => OfFirst(model[g]) /\ jobPC[g] \in Serving
        /\ businessWorker \in {0, 1}
        /\ cacheIndexer = NoJob =>
            workqueue = << >> /\ \A g \in Goroutine : jobPC[g] = "idle"
        /\ cacheIndexer # NoJob =>
            \/ businessWorker = 1 \/ workqueue # << >> \/ past.lastFailed
            \/ \E g \in Goroutine : jobPC[g] # "idle"

\* The first job stays and its worker is to be shown.
FirstStays == jobs = 1 /\ job # NoJob

LEMMA FirstByGoroutine ==
    ASSUME JobTypeOK, FirstInv, NEW g \in Goroutine, Get(g) \/ JobStep(g)
    PROVE  FirstInv'
<1>1. UNCHANGED <<job, jobs, configMap, jobWatch, cacheIndexer>>
  BY DEF Get, JobStep, SyncJob, EventUpdate, EventAdd, CheckCMCreation, InstallWorker,
         DeleteWorker, jobAPI, jobInformer
<1>2. jobs # 0
  BY DEF FirstInv, Get, JobStep, SyncJob, EventUpdate, EventAdd, CheckCMCreation,
         InstallWorker, DeleteWorker
<1>3. SUFFICES ASSUME FirstStays PROVE FirstInv'
  BY <1>1, <1>2 DEF FirstInv, FirstStays
<1>4. /\ workqueue \in Seq(Model)
      /\ jobPC \in [Goroutine -> {"idle", "sync", "add", "update", "poll", "install", "delete"}]
      /\ model \in [Goroutine -> Model \cup {NoModel}]
  BY DEF JobTypeOK
<1>5. configMap
  BY <1>3 DEF FirstInv, FirstStays
<1>6. /\ businessWorker \in {0, 1}
      /\ \A i \in DOMAIN workqueue : OfFirst(workqueue[i])
      /\ \A h \in Goroutine : jobPC[h] # "idle" => OfFirst(model[h]) /\ jobPC[h] \in Serving
  BY <1>3 DEF FirstInv, FirstStays
<1>7. cacheIndexer # NoJob
  BY <1>3 DEF FirstInv, FirstStays, Get, JobStep, SyncJob, EventUpdate, EventAdd,
              CheckCMCreation, InstallWorker, DeleteWorker
\* It suffices that the goroutine goes on, or is done and the worker is there.
<1>. DEFINE GoesOn ==
               /\ \A i \in DOMAIN workqueue' : OfFirst(workqueue'[i])
               /\ \A h \in Goroutine :
                    jobPC'[h] # "idle" => OfFirst(model'[h]) /\ jobPC'[h] \in Serving
               /\ businessWorker' \in {0, 1}
               /\ businessWorker' = 1 \/ jobPC'[g] # "idle" \/ past'.lastFailed
<1>8. SUFFICES GoesOn
  BY <1>1, <1>3, <1>7 DEF FirstInv, FirstStays, OfFirst
<1>9. CASE Get(g)
  <2>1. /\ workqueue # << >> /\ workqueue' = Tail(workqueue) /\ businessWorker' = businessWorker
        /\ model' = [model EXCEPT ![g] = Head(workqueue)] /\ jobPC' = [jobPC EXCEPT ![g] = "sync"]
    BY <1>9 DEF Get, JobGoto
  <2>2. OfFirst(Head(workqueue)) /\ \A i \in DOMAIN workqueue' : OfFirst(workqueue'[i])
    <3>1. 1 \in DOMAIN workqueue /\ Head(workqueue) = workqueue[1]
      BY <1>4, <2>1
    <3>2. \A i \in DOMAIN workqueue' : i + 1 \in DOMAIN workqueue /\ workqueue'[i] = workqueue[i + 1]
      BY <1>4, <2>1
    <3>. QED  BY <1>6, <3>1, <3>2
  <2>3. /\ jobPC'[g] = "sync" /\ model'[g] = Head(workqueue)
        /\ \A h \in Goroutine \ {g} : jobPC'[h] = jobPC[h] /\ model'[h] = model[h]
    BY <1>4, <2>1
  <2>. QED  BY <1>6, <2>1, <2>2, <2>3 DEF OfFirst, Serving
<1>10. CASE JobStep(g)
  <2>1. workqueue' = workqueue /\ jobPC[g] # "idle"
    BY <1>10 DEF JobStep, SyncJob, EventUpdate, EventAdd, CheckCMCreation, InstallWorker,
                DeleteWorker
  <2>2. OfFirst(model[g]) /\ jobPC[g] \in Serving /\ model[g].type \in {"add", "update"}
    <3>1. OfFirst(model[g]) /\ jobPC[g] \in Serving
      BY <1>6, <2>1 DEF OfFirst
    <3>2. \A m \in Model : m.type \in {"add", "update", "delete"}
      BY DEF Model
    <3>. QED  BY <3>1, <3>2 DEF OfFirst
  <2>3. \/ businessWorker' = 1 /\ JobDone(g)
        \/ past'.lastFailed /\ businessWorker' = businessWorker /\ JobDone(g)
        \/ \E l \in Serving : JobGoto(g, l) /\ UNCHANGED <<model, businessWorker>>
    <3>1. CASE SyncJob(g)
      <4>1. SyncTarget(cacheIndexer # NoJob, model[g].type) \in {"add", "update"}
        BY <1>7, <2>2 DEF SyncTarget
      <4>2. /\ JobGoto(g, SyncTarget(cacheIndexer # NoJob, model[g].type))
            /\ UNCHANGED <<model, businessWorker>>
        BY <3>1, <4>1 DEF SyncJob
      <4>. QED  BY <4>1, <4>2 DEF Serving
    <3>2. CASE EventUpdate(g) \/ EventAdd(g)
      BY <1>6, <3>2 DEF EventUpdate, EventAdd, Serving
    <3>3. CASE CheckCMCreation(g)
      <4>1. GetFails => past'.lastFailed
        BY BoundPasses DEF JobTypeOK, Past
      <4>. QED  BY <1>5, <3>3, <4>1 DEF CheckCMCreation, Serving
    <3>4. CASE InstallWorker(g)
      BY <1>6, <2>2, <3>4 DEF InstallWorker, OfFirst
    <3>5. ~DeleteWorker(g)
      BY <2>2 DEF DeleteWorker, Serving
    <3>. QED  BY <1>10, <3>1, <3>2, <3>3, <3>4, <3>5 DEF JobStep
  <2>4. CASE /\ JobDone(g)
             /\ \/ businessWorker' = 1
                \/ past'.lastFailed /\ businessWorker' = businessWorker
    <3>1. \A h \in Goroutine : jobPC'[h] # "idle" => jobPC'[h] = jobPC[h] /\ model'[h] = model[h]
      BY <1>4, <2>4 DEF JobDone, JobGoto
    <3>. QED  BY <1>6, <2>1, <2>4, <3>1 DEF OfFirst, JobDone, JobGoto
  <2>5. ASSUME NEW l \in Serving, JobGoto(g, l), UNCHANGED <<model, businessWorker>>
        PROVE  GoesOn
    <3>1. jobPC'[g] = l /\ \A h \in Goroutine \ {g} : jobPC'[h] = jobPC[h]
      BY <1>4, <2>5 DEF JobGoto
    <3>. QED  BY <1>6, <2>1, <2>2, <2>5, <3>1 DEF OfFirst, Serving
  <2>. QED  BY <2>3, <2>4, <2>5
<1>. QED  BY <1>9, <1>10

LEMMA FirstByUser ==
    ASSUME ConfigMapFirst, JobTypeOK, FirstInv, CreateJob \/ UpdateJob \/ DeleteJob
    PROVE  FirstInv'
<1>1. /\ UNCHANGED <<configMap, cacheIndexer, workqueue, jobPC, model, businessWorker>>
      /\ jobWatch' = Append(jobWatch, job') /\ (job' # NoJob => configMap)
  BY DEF CreateJob, UpdateJob, DeleteJob, NotifyJob, FirstInv
<1>2. jobWatch \in Seq(Job \cup {NoJob}) /\ jobs \in Nat /\ job' \in Job \cup {NoJob}
  BY UserSteps, JobBoundsAssumption DEF JobTypeOK
<1>3. jobs' \in {jobs, jobs + 1} /\ jobs' # 0
  BY <1>2 DEF FirstInv, CreateJob, UpdateJob, DeleteJob
<1>4. SUFFICES ASSUME jobs' = 1, job' # NoJob PROVE FirstInv'
  BY <1>1, <1>3 DEF FirstInv
<1>5. job' \in Job /\ job'.id = 1
  <2>1. CASE CreateJob
    BY <1>2, <1>4, <2>1 DEF CreateJob
  <2>2. CASE UpdateJob
    <3>1. job \in Job /\ job.id = 1
      BY <1>4, <2>2 DEF UpdateJob, FirstInv, JobTypeOK
    <3>. QED  BY <1>2, <1>4, <2>2, <3>1 DEF UpdateJob, Job
  <2>. QED  BY <1>4, <2>1, <2>2 DEF DeleteJob
<1>6. (jobs = 0 /\ jobWatch = << >>) \/ FirstStays
  BY <1>2, <1>4 DEF FirstInv, FirstStays, CreateJob, UpdateJob, DeleteJob
<1>7. \A i \in DOMAIN jobWatch' : jobWatch'[i] \in Job /\ jobWatch'[i].id = 1
  <2>1. \A i \in DOMAIN jobWatch : jobWatch[i] \in Job /\ jobWatch[i].id = 1
    BY <1>6 DEF FirstInv, FirstStays
  <2>2. \A i \in DOMAIN jobWatch' : \/ i \in DOMAIN jobWatch /\ jobWatch'[i] = jobWatch[i]
                                    \/ jobWatch'[i] = job'
    BY <1>1, <1>2
  <2>. QED  BY <1>5, <2>1, <2>2
<1>8. CASE jobs = 0
  BY <1>1, <1>4, <1>5, <1>7, <1>8, JobIsNotNone DEF FirstInv, OfFirst
<1>9. CASE FirstStays
  BY <1>1, <1>4, <1>5, <1>7, <1>9, LastFailedStays DEF FirstInv, FirstStays, OfFirst
<1>. QED  BY <1>6, <1>8, <1>9

LEMMA FirstStep ==
    ASSUME ConfigMapFirst, JobTypeOK, FirstInv, [JobNext]_jobVars
    PROVE  FirstInv'
<1>1. CASE JobEvent \/ JobRelist \/ JobRestart
  <2>1. /\ UNCHANGED <<job, jobs, configMap>> /\ businessWorker' \in {businessWorker, 0}
        /\ \A g \in Goroutine : jobPC'[g] # "idle" => jobPC'[g] = jobPC[g] /\ model'[g] = model[g]
    BY <1>1 DEF JobEvent, JobRelist, JobRestart, jobAPI
  <2>2. CASE jobs = 0
    BY <1>1, <2>1, <2>2 DEF FirstInv, JobEvent, JobRelist, JobRestart, jobAPI
  <2>3. CASE jobs # 0 /\ ~FirstStays
    BY <2>1, <2>3 DEF FirstInv, FirstStays
  <2>4. CASE FirstStays
    <3>1. /\ job \in Job /\ job.id = 1 /\ workqueue \in Seq(Model)
          /\ jobWatch \in Seq(Job \cup {NoJob}) /\ cacheIndexer \in Job \cup {NoJob}
          /\ \A i \in DOMAIN jobWatch : jobWatch[i] \in Job /\ jobWatch[i].id = 1
          /\ \A i \in DOMAIN workqueue : OfFirst(workqueue[i])
      BY <2>4 DEF FirstInv, FirstStays, JobTypeOK
    <3>2. ASSUME NEW old \in Job \cup {NoJob}, NEW new \in Job, new.id = 1
          PROVE  OfFirst(ModelOf(old, new))
      BY <3>2, JobIsNotNone DEF ModelOf, TypeOf, Model, OfFirst
    <3>3. ASSUME NEW new \in Job, new.id = 1, cacheIndexer' = new,
                 jobWatch' \in {Tail(jobWatch), << >>}, jobWatch # << >> \/ jobWatch' = << >>,
                 NEW q \in {workqueue, << >>}, NEW old \in Job \cup {NoJob},
                 workqueue' = Append(q, ModelOf(old, new))
          PROVE  FirstInv'
      <4>1. \A i \in DOMAIN workqueue' : OfFirst(workqueue'[i])
        <5>0. << >> \in Seq(Model) /\ DOMAIN << >> = {}
          OBVIOUS
        <5>1. q \in Seq(Model) /\ \A i \in DOMAIN q : OfFirst(q[i])
          BY <3>1, <3>3, <5>0
        <5>2. \A i \in DOMAIN workqueue' : \/ i \in DOMAIN q /\ workqueue'[i] = q[i]
                                          \/ workqueue'[i] = ModelOf(old, new)
          BY <3>3, <5>1
        <5>. QED  BY <3>2, <3>3, <5>1, <5>2
      <4>2. workqueue' # << >>
        <5>0. << >> \in Seq(Model) /\ \A r \in Seq(Model) : \A m \in Model : Append(r, m) # << >>
          OBVIOUS
        <5>1. q \in Seq(Model) /\ ModelOf(old, new) \in Model
          BY <3>1, <3>2, <3>3, <5>0 DEF OfFirst
        <5>. QED  BY <3>3, <5>0, <5>1
      <4>3. \A i \in DOMAIN jobWatch' : jobWatch'[i] \in Job /\ jobWatch'[i].id = 1
        <5>1. CASE jobWatch' = << >>
          BY <5>1
        <5>2. CASE jobWatch # << >> /\ jobWatch' = Tail(jobWatch)
          <6>1. \A i \in DOMAIN jobWatch' : i + 1 \in DOMAIN jobWatch
                                            /\ jobWatch'[i] = jobWatch[i + 1]
            BY <3>1, <5>2
          <6>. QED  BY <3>1, <6>1
        <5>. QED  BY <3>3, <5>1, <5>2
      <4>4. \A g \in Goroutine : jobPC'[g] # "idle" => OfFirst(model'[g]) /\ jobPC'[g] \in Serving
        BY <2>1, <2>4 DEF FirstInv, FirstStays
      <4>5. businessWorker' \in {0, 1} /\ new # NoJob
        BY <2>1, <2>4, JobIsNotNone DEF FirstInv, FirstStays
      <4>. QED  BY <2>1, <2>4, <3>1, <3>3, <4>1, <4>2, <4>3, <4>4, <4>5
                DEF FirstInv, FirstStays, OfFirst
    <3>4. CASE JobEvent
      <4>1. Head(jobWatch) \in Job /\ Head(jobWatch).id = 1
        <5>1. 1 \in DOMAIN jobWatch /\ Head(jobWatch) = jobWatch[1]
          BY <3>1, <3>4 DEF JobEvent
        <5>. QED  BY <3>1, <5>1
      <4>2. /\ cacheIndexer' = Head(jobWatch) /\ jobWatch' = Tail(jobWatch) /\ jobWatch # << >>
            /\ workqueue' = Append(workqueue, ModelOf(cacheIndexer, Head(jobWatch)))
        BY <3>4 DEF JobEvent
      <4>. QED  BY <3>1, <3>3, <4>1, <4>2
    <3>5. CASE JobRelist
      <4>1. /\ cacheIndexer' = job /\ jobWatch' = << >>
            /\ workqueue' = Append(workqueue, ModelOf(cacheIndexer, job))
        BY <2>4, <3>5 DEF JobRelist, FirstStays
      <4>. QED  BY <3>1, <3>3, <4>1
    <3>6. CASE JobRestart
      <4>1. /\ cacheIndexer' = job /\ jobWatch' = << >>
            /\ workqueue' = << ModelOf(NoJob, job) >>
        BY <2>4, <3>6 DEF JobRestart, FirstStays
      <4>2. \A m : << m >> = Append(<< >>, m)
        OBVIOUS
      <4>. QED  BY <3>1, <3>3, <4>1, <4>2
    <3>. QED  BY <1>1, <3>4, <3>5, <3>6
  <2>. QED  BY <2>2, <2>3, <2>4
<1>2. CASE CreateConfigMap \/ DeleteConfigMap \/ UNCHANGED jobVars
  BY <1>2 DEF jobVars, CreateConfigMap, DeleteConfigMap, jobInformer, FirstInv, OfFirst
<1>. QED  BY <1>1, <1>2, FirstByUser, FirstByGoroutine DEF JobNext

\* The first job of a name gets its own worker, with any number of goroutines,
\* lost watches and restarts, unless the last Get of its ConfigMap failed.
THEOREM FirstJobKeepsWorker ==
    ASSUME ConfigMapFirst
    PROVE  JobSpec => []FirstJobHasWorker
<1>1. JobInit => FirstInv
  BY DEF JobInit, FirstInv
<1>2. JobTypeOK /\ FirstInv /\ [JobNext]_jobVars => (JobTypeOK /\ FirstInv)'
  BY NextJobTypeOK, FirstStep
<1>3. JobTypeOK /\ FirstInv => FirstJobHasWorker
  BY DEF JobTypeOK, WatchInv, FirstInv, FirstJobHasWorker, Quiet
<1>. QED  BY <1>1, <1>2, <1>3, InitJobTypeOK, PTL DEF JobSpec

=============================================================================
