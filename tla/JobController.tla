---------------------------- MODULE JobController ----------------------------
(***************************************************************************)
(* The job side of the controller: the informer of jobs, the work queue    *)
(* "model", and the goroutines that make and delete the business worker of *)
(* a job (pkg/ring-controller/controller, pkg/ring-controller/model).      *)
(*                                                                         *)
(* One namespace/name, under which jobs are created and deleted one after  *)
(* another and numbered; the number of replicas of a job may be changed.   *)
(* What a queue item carries is a model: a copy of the job made when the   *)
(* event arrived, so two events of one job are two different items, handed *)
(* out in the order they came in.                                          *)
(***************************************************************************)
EXTENDS Naturals, Sequences

CONSTANTS
    Goroutine,      \* jobParallelism goroutines
    WorkerKind,     \* "vcjob", "k8sjob" or "deployment"
    Replicas,       \* the numbers of replicas a job may have
    ConfigMapFirst, \* the ConfigMap is there before the job is
    MaxJobs,        \* bound: incarnations of the job
    MaxUpdates,     \* bound: updates of the job
    MaxRelists,     \* bound: broken watches
    MaxRestarts,    \* bound: restarts of the controller
    MaxFailedGets   \* bound: Gets of the ConfigMap that fail

ASSUME JobBoundsAssumption ==
    /\ MaxJobs \in Nat /\ MaxUpdates \in Nat
    /\ MaxRelists \in Nat /\ MaxRestarts \in Nat /\ MaxFailedGets \in Nat
    /\ ConfigMapFirst \in BOOLEAN
ASSUME JobKindAssumption == WorkerKind \in {"vcjob", "k8sjob", "deployment"}
ASSUME JobReplicasAssumption == Replicas \subseteq Nat

VARIABLES
    job,            \* the job in the API server, or NoJob
    jobs,           \* incarnations so far
    configMap,      \* there is a valid ConfigMap rings-config-<job>
    past,           \* updates, broken watches, restarts and failed Gets so far, and
                    \* lastFailed: no Get has found the ConfigMap since one failed
    jobWatch,       \* changes of the job on their way to the informer
    cacheIndexer,   \* the job the informer's store holds, or NoJob
    workqueue,      \* the queue of models
    jobPC,          \* jobPC[g]: where goroutine g is
    model,          \* model[g]: the model it works on
    businessWorker  \* the job that BusinessWorker[namespace/name] was made for, or 0

jobAPI == <<job, jobs, configMap>>
jobInformer == <<jobWatch, cacheIndexer>>
jobVars == <<job, jobs, configMap, past, jobWatch, cacheIndexer, workqueue, jobPC,
             model, businessWorker>>

Job == [id : 1 .. MaxJobs, replicas : Replicas]
NoJob == [id |-> 0, replicas |-> 0]
Model == [type : {"add", "update", "delete"}, job : Job]
NoModel == [type |-> "add", job |-> NoJob]

\* GenerateGrouplist: the pods to wait for, whether they use chips or not; the
\* groups it lists are text in a v1 table.
ReplicasTotal(j) == j.replicas

JobInit ==
    /\ job = NoJob /\ jobs = 0
    /\ configMap \in BOOLEAN
    /\ past = [updates |-> 0, relists |-> 0, restarts |-> 0, failedGets |-> 0,
               lastFailed |-> FALSE]
    /\ jobWatch = << >>
    /\ cacheIndexer = NoJob
    /\ workqueue = << >>
    /\ jobPC = [g \in Goroutine |-> "idle"]
    /\ model = [g \in Goroutine |-> NoModel]
    /\ businessWorker = 0

-----------------------------------------------------------------------------
(* The API server *)

NotifyJob(j) == jobWatch' = Append(jobWatch, j)

CreateJob ==
    /\ job = NoJob /\ jobs < MaxJobs
    /\ ConfigMapFirst => configMap
    /\ job' \in { [id |-> jobs + 1, replicas |-> n] : n \in Replicas }
    /\ jobs' = jobs + 1
    /\ NotifyJob(job')
    /\ UNCHANGED <<configMap, past, cacheIndexer, workqueue, jobPC, model,
                   businessWorker>>

\* The job is changed: it is scaled, or its status is written.
UpdateJob ==
    /\ job # NoJob /\ past.updates < MaxUpdates
    /\ past' = [past EXCEPT !.updates = @ + 1]
    /\ job' \in { [job EXCEPT !.replicas = n] : n \in Replicas }
    /\ NotifyJob(job')
    /\ UNCHANGED <<jobs, configMap, cacheIndexer, workqueue, jobPC, model,
                   businessWorker>>

DeleteJob ==
    /\ job # NoJob
    /\ job' = NoJob
    /\ NotifyJob(NoJob)
    /\ UNCHANGED <<jobs, configMap, past, cacheIndexer, workqueue, jobPC, model,
                   businessWorker>>

CreateConfigMap ==
    /\ ~configMap
    /\ configMap' = TRUE
    /\ UNCHANGED <<job, jobs, past, jobInformer, workqueue, jobPC, model,
                   businessWorker>>

DeleteConfigMap ==
    /\ configMap /\ job = NoJob
    /\ configMap' = FALSE
    /\ UNCHANGED <<job, jobs, past, jobInformer, workqueue, jobPC, model,
                   businessWorker>>

-----------------------------------------------------------------------------
(* The informer: addEventHandle, enqueueJob and Factory *)

TypeOf(old, new) ==
    IF new = NoJob THEN "delete" ELSE IF old = NoJob THEN "add" ELSE "update"

\* Faulty: the model of a delete event is made from what is there now.
ModelOfNew(old, new) == [type |-> TypeOf(old, new), job |-> new]

\* The model of a delete event is made from the last copy of the job.
ModelOf(old, new) ==
    [type |-> TypeOf(old, new), job |-> IF new = NoJob THEN old ELSE new]

JobEvent ==
    /\ jobWatch # << >>
    /\ cacheIndexer' = Head(jobWatch)
    /\ jobWatch' = Tail(jobWatch)
    /\ workqueue' = Append(workqueue, ModelOf(cacheIndexer, Head(jobWatch)))
    /\ UNCHANGED <<jobAPI, past, jobPC, model, businessWorker>>

\* The watch breaks and the informer lists again.  A job that is gone comes
\* as DeletedFinalStateUnknown, for which Factory makes no model.
JobRelist ==
    /\ jobWatch # << >> /\ past.relists < MaxRelists
    /\ past' = [past EXCEPT !.relists = @ + 1]
    /\ cacheIndexer' = job
    /\ jobWatch' = << >>
    /\ workqueue' = IF job = NoJob THEN workqueue
                    ELSE Append(workqueue, ModelOf(cacheIndexer, job))
    /\ UNCHANGED <<jobAPI, jobPC, model, businessWorker>>

-----------------------------------------------------------------------------
(* A goroutine: processNextWorkItem and SyncHandler *)

JobGoto(g, l) == jobPC' = [jobPC EXCEPT ![g] = l]

\* The item is forgotten, whether or not its handler failed.
JobDone(g) ==
    /\ JobGoto(g, "idle")
    /\ model' = [model EXCEPT ![g] = NoModel]

Get(g) ==
    /\ jobPC[g] = "idle"
    /\ workqueue # << >>
    /\ workqueue' = Tail(workqueue)
    /\ model' = [model EXCEPT ![g] = Head(workqueue)]
    /\ JobGoto(g, "sync")
    /\ UNCHANGED <<jobAPI, past, jobInformer, businessWorker>>

\* What SyncHandler does with an event of a job that is, or is not, in the
\* informer's store: a delete event of a name that exists again is an
\* "undefined condition".
SyncTarget(exists, event) ==
    IF ~exists THEN IF event = "delete" THEN "delete" ELSE "idle"
    ELSE CASE event = "add"    -> "add"
           [] event = "update" -> "update"
           [] event = "delete" -> "idle"

SyncJob(g) ==
    LET l == SyncTarget(cacheIndexer # NoJob, model[g].type)
    IN  /\ jobPC[g] = "sync"
        /\ IF l = "idle" THEN JobDone(g) ELSE JobGoto(g, l) /\ UNCHANGED model
        /\ UNCHANGED <<jobAPI, past, jobInformer, workqueue, businessWorker>>

\* EventUpdate looks for the worker and goes on to EventAdd without one.
EventUpdate(g) ==
    /\ jobPC[g] = "update"
    /\ IF businessWorker # 0 THEN JobDone(g) ELSE JobGoto(g, "add") /\ UNCHANGED model
    /\ UNCHANGED <<jobAPI, past, jobInformer, workqueue, businessWorker>>

\* EventAdd of a volcano job looks for the worker before it polls.
EventAdd(g) ==
    /\ jobPC[g] = "add"
    /\ IF WorkerKind = "vcjob" /\ businessWorker # 0
       THEN JobDone(g) ELSE JobGoto(g, "poll") /\ UNCHANGED model
    /\ UNCHANGED <<jobAPI, past, jobInformer, workqueue, businessWorker>>

\* Faulty: a ConfigMap that is found ends the poll with an error.
CheckCMCreationFails(g) ==
    /\ jobPC[g] = "poll"
    /\ JobDone(g)
    /\ UNCHANGED <<jobAPI, past, jobInformer, workqueue, businessWorker>>

\* A Get is answered with an error other than NotFound, which ends the poll.
GetFails ==
    /\ past.failedGets < MaxFailedGets
    /\ past' = [past EXCEPT !.failedGets = @ + 1, !.lastFailed = TRUE]

\* checkCMCreation: the ConfigMap is there; the poll runs out of time, or the
\* ConfigMap is not valid; or a Get fails, whether or not it is there.
CheckCMCreation(g) ==
    /\ jobPC[g] = "poll"
    /\ \/ /\ configMap
          /\ past' = [past EXCEPT !.lastFailed = FALSE]
          /\ JobGoto(g, "install") /\ UNCHANGED model
       \/ ~configMap /\ JobDone(g) /\ UNCHANGED past
       \/ GetFails /\ JobDone(g)
    /\ UNCHANGED <<jobAPI, jobInformer, workqueue, businessWorker>>

\* Faulty: the worker that is there is not looked for again.
InstallAnyway(g) ==
    /\ jobPC[g] = "install"
    /\ businessWorker' = model[g].job.id
    /\ JobDone(g)
    /\ UNCHANGED <<jobAPI, past, jobInformer, workqueue>>

\* Under the write lock: k8s jobs and deployments keep a worker that has
\* appeared meanwhile, a volcano job replaces it.
InstallWorker(g) ==
    /\ jobPC[g] = "install"
    /\ businessWorker' = IF WorkerKind # "vcjob" /\ businessWorker # 0
                         THEN businessWorker ELSE model[g].job.id
    /\ JobDone(g)
    /\ UNCHANGED <<jobAPI, past, jobInformer, workqueue>>

\* Faulty: a delete event of a job with a worker is not acted on.
DeleteWorkerNot(g) ==
    /\ jobPC[g] = "delete"
    /\ JobDone(g)
    /\ UNCHANGED <<jobAPI, past, jobInformer, workqueue, businessWorker>>

DeleteWorker(g) ==
    /\ jobPC[g] = "delete"
    /\ businessWorker' = 0
    /\ JobDone(g)
    /\ UNCHANGED <<jobAPI, past, jobInformer, workqueue>>

JobStep(g) ==
    \/ SyncJob(g) \/ EventUpdate(g) \/ EventAdd(g) \/ CheckCMCreation(g)
    \/ InstallWorker(g) \/ DeleteWorker(g)

\* A new process has an empty queue, no worker, and lists the job there is.
JobRestart ==
    /\ past.restarts < MaxRestarts
    /\ past' = [past EXCEPT !.restarts = @ + 1]
    /\ cacheIndexer' = job
    /\ jobWatch' = << >>
    /\ workqueue' = IF job = NoJob THEN << >> ELSE << ModelOf(NoJob, job) >>
    /\ jobPC' = [g \in Goroutine |-> "idle"]
    /\ model' = [g \in Goroutine |-> NoModel]
    /\ businessWorker' = 0
    /\ UNCHANGED jobAPI

JobNext ==
    \/ CreateJob \/ UpdateJob \/ DeleteJob \/ CreateConfigMap \/ DeleteConfigMap
    \/ JobEvent \/ JobRelist \/ JobRestart
    \/ \E g \in Goroutine : Get(g) \/ JobStep(g)

JobSpec == JobInit /\ [][JobNext]_jobVars

(***************************************************************************)
(* Fairness: the informer delivers, an idle goroutine takes an item, and a *)
(* handler runs to its end (the poll has a timeout).                       *)
(***************************************************************************)
JobFairness ==
    /\ WF_jobVars(JobEvent)
    /\ WF_jobVars(\E g \in Goroutine : Get(g))
    /\ \A g \in Goroutine : WF_jobVars(JobStep(g))

JobFairSpec == JobSpec /\ JobFairness

-----------------------------------------------------------------------------

\* What the informer is still to be told begins where its store is and ends
\* with the job there is; a deletion always follows a job.
WatchInv ==
    /\ \A i \in DOMAIN jobWatch :
        jobWatch[i] = NoJob =>
            (IF i = 1 THEN cacheIndexer ELSE jobWatch[i - 1]) # NoJob
    /\ job = IF jobWatch = << >> THEN cacheIndexer ELSE jobWatch[Len(jobWatch)]

\* Types; a queued event always has the job it is about, a delete event too,
\* also after a lost watch (WatchInv); a goroutine has a model exactly while it
\* works.
JobTypeOK ==
    /\ job \in Job \cup {NoJob}
    /\ jobs \in 0 .. MaxJobs /\ job.id \in {0, jobs}
    /\ configMap \in BOOLEAN
    /\ past \in [updates : 0 .. MaxUpdates, relists : 0 .. MaxRelists,
                 restarts : 0 .. MaxRestarts, failedGets : 0 .. MaxFailedGets,
                 lastFailed : BOOLEAN]
    /\ jobWatch \in Seq(Job \cup {NoJob}) /\ WatchInv
    /\ cacheIndexer \in Job \cup {NoJob}
    /\ workqueue \in Seq(Model)
    /\ jobPC \in [Goroutine ->
                    {"idle", "sync", "add", "update", "poll", "install", "delete"}]
    /\ model \in [Goroutine -> Model \cup {NoModel}]
    /\ \A g \in Goroutine : jobPC[g] = "idle" <=> model[g] = NoModel
    /\ businessWorker \in 0 .. MaxJobs

\* Every change has reached the informer and every event has been handled.
Quiet ==
    jobWatch = << >> /\ workqueue = << >> /\ \A g \in Goroutine : jobPC[g] = "idle"

\* A job that is gone leaves no worker behind, once its events are handled.
NoOrphanWorker == Quiet /\ job = NoJob => businessWorker = 0

\* A job that comes after its ConfigMap, and is there once its events are
\* handled, has a worker, unless the last Get of a ConfigMap failed: no event
\* of an earlier job and no restart takes it away for good, and a Get that
\* failed, whose event is forgotten, is made up for by the next event.
NoJobUnserved ==
    ConfigMapFirst /\ Quiet /\ job # NoJob /\ ~past.lastFailed => businessWorker # 0

\* The first job of a name has its own one, also when its events are handled by
\* several goroutines at once, under the same condition.
FirstJobHasWorker ==
    ConfigMapFirst /\ jobs = 1 /\ Quiet /\ job # NoJob /\ ~past.lastFailed =>
        businessWorker = job.id

\* The worker, if there is one, was made for the job that is there now.
NoStaleWorker == Quiet /\ job # NoJob => businessWorker \in {0, job.id}

\* A worker that is in use is not replaced by another: it would lose the
\* pods it has cached.
WorkerNotReplaced ==
    [][businessWorker # 0 /\ businessWorker' # 0 => businessWorker' = businessWorker]_jobVars

\* A job that stays, with its ConfigMap, under a name that no job had before,
\* gets a worker and keeps it, also in a process that starts later, unless the
\* last Get of its ConfigMap fails.
JobGetsWorker ==
    [](jobs <= 1) /\ <>[](job # NoJob /\ configMap /\ ~past.lastFailed) =>
        <>[](businessWorker = job.id)
=============================================================================
