# Specifications of hccl-controller

hccl-controller watches the training jobs of a Kubernetes cluster with Ascend
910 chips. For each job it collects the chips that were allotted to the job's
pods, gives every chip a rank id, and, when all the pods are known, publishes
the rank table as `hccl.json` in the ConfigMap `rings-config-<job>` with the
status `completed`. The training processes poll that ConfigMap and start when
they find the status. A table that is completed with a pod missing, with a pod
twice or with a rank id twice, or that is never completed, costs a training
run, and none of that shows in a log.

Paths below are relative to `src/pkg/ring-controller/` unless they begin with
`main.go` or `hwlog`, which is `src/pkg/hwlog/`.

## 1. The system

| part | state | operations | talks to |
| --- | --- | --- | --- |
| rank table (`ranktable/v1`, `v2`) | status, list of servers (v2) or instances (v1) | CachePodInfo, RemovePodInfo, SetStatus, GetPodNum | called by the worker under `cmMu` (the status also without) |
| business worker (`agent/*worker.go`) | rank table, `rankIndex`, `cachedPodNum`, `taskReplicasTotal`, `cmMu` | doWork, handleDeleteEvent | called by the pod goroutines; reads and writes pods and the ConfigMap in the API server |
| business agent (`agent/businessagent.go`) | pod informer and its store, rate limited queue of keys `ns/pod/job/event`, map of workers, `RwMutex` | event handlers, enqueuePod, processNextWorkItem, doWork | pod informer, workers |
| job controller (`controller`) | job informers, queue of models | addEventHandle, enqueueJob, SyncHandler, Run | models |
| job models (`model`) | a copy of the job in each queue item | Factory, EventAdd, EventUpdate, checkCMCreation, RanktableFactory | put workers into the agent's map, read the ConfigMap |
| start and end (`main.go`) | flags, `stopCh`, informers | NewController, Run, the signal handler | starts all of the above |
| logging (`hwlog`) | the log files, the watcher of their directory | Init, workerWatcher, changeFileMode | lumberjack rotates the files |
| statistic reporter | `statisticSwitch`, `statisticStopped` | Statistic, CloseStatistic | never started: `main.go:53` fixes `displayStatistic` to false |

A job event makes (or deletes) the job's worker; a pod event, handled by one of
`podParallelism` goroutines (default 1), goes to that worker; the worker
annotates the pod with its rank index, caches it, and publishes the table when
the count of pods equals the replicas. The two informers are independent.

### What is hard

* **Interleaving.** The pod goroutines run handlers of one worker at once.
  Status test, job without replicas and the read of the pod are outside `cmMu`.
  The job goroutines replace workers the pod goroutines use.
* **Order.** Each key has a delay of its own (AddRateLimited), so the events of
  a pod are handled in any order, and different pods' events too. A pod may be
  seen before its job, or after the job is gone.
* **Stale data.** A handler works on the informer's copy of the pod; the API
  server may have a newer one, or none. A new worker copies the status it read
  in the ConfigMap some steps earlier.
* **Failure.** Each API call can fail, with or without effect. The answer of a
  handler that failed is `(true, true)`: forgotten.
* **Restart.** Nothing is persisted but the annotations on the pods and the
  ConfigMap.
* **Time.** The ConfigMap of a job may come after checkCMCreation gave up, or a
  Get of it may fail, and the event is forgotten. A creationTimestamp counts
  seconds, so it does not always tell whose pod a pod is. A signal may come at
  any step of the start.

### What makes each part correct

* table: no pod twice; sorted by rank id when published.
* worker: a completed table has as many pods as replicas; a rank id belongs to
  one chip; the handlers take effect one at a time; every handler ends.
* agent: once all pods are there and ready the table gets completed, whatever
  the order of events; a deleted pod leaves the table.
* job side: one worker per job, made for the job that is there, never replaced
  while in use, gone when the job is gone.
* together: no pod that can be told to be an old job's in the table of a new one;
  whichever side is told first, the table is published.
* start and end: nothing works on a cache that is not filled; the exit status
  tells the truth; a signal ends the process.

The full list of hazards, each at its line and with the properties that watch
it, is in `PROJECT.json`.

## 2. The modules

```
RankTable --- BusinessWorker --- PodAgent --- HcclController      LogWatcher
    |               : implements                  | INSTANCE           |
    +---------- AtomicWorker                JobController          Lifecycle
```

Lines are EXTENDS, read from left to right.

`RankTable` is a module of operators, one for each function of the package. An
entry of the list is a pod and the rank index it was given; rank ids follow from
it and from `Devices`. `sort.Slice` is not stable, so `CachePodInfo` returns a
set of lists. The pod name v2 compares (`instance.PodName`, written by the
device plugin) is taken to be the name of the pod.

`BusinessWorker` is one worker. Variables and code:

| variable | code |
| --- | --- |
| status, serverList | `WorkerInfo.configmapData` |
| rankIndex, cachedPodNum, taskReplicasTotal, cmMu | the fields of that name |
| pc, ctx | where each goroutine is in its handler, and the handler's arguments and locals |
| cm, annotation | the ConfigMap and the `hccl/rankIndex` annotations in the API server |

A handler is cut where another goroutine or the API server can see it:

| actions | code |
| --- | --- |
| DoWork | scenario checks and status test of `doWork` |
| SyncHandler, ZeroPublish | `syncHandler`, the job without replicas |
| AddLock, AddRejected | `handleAddUpdateEvent` up to updatePod |
| UpdatePod | `updatePod`: done, pod gone, failed with or without effect |
| CachePod, CacheRejected | CachePodInfo to the completion test |
| Publish | `endRankTableConstruction`, `updateConfigMap` |
| HandleDelete, DeleteLock, DeleteRejected, DeletePublish | `handleDeleteEvent` |
| NewWorker, Crash, ReplaceConfigMap, ReplacePod | the worker made anew; the outside |

`RwMutex` needs no variable: handlers hold it for reading, and the step that
takes it for writing requires that no handler runs (`NewWorker`, `WriteLock`).
The module is open: any snapshot of `Snapshots` may be handed to a handler,
however old or wrong. What holds there needs nothing from the informer.

The status is written without `cmMu` for a job without replicas. The model
takes each write as one step; the build may tear the string, but a reader only
asks whether it is `completed`, which a torn one is not.

`AtomicWorker` is what the worker promises: a set of entries, a count, the next
rank, and the published table. There are no threads and no lock; `Cache`,
`Complete`, `Remove`, `Withdraw` are whole handlers, with their publication as a
second step. `BusinessWorker!ImplementsAtomic` is the refinement: the table is
the range of the list, and the next rank is looked up past a rank that a handler
has borrowed (it overwrites `rankIndex` and puts it back).

`PodAgent` closes BusinessWorker: pods and their annotations change in the API
server, every change goes down `watch[p]`, the informer moves it into `store` and
puts a key into `waiting`, `Due` ends a delay, `Take` reads the store, and
`Dispatch` looks for the worker and enters a handler. The delays are arbitrary. A
pod name is used once, as with deployments and jobs, or again, as with volcano
jobs. `created` has what the code sees of a pod's creationTimestamp: a second is
written as the number of the last job created in it or before it, so the test
`pod.CreationTimestamp.Before(job)` is `created[p] < j`. `Relist` is a broken watch: a deletion then arrives as
`DeletedFinalStateUnknown`, which the code drops. `StartWorker` stands for the
job side. `BuildNext` is the part of it in which pods and watches stay;
`AgentNext` adds `DeletePod` and `Relist`.

`JobController` is that job side by itself: one namespace/name, whose jobs are
created, scaled and deleted one after another, the informer, the queue of models,
the job goroutines, and the worker as the incarnation it was made for.
`CheckCMCreation` ends in one of four ways: the ConfigMap is found, or it is not
there in time, or it is not valid (both are "no valid ConfigMap"), or a Get is
answered with another error, which ends the poll at once although the ConfigMap
may be there (`GetFails`, bound MaxFailedGets). In all but the first the event is
forgotten. `past.lastFailed` remembers that no Get has succeeded since one failed.

`HcclController` joins the two on `businessWorker`, the map of workers: the job
side's `InstallWorker` and `DeleteWorker` wait for the write lock and make the
worker of `BusinessWorker` anew, from the status that `ReadConfigMap` read
before; pods belong to jobs (`owner`), and Kubernetes makes the pods of the job
that is there and collects those of the others. Two ways in which a pod of an old
job passes the test of the timestamp are in the model: `NewJob` may fall into the
second in which any of the last pods were created, and `LatePod` is a pod that the
ReplicaSet or job controller of a job that is gone makes after its successor
exists. To keep it small, a pod has its
chips when it is first seen (PodAgent has the other case), the ConfigMap is
replaced in one step and only while no job is there, and there is one kind of
job in a run. Volcano jobs are in JobController and BusinessWorker; `main.go`
registers informers for deployments and k8s jobs only.

`LogWatcher` has the log files with their modes, the rotation of lumberjack (a
library, modelled from its use and marked external), and the goroutine that gives
a file its mode when it appears. A chmod may fail, which is only logged; such a file,
and one made while nobody watched, is in the history variable `excused`, which the
properties about modes leave out. `Lifecycle` extends it by the process: main from
the flags to its return, in the order of its calls, the informers it waits for,
the goroutines it starts, and the signals.

`MC*` give values to constants for TLC. The modules with theorems are
`RankTableProofs`, `BusinessWorkerProofs`, `BusinessWorkerRefinement`,
`PodAgentProofs`, `AgentBuildProofs`, `JobControllerProofs`,
`HcclControllerProofs` and `LifecycleProofs`.

Definitions commented `Faulty` are variants of the definition that follows with
a bug; no specification uses them. They are used to see that each property can
fail (`PROJECT.json`, "mutants").

### Abstraction

Left out: addresses and device names, the text of messages, JSON, the text
fields of v1, the label checks of a ConfigMap (a ConfigMap without the label is
the case "API call failed"), `dryRun` (never set), the length of delays. The
chips of a pod are a constant. An API call is one atomic step of the server, or a
fault; updatePod's Get and Update are one step, because a conflict makes it
start over. The calls that can fail are those of the handlers (MaxFaults), the Get
of checkCMCreation (MaxFailedGets), and the chmods of the log watcher, which may
fail any number of times.

## 3. The checks

TLC, `-workers 2`; each run finishes in two to three minutes or less.

| run | instance | shows |
| --- | --- | --- |
| WorkerThreads | 2 goroutines, 2 pods with different chips, 0 or 1 replicas, 1 fault, v2, snapshots of all sorts | TypeOK, DistinctPods, CountDrift, CompletedCount, the inductive invariant IInv, and the refinement ImplementsAtomic |
| AgentBuild | 2 goroutines, 2 pods of 2 chips, 1 restart, fairness | FirstBuildRanks, CompletedSorted, SettledIsServed, BuildCompletes, HandlerTerminates |
| JobParallel | 2 job goroutines, 2 incarnations scaled twice, broken watch, restart, failed Get, k8s job, fairness | JobTypeOK, FirstJobHasWorker, WorkerNotReplaced, JobGetsWorker |
| HcclFirst | both sides, 1 goroutine each, 2 pods, 1 replica, a delete, a broken watch, late pods, no failed call, fairness | AgentTypeOK, FirstJobServed, LeavesWhileJobStays, GoneLeavesConfigMap, FrozenWhenCompleted |
| HcclRebuild | both sides, 2 deployments of one name, 1 pod name, a delete, an update, a restart, a failed Get, same seconds, late pods | NoOlderPod, GoneLeavesTable, NoOrphanWorker, NoJobUnserved, and the whole implements BusinessWorker (property Spec) |
| Lifecycle | good and bad flags, 1 goroutine of each kind, 2 signals, 2 backups of the log, fairness | LifeTypeOK, OverSyncedCaches, SuccessMeansServed, FailureStartsNoJobs, ModesPending, SignalEndsProcess, GoroutinesServe, ModesSettle |

AgentBuild uses BuildNext, deletes and broken watches are in HcclFirst; AgentBuild
with one broken watch holds too (520,000 states, about three minutes, with
AgentFairSpec and MaxRelists = 1).

Bounds. Two goroutines are enough for every race found here: under `cmMu` a
third one adds only waiters. Two pods for one replica make a table overfull and
allow a replacement. Faults, deletes, broken watches and restarts are counted by
MaxFaults, MaxDeletes, MaxRelists and MaxRestarts; MaxRankIndex stands for 10000.
In WorkerThreads crashes, new workers and replaced pods are unbounded. MaxJobs
and MaxUpdates bound the job side; with two incarnations an old event meets a new
job. In HcclRebuild the pods that leave with their job are not counted by
MaxDeletes. Its one pod name is a pod of either deployment, in time or late: what
its properties forbid takes one pod and two jobs. With two pods, and without the
delete, the update and the restart, it holds too (2.2 million states up to the
symmetry of the pods, about four minutes). NoOlderPod, GoneLeavesTable and Spec
do not depend on how many pods there are (section 4). The two Hccl runs have one
goroutine of each kind, the defaults of the flags. MaxFiles = 2 lets a backup be
renamed, compressed and removed while its first event waits. The theorems of
section 4 remove the bounds for the safety properties.

The runs but WorkerThreads do not check deadlock: when all events are handled and
the bounds are used up, or the process has ended, the system rests.

### Where the code does something else

These runs end in a counterexample (details and quotes in `PROJECT.json`):

| run | property | what happens |
| --- | --- | --- |
| AgentRanks | CompletedRanksDistinct | after a delete the counter is set to the chips left: a replacement pod gets a rank that is in use |
| AgentReplaced | BuildCompletes | a replacement pod's events are dropped while the table is still completed |
| JobRecreated | NoStaleWorker | a job created again at once keeps the old worker |
| JobLate | JobGetsWorker | a late ConfigMap leaves the job without a worker |
| HcclReused | PublishedIsCurrent | a job of a name used before, whose ConfigMap is still there, finds the old job's table completed |
| ShutdownWaits | ShutdownWaits | a signal ends the process while goroutines are at an item |

Other instances, a few constants away from a run above:

| constants | property that then fails | why |
| --- | --- | --- |
| AgentBuild with MaxFaults = 1 | BuildCompletes | an event whose API call fails is answered (true, true) and not retried |
| AgentReplaced with MaxFaults = 1 | - | a delete whose ConfigMap update fails leaves the count one too high: a table is completed one pod short, which CompletedCount allows for each fault |
| AgentRanks with 2 pods, MaxDeletes = 0, MaxRestarts = 1 | CompletedRanksDistinct | after a restart memory hands out rank 0 again |
| HcclFirst with 2 pod goroutines | LeavesWhileJobStays, GoneLeavesTable, GoneLeavesConfigMap | a pod read before its deletion is cached after its delete event was handled |
| HcclFirst, with `spent.relists = 0` dropped from the property | LeavesWhileJobStays | a deletion found by a new list is dropped |
| HcclRebuild with 2 job goroutines | NoOrphanWorker | two events of a job are two queue items: a worker is installed after the delete event |
| HcclRebuild | NoEarlierOwner | a pod of the old job, created in the second of the new one or late, is not before it, and is cached as one of its own; the comment at `agent/deploymentworker.go:39` says the check goes by the uid, too |
| JobParallel, with `~past.lastFailed` dropped from the property | FirstJobHasWorker, JobGetsWorker | one Get fails although the ConfigMap is there, and the event is forgotten |
| HcclRebuild, with `~past.lastFailed` dropped from the property | NoJobUnserved | the same |
| JobParallel for volcano jobs | WorkerNotReplaced | the volcano job's EventAdd does not look again under the write lock |

Together with the passing runs they draw the line: with one goroutine for each
queue, no failed call, no restart, no replaced pod, a new ConfigMap for each job
and no pod of the job before it in its second or later, the controller does what
it promises.

### Fairness

Only weak fairness is used. Handlers contend for `cmMu` finitely often, since the
events of a run are finitely many, so a waiter needs no strong fairness.
`AgentFairness`: weak for creating the job's pods, their allotment, the watch,
the worker's start, the end of a delay, taking a ready key, and each goroutine.
Delays and keys are fair as a whole, not key by key, which is less than the queue
gives: AgentBuild and HcclFirst hold even so, and the counterexamples end at
rest, with empty queues. `JobFairness`: weak for the informer, for taking an
item and for each goroutine (checkCMCreation has a timeout). `HcclFairness` is
both; a goroutine that waits for the write lock keeps new readers out, as
`sync.RWMutex` does, so it is not starved. `LifeFairness`: main, the goroutine of
the signal handler, the log watcher, and each goroutine that was started;
nothing obliges the user to send a signal, a cache to sync, or an item to come or
end. Deletes, faults, broken watches, restarts and updates need not happen.

## 4. The proofs

`tlapm` checks them for every set of pods and threads, every `Devices`, every
`Snapshots`, any number of replicas, faults, jobs, updates, broken watches,
restarts, signals and log files. Assumptions: the named ASSUMEs of the modules
(types of constants, every pod has a chip, `None` and `Gone` are not values), which
TLC evaluates in the runs; and those that a theorem names itself:

| assumption | what it says, and why it is fair |
| --- | --- |
| SnapshotsCover | Snapshots has at least every snapshot that the pod side makes; the definition AgentSnapshots is one such set |
| RoomForRanks | no more replicas than MaxRankIndex + 1: a rank index above `maxRankIndex`, 10000, is refused by the code when it reads back the one it gave (`agent/vcjobworker.go:231`) |
| SameChips, JSONVersion = "v2" | rank ids are contiguous only if all pods have as many chips (the code multiplies, `ranktable/v2/ranktable.go:58`), and only v2 sorts |
| OneGoroutine, OneThread, Thread = {t0} | one job goroutine, one pod goroutine: the defaults of `jobParallelism` and `podParallelism` (`main.go:152,154`); NoOrphanWorker, LeavesWhileJobStays and its safety side fail with two |
| ConfigMapFirst | the ConfigMap is there when the job comes; JobLate is what happens otherwise. A Get of it may still fail, any number of times: the properties themselves leave out a job for which the last one did |
| MaxRelists = 0, and `spent.relists = 0` in GoneLeavesTable | no broken watch: after one a deletion arrives as DeletedFinalStateUnknown, which the code drops, so the worker, or the pod, stays; where both sides run the bound counts the watches of pods and jobs together |
| WorkerKind # "vcjob" | a deployment or a k8s job; WorkerNotReplaced fails for volcano jobs |

| theorem | statement |
| --- | --- |
| TypeCorrect, PodsDistinct, CountDriftBounded, CompletedTableCount, CompletedTableSorted, Invariance | Spec => [] of TypeOK, DistinctPods, CountDrift, CompletedCount, CompletedSorted, IInv |
| CompletedTableFrozen | Thread = {t0}: Spec => FrozenWhenCompleted |
| Refinement | Spec => ImplementsAtomic |
| AgentImplementsWorker, AgentTypeCorrect | SnapshotsCover: AgentSpec => Spec, []AgentTypeOK |
| NoEventLost | SnapshotsCover, RoomForRanks: AgentSpec => []SettledIsServed |
| FirstRanks | SnapshotsCover, SameChips, v2: AgentSpec => []FirstBuildRanks |
| JobTypeCorrect | JobSpec => []JobTypeOK |
| WorkerKept | not volcano jobs: JobSpec => WorkerNotReplaced |
| FirstJobKeepsWorker | ConfigMapFirst: JobSpec => []FirstJobHasWorker |
| EveryJobServed | ConfigMapFirst, OneGoroutine: JobSpec => []NoJobUnserved |
| NoWorkerOrphaned | MaxRelists = 0, OneGoroutine: JobSpec => []NoOrphanWorker |
| Composition, ControllerIsAtomic, HcclAgentTypes, OlderPodsStayOut | SnapshotsCover: HcclSpec => Spec, ImplementsAtomic, [] of DistinctPods, CompletedCount, CompletedSorted, AgentTypeOK, NoOlderPod |
| ControllerFreezesTable | SnapshotsCover, Thread = {t0}: HcclSpec => FrozenWhenCompleted |
| JobSideKept, HcclJobsServed, HcclNoOrphan | HcclSpec => JobSpec of the job side; with the assumptions above, []NoJobUnserved, []NoOrphanWorker |
| GoneIsOut | SnapshotsCover, OneThread: HcclSpec => []GoneLeavesTable |
| GoneIsWithdrawn | SnapshotsCover, OneThread, ConfigMapFirst, not volcano jobs: HcclSpec => []GoneLeavesConfigMap |
| LifeTypeCorrect, NoUnsyncedCache, SuccessIsHonest, FailureIsClean, NoModeForgotten | LifeSpec => [] of LifeTypeOK, OverSyncedCaches, SuccessMeansServed, FailureStartsNoJobs, ModesPending |

**The worker.** None of its properties is inductive. CompletedCount speaks of the
published table, a copy made at the end of a handler; so the invariant must say
what a handler that is about to publish can rely on (PublishInv: status, count and
order as it left them), which holds because nobody else changes them: MutexInv, a
thread between Lock and Unlock is the one in `cmMu`. That the status is also
written outside `cmMu` (job without replicas) is harmless because of ZeroInv: such
a worker never has an entry. CountInv ties count and table, with the delete under
way (Leaving) and the failed deletes (faults) as the slack. BorrowInv says that
the rank a handler has put into `rankIndex` is its pod's. IInv is their
conjunction, is checked by WorkerThreads, and `BusinessWorkerProofs` has one lemma
per action. `RankTableProofs` has the facts about the table operators (sorting
permutes, appending and removing keep pods distinct, GetPodNum is a number). For
CompletedTableFrozen, TestHolds is added: a lone goroutine's status test still
holds when it caches; with two goroutines it does not.

**The refinement.** In a state of IInv the pending handler and the next rank can
be told from the owner of `cmMu` alone (OwnerView), so a step of any other thread
is invisible; each step of the owner is one of the atomic worker or invisible.
Sorting and the order that RemovePodInfo leaves vanish because the map takes the
range of the list.

**A build.** SettledIsServed says what is true at rest, so its invariant has to
say, of every pod and at every moment, what will still bring it into the table:
while no pod goes away, a pod is in the table, or a version of it is still to be
told, or its key waits, is ready, or is held by a goroutine that is bound to cache
it (BuildInv: StayInv and its companions; ToldInv says what informer and keys
still owe a pod). A completed table then has all the pods, because its count is
theirs (CompletedCount) and it has no pod twice. Requeueing, restarts and new
lists keep that; deletes and failed calls do not, which is why the property leaves
them out. For FirstBuildRanks, RangeInv says that in a first build the ranks in use
are the numbers below `rankIndex` except the one a handler holds, and RanksInv
that the published table has them in order (`OrderedIsIdentity` and `RanksFollow`
in `RankTableProofs`: increasing numbers below n, n of them, are 0 ... n - 1).

**The composition.** A handler runs only on a thread that has entered the worker
under the read lock (Entered), so the write lock makes a new worker a NewWorker
step; what a thread holds of a pod is a version (Typed), so the snapshot it hands
out is one of Snapshots; a job that is installed is a job (JobTypeOK, shown by
`JobControllerProofs`, of which every step of the composition is a step or a
stutter). With that, HcclSpec => Spec, and every theorem about the worker,
the refinement included, holds of the whole controller. NoOlderPod says what the
code's test can achieve: no pod of an earlier volcano job (uid), and of the other
kinds no pod created in an earlier second; that such a pod is the job's own is not
true (NoEarlierOwner fails). It needs more (OwnerInv): owners of a name only grow,
a pod is not created before its own job, what watch, store and threads
hold of a pod is of its last owner or an earlier one, a name that is not used
again has one creationTimestamp in all its versions, and a pod that is being added
passed the test of the worker's own job; the write lock keeps that worker there
until the handler ends.

The other way round, the job side's variables see in the composition only job
steps or stutters (JobSideKept), so its theorems carry over.

**Pods that are gone.** GoneLeavesTable speaks of rest, too: when the events are
handled, a pod that was deleted is in no worker's table. Its invariant, GoneInv, is
about every moment: a pod that is in the table, or that a handler is about to put
there, is one the informer's store has, or its delete event is still due (it
waits, is ready, or is at a goroutine). A handler reads the store before it takes
a lock, so with two goroutines the delete event can be handled between the read
and the caching; with one it cannot, and OneThread is used nowhere else. ToldGone
says that the last notification of a pod is its deletion exactly if it is gone, so
at rest the store has the pods that are there. A worker that goes away or a
restart empties the table, which keeps GoneInv. GoneLeavesConfigMap adds the
published table: PublishedInv says that the first job's ConfigMap lists nothing
but what the table has and the one pod a delete handler has taken out and not
published yet. That needs Held (no worker is taken from under a handler) and what
FirstInv says of the job side: while the first job stays nobody deletes its worker.

**The job side.** The types are not inductive by themselves: a deletion must
follow a job, or a delete event would have none; WatchInv says so of what the
informer is still to be told. NoOrphanWorker and NoJobUnserved speak of rest
again. OrphanInv: once the informer holds no job, a delete event is the last in
the queue, or the one at work, until the worker is gone; with one goroutine
nothing overtakes it, and a second one can be late with an add event, which is the
counterexample. ServedInv: a job that the informer holds has a worker, or an event
other than a delete is the last in the queue or at work, or the job's deletion is
on its way to the informer, or no Get has succeeded since one failed (lastFailed,
which LastFailedStays says only a Get that succeeds takes back). FirstInv is the same for the first job alone, where
there is no earlier job's event to be overtaken, so it needs no order and holds
with any number of goroutines.

**Start and end.** LifeInv records what main has been through: the caches it
waited for, the goroutines it started, the signal it needed to come to its end.
LogInv is about the files: one that appeared under the watch and has not its mode
is owed it by an event or by the chmod under way (Owed), unless its chmod failed.
A chmod goes by name, so a rename in between must leave an event of the new name
behind.

Only model-checked is liveness, which is out of the prover's reach, as is
ENABLED: BuildCompletes, HandlerTerminates, JobGetsWorker, FirstJobServed,
LeavesWhileJobStays, SignalEndsProcess, GoroutinesServe, ModesSettle. Every other
property of the passing runs is stated by a theorem. SettledIsServed, NoJobUnserved,
GoneLeavesTable, GoneLeavesConfigMap and ModesPending are the safety side of four
of them (BuildCompletes, JobGetsWorker, LeavesWhileJobStays, ModesSettle): where
the system rests, the promise is kept; that it comes to rest is left to TLC.

## 5. Not modelled

* The statistic reporter: `displayStatistic` is the constant false, so neither
  Statistic nor CloseStatistic is called.
* hwlog's helpers that format and print a message, and its checks of paths.
* The kubeconfig: whether a client can be built is a choice of the model.
* preCheck of a queue key (nameGenerationFunc makes all keys), the text that
  GenerateGrouplist lists for v1, the event broadcaster (it only logs).
* A deployment and a job of the same namespace and name: the code has one map for
  both, and nothing in the repository says whether names may be shared.
* Build and deployment files.

## 6. Left to do

SettledIsServed for the composition, where the worker comes from a job and pods
are collected.
