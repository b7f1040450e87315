------------------------------ MODULE Lifecycle ------------------------------
(***************************************************************************)
(* The start and the end of the process: main, with what it calls in       *)
(* order (hwlog.Init, SetupSignalHandler, NewController, Run), the signals *)
(* of the user, the three informers whose caches it waits for, and the     *)
(* goroutines it starts.  What these do with an item is the matter of      *)
(* PodAgent and JobController; here an item is begun and finished.         *)
(***************************************************************************)
EXTENDS LogWatcher

CONSTANTS
    Params,         \* the command lines considered
    ThreadId,       \* ids of goroutines: 1..n
    MaxSignals      \* bound: signals

ASSUME LifecycleAssumption ==
    /\ Params \subseteq [version: BOOLEAN, json: STRING, jobParallelism: Int,
                        podParallelism: Int, maxBackups: Int, maxAge: Int]
    /\ ThreadId \subseteq Nat \ {0}
    /\ MaxSignals \in Nat

VARIABLES
    params,         \* the flags of this process
    main,           \* where main is
    status,         \* Running, or how the process ended
    signals,        \* signals received
    stopCh,         \* is stopCh closed?
    synced,         \* the informers whose caches are synced
    podThreads,     \* podThreads[t]: "none", "started", "idle", "busy", "ended"
    jobThreads,     \* likewise, for the goroutines of Run
    shutDown        \* the work queue of the models is shut down

procVars == <<params, main, status, signals, stopCh, synced, podThreads, jobThreads,
              shutDown>>
lifeVars == <<logVars, procVars>>

Running == "running"

Informers == {"pods", "deployments", "jobs"}

ParamsOK ==
    /\ params.json \in {"v1", "v2"}
    /\ params.jobParallelism > 0

LifeInit ==
    /\ LogInit
    /\ params \in Params
    /\ main = "parse"
    /\ status = Running
    /\ signals = 0
    /\ stopCh = FALSE
    /\ synced = {}
    /\ podThreads = [t \in ThreadId |-> "none"]
    /\ jobThreads = [t \in ThreadId |-> "none"]
    /\ shutDown = FALSE

\* os.Exit, Fatalf, or the end of main: every goroutine ends where it is.
Exit(code) ==
    /\ status' = code
    /\ UNCHANGED <<params, main, signals, stopCh, synced, podThreads, jobThreads, shutDown>>

Alive == status = Running

At(here) == Alive /\ main = here

GoTo(there) ==
    /\ main' = there
    /\ UNCHANGED <<params, status, signals, stopCh, synced>>

-----------------------------------------------------------------------------
(* main *)

ParseFlags ==
    /\ At("parse")
    /\ IF params.version
       THEN Exit("0")
       ELSE GoTo("log") /\ UNCHANGED <<podThreads, jobThreads, shutDown>>
    /\ UNCHANGED logVars

\* Faulty: an error of Init is printed only.
InitErrorPrinted ==
    /\ At("log")
    /\ \/ CreateLogger /\ UNCHANGED procVars
       \/ /\ \/ SetLogMode
             \/ ~ValidBackups(params.maxBackups) /\ UNCHANGED logVars
          /\ GoTo("params")
          /\ UNCHANGED <<podThreads, jobThreads, shutDown>>

\* Also the file may be impossible to make, or its mode to set; whether a start
\* that fails has made the file already makes no difference any more.
InitHwLogger ==
    /\ At("log")
    /\ \/ Exit("255") /\ UNCHANGED logVars
       \/ /\ ValidBackups(params.maxBackups) /\ ValidMaxAge(params.maxAge)
          /\ \/ CreateLogger /\ UNCHANGED procVars
             \/ /\ SetLogMode
                /\ GoTo("params")
                /\ UNCHANGED <<podThreads, jobThreads, shutDown>>

\* podParallelism is not looked at.  From here on signals are handled.
CheckParams ==
    /\ At("params")
    /\ IF ParamsOK
       THEN GoTo("client") /\ UNCHANGED <<podThreads, jobThreads, shutDown>>
       ELSE Exit("1")
    /\ UNCHANGED logVars

\* Building the client may fail; no call to the API server is made.
BuildClient ==
    /\ At("client")
    /\ \/ Exit("1")
       \/ GoTo("pods") /\ UNCHANGED <<podThreads, jobThreads, shutDown>>
    /\ UNCHANGED logVars

\* Faulty: the loop starts at 1.
StartFewer(threads, n) ==
    threads' = [t \in ThreadId |-> IF t < n THEN "started" ELSE threads[t]]

\* The first n of threads, all started by one loop.
Start(threads, n) ==
    threads' = [t \in ThreadId |-> IF t <= n THEN "started" ELSE threads[t]]

\* Faulty: the answer of the wait is ignored.
WaitIgnored(informers, next, failure) ==
    /\ informers \subseteq synced \/ stopCh
    /\ next

\* Faulty: the wait does not end when stopCh is closed.
WaitForever(informers, next, failure) == informers \subseteq synced /\ next

\* WaitForCacheSync: true when they are synced, false when stopCh is closed;
\* any of the two when both hold.
WaitForCacheSync(informers, next, failure) ==
    \/ informers \subseteq synced /\ next
    \/ stopCh /\ failure

\* NewController: the pod informer is started, waited for, then the goroutines
\* of the pods, which may work from now on.
NewBusinessAgent ==
    /\ At("pods")
    /\ WaitForCacheSync({"pods"},
            /\ GoTo("jobs")
            /\ Start(podThreads, params.podParallelism)
            /\ UNCHANGED <<jobThreads, shutDown>>,
            Exit("1"))
    /\ UNCHANGED logVars

\* Faulty: the goroutines are started before the wait.
RunStartsFirst ==
    /\ At("jobs")
    /\ IF jobThreads[1] = "none"
       THEN /\ Start(jobThreads, params.jobParallelism)
            /\ UNCHANGED <<params, main, status, signals, stopCh, synced, podThreads, shutDown>>
       ELSE WaitForCacheSync({"deployments", "jobs"},
                GoTo("run") /\ UNCHANGED <<podThreads, jobThreads, shutDown>>,
                Exit("1"))
    /\ UNCHANGED logVars

Run ==
    /\ At("jobs")
    /\ WaitForCacheSync({"deployments", "jobs"},
            /\ GoTo("run")
            /\ Start(jobThreads, params.jobParallelism)
            /\ UNCHANGED <<podThreads, shutDown>>,
            Exit("1"))
    /\ UNCHANGED logVars

\* Run returns: the queue of the models is shut down, that of the pods is not.
\* Nothing waits for the goroutines.
RunReturns ==
    /\ At("run") /\ stopCh
    /\ shutDown' = TRUE
    /\ GoTo("return")
    /\ UNCHANGED <<podThreads, jobThreads, logVars>>

\* main returns: its deferred close, then the end of the process.
CloseLog ==
    /\ At("return")
    /\ stopLogCh' = TRUE
    /\ GoTo("end")
    /\ UNCHANGED <<podThreads, jobThreads, shutDown, files, rotating, excused, logger,
                   watcher, events, changing>>

MainReturns ==
    /\ At("end")
    /\ Exit("0")
    /\ UNCHANGED logVars

Main ==
    \/ ParseFlags \/ InitHwLogger \/ CheckParams \/ BuildClient
    \/ NewBusinessAgent \/ Run \/ RunReturns \/ CloseLog \/ MainReturns

-----------------------------------------------------------------------------
(* Signals *)

Handled == main \notin {"parse", "log", "params"}

\* Before SetupSignalHandler a signal kills the process.
Signal ==
    /\ Alive /\ signals < MaxSignals
    /\ signals' = signals + 1
    /\ status' = IF Handled THEN status ELSE "killed"
    /\ UNCHANGED <<params, main, stopCh, synced, podThreads, jobThreads, shutDown, logVars>>

\* The goroutine of SetupSignalHandler: the first closes stopCh ...
FirstSignal ==
    /\ Alive /\ Handled /\ signals > 0 /\ ~stopCh
    /\ stopCh' = TRUE
    /\ UNCHANGED <<params, main, status, signals, synced, podThreads, jobThreads, shutDown,
                   logVars>>

\* ... the second exits at once.
SecondSignal ==
    /\ Alive /\ stopCh /\ signals > 1
    /\ Exit("1")
    /\ UNCHANGED logVars

-----------------------------------------------------------------------------
(* Informers and goroutines *)

\* An informer that is started has its cache synced at some time, or never.
Sync(i) ==
    /\ Alive /\ i \notin synced
    /\ main \in (IF i = "pods" THEN {"pods", "jobs", "run"} ELSE {"jobs", "run"})
    /\ synced' = synced \cup {i}
    /\ UNCHANGED <<params, main, status, signals, stopCh, podThreads, jobThreads, shutDown,
                   logVars>>

\* wait.Until looks at stopCh before the first item only.
Begin(threads, t) ==
    /\ threads[t] = "started"
    /\ threads' = [threads EXCEPT ![t] = IF stopCh THEN "ended" ELSE "idle"]

Take(threads, t) ==
    /\ threads[t] = "idle"
    /\ threads' = [threads EXCEPT ![t] = "busy"]

Finish(threads, t) ==
    /\ threads[t] = "busy"
    /\ threads' = [threads EXCEPT ![t] = "idle"]

PodSteps(t) ==
    /\ Alive
    /\ Begin(podThreads, t) \/ Take(podThreads, t) \/ Finish(podThreads, t)
    /\ UNCHANGED <<params, main, status, signals, stopCh, synced, jobThreads, shutDown,
                   logVars>>

\* A queue that is shut down gives what it still has, then ends the goroutine.
Drained(t) ==
    /\ shutDown /\ jobThreads[t] = "idle"
    /\ jobThreads' = [jobThreads EXCEPT ![t] = "ended"]

JobSteps(t) ==
    /\ Alive
    /\ \/ Begin(jobThreads, t) \/ Take(jobThreads, t) \/ Finish(jobThreads, t)
       \/ Drained(t)
    /\ UNCHANGED <<params, main, status, signals, stopCh, synced, podThreads, shutDown,
                   logVars>>

\* The lumberjack logger and its goroutine, and the watcher's goroutine.
LogSteps(A) == Alive /\ A /\ UNCHANGED procVars

LifeNext ==
    \/ Main
    \/ Signal \/ FirstSignal \/ SecondSignal
    \/ \E i \in Informers : Sync(i)
    \/ \E t \in ThreadId : PodSteps(t) \/ JobSteps(t)
    \/ LogSteps(OpenNew)
    \/ \E b \in Backup : LogSteps(Rename(b))
    \/ \E b \in Backup : LogSteps(RemoveBackup(b))
    \/ \E b, c \in Backup : LogSteps(Compress(b, c))
    \/ LogSteps(AddWatch)
    \/ LogSteps(TakeEvent)
    \/ LogSteps(ChangeFileMode)
    \/ LogSteps(WatchFails)
    \/ LogSteps(StopWatch)

LifeSpec == LifeInit /\ [][LifeNext]_lifeVars

\* main, the goroutines and the runtime are scheduled fairly.  Nothing obliges
\* the user to send a signal, an informer to sync, an item to come or to be
\* finished, or a log to be rotated; a rotation that has begun ends.
LifeFairness ==
    /\ WF_lifeVars(Main)
    /\ WF_lifeVars(FirstSignal)
    /\ WF_lifeVars(LogSteps(OpenNew))
    /\ WF_lifeVars(LogSteps(AddWatch \/ TakeEvent \/ ChangeFileMode \/ StopWatch))
    /\ \A t \in ThreadId :
        /\ WF_lifeVars(podThreads[t] = "started" /\ PodSteps(t))
        /\ WF_lifeVars(jobThreads[t] = "started" /\ JobSteps(t))

LifeFairSpec == LifeSpec /\ LifeFairness

-----------------------------------------------------------------------------
(* Properties *)

ThreadState == {"none", "started", "idle", "busy", "ended"}

Exists(thread) == thread # "none"

\* It waits for an item or is at one (or a signal came before it began).
Serves(thread) == thread \in {"idle", "busy", "ended"}

\* Each part has the values it may have; and main gets past initHwLogger only
\* with a logger: Fatalf without one prints its message and goes on.
LifeTypeOK ==
    /\ files \in [Name -> Mode \cup {"none", "removed"}]
    /\ events \in Seq(Name) /\ changing \in Name \cup {None}
    /\ status \in {Running, "0", "1", "255", "killed"}
    /\ {podThreads, jobThreads} \subseteq [ThreadId -> ThreadState]
    /\ main \notin {"parse", "log"} => logger = "ready"

\* No goroutine looks into a cache that has not been filled, also when a signal
\* comes while the caches are waited for: a handler would take a job or pod
\* that exists for one that is gone (SyncHandler, doWork).
OverSyncedCaches ==
    \A t \in ThreadId :
        /\ Exists(podThreads[t]) => "pods" \in synced
        /\ Exists(jobThreads[t]) => Informers \subseteq synced

\* A process that ends with success did what was asked of it: it printed its
\* version, or it served, all caches synced, until a signal came.  A signal
\* that ends the start is reported as an error (Fatalf).
SuccessMeansServed ==
    status = "0" => params.version \/ (Informers \subseteq synced /\ signals > 0)

\* A process that gives up its start has not touched what belongs to jobs: with
\* status 1 and goroutines for the jobs, a second signal must have come.
FailureStartsNoJobs ==
    (status = "1" /\ signals < 2) => \A t \in ThreadId : ~Exists(jobThreads[t])

\* A signal ends the process, whatever main waits for: the caches that are
\* never synced, the end of the controller, or nothing yet.
SignalEndsProcess == (signals > 0) ~> (status # Running)

\* With the caches synced and no signal, the goroutines asked for all come to
\* serve: podParallelism for the pods, which may be none (the flag is not
\* checked), jobParallelism, at least one, for the jobs.
GoroutinesServe ==
    \A t \in ThreadId :
        (Informers \subseteq synced /\ signals = 0)
            ~> \/ signals > 0
               \/ /\ t <= params.podParallelism => Serves(podThreads[t])
                  /\ t <= params.jobParallelism => Serves(jobThreads[t])

\* A file that appears under the watch gets its mode in the end (or is renamed
\* or removed first, or its chmod fails, or the watch or the process ends): the
\* event of an older file of the same name, or a chmod that comes late, never
\* leaves it with another one.  What appears before the watch is in place, as at
\* the first message of a process whose log is full already, is not covered.
ModesSettle ==
    \A f \in Name :
        (files[f] \in Mode /\ f \notin excused /\ watcher = "watching")
            ~> \/ files[f] \in {"none", "removed", LogModeOf(f)} \/ f \in excused
               \/ watcher = "failed" \/ ~Alive

\* While it watches, a file that appeared under the watch and has not its mode
\* yet is the one being changed, or its event waits, or its chmod has failed:
\* neither an older event of the name nor a rotation in the middle of a chmod
\* uses it up.
ModesPending ==
    watcher = "watching" =>
        \A f \in Name : files[f] \in Mode \ {LogModeOf(f)} =>
            f \in excused \cup {changing} \/ \E i \in DOMAIN events : events[i] = f

\* What the comment of Run says: when the controller is stopped by a signal it
\* waits for the goroutines to finish the items they are at.
ShutdownWaits ==
    status = "0" => \A t \in ThreadId : "busy" \notin {podThreads[t], jobThreads[t]}

=============================================================================
