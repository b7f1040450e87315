--------------------------- MODULE LifecycleProofs ---------------------------
(***************************************************************************)
(* What Lifecycle promises of the start and the end, for every command     *)
(* line, number of goroutines, signals and log files.                      *)
(***************************************************************************)
EXTENDS Lifecycle, TLAPS

\* Where main is once the caches of the pods, then all caches, are synced.
PodsWaited == main \in {"jobs", "run", "return", "end"}
AllWaited == main \in {"run", "return", "end"}

\* What main has been through holds of what it left behind: the caches it
\* waited for are synced, the goroutines are those it started, a process that
\* failed was starting or got a second signal, one that succeeded printed its
\* version or came to the end of main, which takes a signal.
LifeInv ==
    /\ synced \subseteq Informers
    /\ signals \in Nat
    /\ podThreads \in [ThreadId -> ThreadState]
    /\ jobThreads \in [ThreadId -> ThreadState]
    /\ stopCh => signals > 0
    /\ PodsWaited => "pods" \in synced
    /\ AllWaited => Informers \subseteq synced
    /\ main \in {"return", "end"} => stopCh
    /\ \A t \in ThreadId :
        /\ Exists(podThreads[t]) => PodsWaited
        /\ Exists(jobThreads[t]) => AllWaited
    /\ (status = "1" /\ signals < 2) => ~AllWaited
    /\ status = "0" => params.version \/ main = "end"

USE DEF Alive, At, GoTo, Exit, Exists, PodsWaited, AllWaited, Informers, Running

LEMMA InitLifeInv == LifeInit => LifeInv
BY DEF LifeInit, LifeInv, ThreadState

\* Steps of main before it waits for a cache.
LEMMA StartSteps ==
    ASSUME LifeInv, ParseFlags \/ InitHwLogger \/ CheckParams \/ BuildClient
    PROVE  LifeInv'
<1>1. CASE ParseFlags
  <2>1. /\ main = "parse" /\ main' \in {"parse", "log"}
        /\ status' = status \/ (status' = "0" /\ params.version)
        /\ status' \in {status, "0"}
        /\ UNCHANGED <<params, signals, stopCh, synced, podThreads, jobThreads>>
    BY <1>1 DEF ParseFlags
  <2>. QED  BY <2>1 DEF LifeInv
<1>2. CASE InitHwLogger
  <2>1. /\ main = "log" /\ main' \in {"log", "params"} /\ status' \in {status, "255"}
        /\ UNCHANGED <<params, signals, stopCh, synced, podThreads, jobThreads>>
    BY <1>2 DEF InitHwLogger, procVars
  <2>. QED  BY <2>1 DEF LifeInv
<1>3. CASE CheckParams
  BY <1>3 DEF LifeInv, CheckParams
<1>4. CASE BuildClient
  <2>1. /\ main = "client" /\ main' \in {"client", "pods"} /\ status' \in {status, "1"}
        /\ UNCHANGED <<params, signals, stopCh, synced, podThreads, jobThreads>>
    BY <1>4 DEF BuildClient
  <2>. QED  BY <2>1 DEF LifeInv
<1>. QED  BY <1>1, <1>2, <1>3, <1>4

\* The two waits: only the way out that has the caches synced starts goroutines.
LEMMA WaitSteps ==
    ASSUME LifeInv, NewBusinessAgent \/ Run
    PROVE  LifeInv'
<1>1. CASE NewBusinessAgent
  <2>1. CASE GoTo("jobs")
    <3>1. /\ main' = "jobs" /\ status' = status /\ "pods" \in synced
          /\ podThreads' \in [ThreadId -> ThreadState]
          /\ UNCHANGED <<params, signals, stopCh, synced, jobThreads>>
      BY <1>1, <2>1 DEF LifeInv, NewBusinessAgent, WaitForCacheSync, Start, ThreadState
    <3>. QED  BY <1>1, <3>1 DEF LifeInv, NewBusinessAgent
  <2>2. CASE Exit("1")
    BY <1>1, <2>2 DEF LifeInv, NewBusinessAgent
  <2>. QED  BY <1>1, <2>1, <2>2 DEF NewBusinessAgent, WaitForCacheSync
<1>2. CASE Run
  <2>1. CASE GoTo("run")
    <3>1. /\ main' = "run" /\ status' = status /\ Informers \subseteq synced
          /\ jobThreads' \in [ThreadId -> ThreadState]
          /\ UNCHANGED <<params, signals, stopCh, synced, podThreads>>
      BY <1>2, <2>1 DEF LifeInv, Run, WaitForCacheSync, Start, ThreadState
    <3>. QED  BY <1>2, <3>1 DEF LifeInv, Run
  <2>2. CASE Exit("1")
    BY <1>2, <2>2 DEF LifeInv, Run
  <2>. QED  BY <1>2, <2>1, <2>2 DEF Run, WaitForCacheSync
<1>. QED  BY <1>1, <1>2

\* The end of main.
LEMMA EndSteps ==
    ASSUME LifeInv, RunReturns \/ CloseLog \/ MainReturns
    PROVE  LifeInv'
BY DEF LifeInv, RunReturns, CloseLog, MainReturns

LEMMA SignalSteps ==
    ASSUME LifeInv, Signal \/ FirstSignal \/ SecondSignal
    PROVE  LifeInv'
<1>1. CASE Signal
  BY <1>1 DEF LifeInv, Signal, Handled
<1>2. CASE FirstSignal
  BY <1>2 DEF LifeInv, FirstSignal
<1>3. CASE SecondSignal
  BY <1>3 DEF LifeInv, SecondSignal
<1>. QED  BY <1>1, <1>2, <1>3

LEMMA SyncStep ==
    ASSUME LifeInv, NEW i \in Informers, Sync(i)
    PROVE  LifeInv'
BY DEF LifeInv, Sync

\* A step of a goroutine is one of a goroutine that exists.
LEMMA ThreadSteps ==
    ASSUME LifeInv, NEW t \in ThreadId, PodSteps(t) \/ JobSteps(t)
    PROVE  LifeInv'
<1>1. CASE PodSteps(t)
  <2>1. \A u \in ThreadId : Exists(podThreads'[u]) => Exists(podThreads[u])
    BY <1>1 DEF LifeInv, PodSteps, Begin, Take, Finish
  <2>. QED  BY <1>1, <2>1 DEF LifeInv, PodSteps, Begin, Take, Finish, ThreadState
<1>2. CASE JobSteps(t)
  <2>1. \A u \in ThreadId : Exists(jobThreads'[u]) => Exists(jobThreads[u])
    BY <1>2 DEF LifeInv, JobSteps, Begin, Take, Finish, Drained
  <2>. QED  BY <1>2, <2>1 DEF LifeInv, JobSteps, Begin, Take, Finish, Drained, ThreadState
<1>. QED  BY <1>1, <1>2

\* The log and its watcher touch nothing of the process.
LEMMA QuietSteps ==
    ASSUME LifeInv, UNCHANGED procVars
    PROVE  LifeInv'
BY DEF LifeInv, procVars

LEMMA NextLifeInv == LifeInv /\ [LifeNext]_lifeVars => LifeInv'
<1>. SUFFICES ASSUME LifeInv, [LifeNext]_lifeVars PROVE LifeInv'
  OBVIOUS
<1>1. CASE Main
  BY <1>1, StartSteps, WaitSteps, EndSteps DEF Main
<1>2. CASE Signal \/ FirstSignal \/ SecondSignal
  BY <1>2, SignalSteps
<1>3. CASE \E i \in Informers : Sync(i)
  BY <1>3, SyncStep
<1>4. CASE \E t \in ThreadId : PodSteps(t) \/ JobSteps(t)
  BY <1>4, ThreadSteps
<1>5. CASE UNCHANGED procVars
  BY <1>5, QuietSteps
<1>. QED  BY <1>1, <1>2, <1>3, <1>4, <1>5 DEF LifeNext, LogSteps, lifeVars

-----------------------------------------------------------------------------

LEMMA LifeInvariant == LifeSpec => []LifeInv
<1>. QED  BY InitLifeInv, NextLifeInv, PTL DEF LifeSpec

\* No goroutine looks into a cache that has not been filled.
THEOREM NoUnsyncedCache == LifeSpec => []OverSyncedCaches
<1>1. LifeInv => OverSyncedCaches
  BY DEF LifeInv, OverSyncedCaches
<1>. QED  BY <1>1, LifeInvariant, PTL

\* Success means that the process was asked for its version, or served until a
\* signal came.
THEOREM SuccessIsHonest == LifeSpec => []SuccessMeansServed
<1>1. LifeInv => SuccessMeansServed
  BY DEF LifeInv, SuccessMeansServed
<1>. QED  BY <1>1, LifeInvariant, PTL

\* A process that gives up its start has no goroutine for the jobs.
THEOREM FailureIsClean == LifeSpec => []FailureStartsNoJobs
<1>1. LifeInv => FailureStartsNoJobs
  BY DEF LifeInv, FailureStartsNoJobs
<1>. QED  BY <1>1, LifeInvariant, PTL

-----------------------------------------------------------------------------
(* The log files and their watcher *)

FileState == Mode \cup {"none", "removed"}

\* A file that is there without its mode and appeared under the watch.
Owed(f) == files[f] \in Mode \ {LogModeOf(f)} /\ f \notin excused

\* Where the watcher stands tells which files are owed their mode: none but the
\* first LogFile before the watch, then those whose events it has, and it holds
\* a file only while it watches.  The logger is ready once main is past
\* initHwLogger, and the watcher is started with it.
LogInv ==
    /\ files \in [Name -> FileState]
    /\ rotating \in BOOLEAN /\ (rotating => files[LogFile] = "none" /\ logger # "nil")
    /\ events \in Seq(Name) /\ changing \in Name \cup {None}
    /\ logger \in {"nil", "created", "ready"}
    /\ watcher \in {"off", "started", "watching", "failed", "stopped"}
    /\ status \in {Running, "0", "1", "255", "killed"}
    /\ watcher = "off" <=> logger # "ready"
    /\ main \in {"parse", "log"} <=> logger # "ready"
    /\ changing # None => watcher = "watching"
    /\ \A f \in Name : Owed(f) =>
        \/ watcher = "off" /\ f = LogFile
        \/ watcher = "watching" /\ (f = changing \/ \E i \in DOMAIN events : events[i] = f)
        \/ watcher \in {"failed", "stopped"}

LEMMA Names == LogFile \in Name /\ None \notin Name /\ \A b \in Backup : b \in Name /\ b # LogFile
BY LogAssumption DEF LogFile, None, Name, Backup

LEMMA InitLogInv == LifeInit => LogInv
<1>. SUFFICES ASSUME LifeInit PROVE LogInv
  OBVIOUS
<1>1. PICK m \in {"none", "0640"} : files = [f \in Name |-> IF f = LogFile THEN m ELSE "none"]
  BY DEF LifeInit, LogInit
<1>2. /\ rotating = FALSE /\ logger = "nil" /\ watcher = "off" /\ events = << >>
      /\ changing = None /\ status = Running /\ main = "parse"
  BY DEF LifeInit, LogInit
<1>3. files \in [Name -> FileState] /\ \A f \in Name : ~Owed(f)
  BY <1>1, Names DEF Owed, FileState, Mode, LogModeOf
<1>4. events \in Seq(Name)
  BY <1>2
<1>. QED  BY <1>2, <1>3, <1>4 DEF LogInv

\* What is left in the queue of a watcher is still in it, and what appears is.
LEMMA EventWaits ==
    ASSUME events \in Seq(Name), NEW i \in DOMAIN events
    PROVE  /\ events[i] \in Name /\ events # << >>
           /\ i = 1 => events[i] = Head(events)
           /\ i # 1 => \E k \in DOMAIN Tail(events) : Tail(events)[k] = events[i]
           /\ \A f : \E k \in DOMAIN Append(events, f) : Append(events, f)[k] = events[i]
<1>1. Len(events) \in Nat /\ i \in 1 .. Len(events) /\ DOMAIN events = 1 .. Len(events)
  OBVIOUS
<1>2. events[i] \in Name /\ events # << >>
  OBVIOUS
<1>3. i = 1 => events[i] = Head(events)
  BY <1>2
<1>4. ASSUME i # 1 PROVE \E k \in DOMAIN Tail(events) : Tail(events)[k] = events[i]
  <2>1. i - 1 \in DOMAIN Tail(events) /\ Tail(events)[i - 1] = events[i]
    BY <1>1, <1>2, <1>4
  <2>. QED  BY <2>1
<1>5. ASSUME NEW f
      PROVE  \E k \in DOMAIN Append(events, f) : Append(events, f)[k] = events[i]
  <2>1. i \in DOMAIN Append(events, f) /\ Append(events, f)[i] = events[i]
    BY <1>1
  <2>. QED  BY <2>1
<1>. QED  BY <1>2, <1>3, <1>4, <1>5

\* A file that appears is owed nothing that its event does not stand for, and
\* the others are owed what they were.
LEMMA AppearsKeeps ==
    ASSUME LogInv, NEW f \in Name, Appears(f),
           watcher' = watcher, changing' = changing, files' \in [Name -> FileState],
           \A g \in Name \ {f} : files'[g] \in {files[g], "none"}
    PROVE  /\ events' \in Seq(Name)
           /\ \A g \in Name : Owed(g)' =>
                \/ watcher' = "off" /\ g = LogFile
                \/ watcher' = "watching"
                    /\ (g = changing' \/ \E i \in DOMAIN events' : events'[i] = g)
                \/ watcher' \in {"failed", "stopped"}
<1>1. events \in Seq(Name) /\ watcher \in {"off", "started", "watching", "failed", "stopped"}
  BY DEF LogInv
<1>2. CASE watcher = "watching"
  <2>1. events' = Append(events, f) /\ excused' = excused \ {f}
    BY <1>2 DEF Appears
  <2>2. events' \in Seq(Name)
    BY <1>1, <2>1
  <2>3. \E i \in DOMAIN events' : events'[i] = f
    <3>1. Len(events) \in Nat /\ Len(events') = Len(events) + 1
      BY <1>1, <2>1
    <3>2. Len(events) + 1 \in DOMAIN events' /\ events'[Len(events) + 1] = f
      BY <1>1, <2>1, <3>1
    <3>. QED  BY <3>2
  <2>4. ASSUME NEW g \in Name \ {f}, Owed(g)'
        PROVE  g = changing' \/ \E i \in DOMAIN events' : events'[i] = g
    <3>1. Owed(g)
      BY <2>1, <2>4 DEF Owed, Mode
    <3>2. g = changing \/ \E i \in DOMAIN events : events[i] = g
      BY <1>2, <3>1 DEF LogInv
    <3>. QED  BY <1>1, <2>1, <3>2, EventWaits
  <2>. QED  BY <1>2, <2>2, <2>3, <2>4
<1>3. CASE watcher # "watching"
  <2>1. events' = events /\ excused' = excused \cup {f}
    BY <1>3 DEF Appears
  <2>2. \A g \in Name : Owed(g)' => g # f /\ Owed(g)
    BY <2>1 DEF Owed, Mode
  <2>. QED  BY <1>1, <1>3, <2>1, <2>2 DEF LogInv
<1>. QED  BY <1>2, <1>3

\* The rotation.
LEMMA RotationSteps ==
    ASSUME LogInv, UNCHANGED <<main, status>>,
           \/ OpenNew \/ \E b \in Backup : Rename(b) \/ RemoveBackup(b)
           \/ \E b, c \in Backup : Compress(b, c)
    PROVE  LogInv'
<1>. USE Names
<1>1. CASE OpenNew
  <2>1. /\ Appears(LogFile) /\ files' \in [Name -> FileState] /\ rotating' = FALSE
        /\ UNCHANGED <<logger, watcher, changing>>
        /\ \A g \in Name \ {LogFile} : files'[g] = files[g]
    BY <1>1 DEF OpenNew, LogInv, FileState, Mode
  <2>. QED  BY <2>1, AppearsKeeps DEF LogInv
<1>2. ASSUME NEW b \in Backup, Rename(b) PROVE LogInv'
  <2>1. /\ Appears(b) /\ files' \in [Name -> FileState] /\ rotating' = TRUE
        /\ files'[LogFile] = "none" /\ logger # "nil"
        /\ UNCHANGED <<logger, watcher, changing>>
        /\ \A g \in Name \ {b} : files'[g] \in {files[g], "none"}
    BY <1>2 DEF Rename, LogInv, FileState, Mode
  <2>. QED  BY <2>1, AppearsKeeps DEF LogInv
<1>3. ASSUME NEW b \in Backup, RemoveBackup(b) PROVE LogInv'
  <2>1. /\ files' \in [Name -> FileState] /\ files'[LogFile] = files[LogFile]
        /\ UNCHANGED <<rotating, excused, logger, watcher, events, changing>>
    BY <1>3 DEF RemoveBackup, LogInv, FileState, Mode
  <2>2. \A g \in Name : Owed(g)' => Owed(g)
    BY <1>3, <2>1 DEF RemoveBackup, LogInv, Owed, Mode
  <2>. QED  BY <2>1, <2>2 DEF LogInv
<1>4. ASSUME NEW b \in Backup, NEW c \in Backup, Compress(b, c) PROVE LogInv'
  <2>1. /\ Appears(c) /\ files' \in [Name -> FileState]
        /\ files'[LogFile] = files[LogFile]
        /\ UNCHANGED <<rotating, logger, watcher, changing>>
        /\ \A g \in Name \ {c} : files'[g] = files[g]
    BY <1>4 DEF Compress, LogInv, FileState, Mode
  <2>. QED  BY <2>1, AppearsKeeps DEF LogInv
<1>. QED  BY <1>1, <1>2, <1>3, <1>4

\* The watcher: an event it takes is held until the file has its mode.
LEMMA WatcherSteps ==
    ASSUME LogInv, UNCHANGED <<main, status>>,
           AddWatch \/ TakeEvent \/ ChangeFileMode \/ WatchFails \/ StopWatch
    PROVE  LogInv'
<1>1. CASE AddWatch
  <2>1. \A g \in Name : ~Owed(g)
    BY <1>1 DEF AddWatch, LogInv
  <2>2. \A g \in Name : ~Owed(g)'
    BY <1>1, <2>1 DEF AddWatch, Owed
  <2>. QED  BY <1>1, <2>2 DEF AddWatch, LogInv
<1>2. CASE TakeEvent
  <2>1. events \in Seq(Name) /\ events # << >> /\ events' = Tail(events)
    BY <1>2 DEF TakeEvent, LogInv
  <2>2. /\ UNCHANGED <<files, rotating, excused, logger, watcher>>
        /\ watcher = "watching" /\ changing = None
        /\ changing' \in {Head(events), None}
        /\ files[Head(events)] \in Mode => changing' = Head(events)
    BY <1>2 DEF TakeEvent
  <2>3. events' \in Seq(Name) /\ Head(events) \in Name
    BY <2>1
  <2>4. ASSUME NEW g \in Name, Owed(g)'
        PROVE  g = changing' \/ \E i \in DOMAIN events' : events'[i] = g
    <3>1. Owed(g)
      BY <2>2, <2>4 DEF Owed
    <3>2. PICK i \in DOMAIN events : events[i] = g
      BY <2>2, <3>1, Names DEF LogInv
    <3>3. CASE i = 1
      <4>1. Head(events) = g
        BY <2>1, <3>2, <3>3
      <4>. QED  BY <2>2, <3>1, <4>1 DEF Owed
    <3>4. CASE i # 1
      BY <2>1, <3>2, <3>4, EventWaits
    <3>. QED  BY <3>3, <3>4
  <2>. QED  BY <2>2, <2>3, <2>4 DEF LogInv
<1>3. CASE ChangeFileMode
  <2>1. /\ changing \in Name /\ changing' = None /\ watcher = "watching"
        /\ UNCHANGED <<rotating, logger, watcher, events>>
    BY <1>3 DEF ChangeFileMode, LogInv
  <2>2. CASE excused' = excused
    <3>1. /\ files' \in [Name -> FileState]
          /\ \A g \in Name \ {changing} : files'[g] = files[g]
          /\ files'[changing] = files[changing] \/ files'[changing] = LogModeOf(changing)
          /\ files[changing] \notin Mode => files'[changing] = files[changing]
          /\ changing \in excused \/ files'[changing] \notin Mode \ {LogModeOf(changing)}
      BY <1>3, <2>1, <2>2 DEF ChangeFileMode, LogInv, LogModeOf, FileState, Mode
    <3>2. rotating => files'[LogFile] = "none"
      BY <2>1, <3>1, Names DEF LogInv, Mode
    <3>3. \A g \in Name : Owed(g)' => Owed(g) /\ g # changing
      BY <2>1, <2>2, <3>1 DEF Owed
    <3>. QED  BY <2>1, <3>1, <3>2, <3>3 DEF LogInv
  <2>3. CASE excused' = excused \cup {changing} /\ UNCHANGED files
    <3>1. \A g \in Name : Owed(g)' => Owed(g) /\ g # changing
      BY <2>3 DEF Owed
    <3>. QED  BY <2>1, <2>3, <3>1 DEF LogInv
  <2>. QED  BY <1>3, <2>2, <2>3 DEF ChangeFileMode
<1>4. CASE WatchFails \/ StopWatch
  <2>1. /\ watcher' \in {"failed", "stopped"} /\ watcher = "watching"
        /\ UNCHANGED <<files, rotating, excused, logger, events, changing>>
        /\ changing = None
    BY <1>4 DEF WatchFails, StopWatch, EndWatch
  <2>. QED  BY <2>1 DEF LogInv
<1>. QED  BY <1>1, <1>2, <1>3, <1>4

\* The start of the log: main goes on only with a logger that is ready.
LEMMA InitLogSteps ==
    ASSUME LogInv, InitHwLogger
    PROVE  LogInv'
<1>1. CASE UNCHANGED logVars /\ Exit("255")
  BY <1>1 DEF LogInv, Owed, logVars
<1>2. CASE CreateLogger /\ UNCHANGED procVars
  <2>1. /\ logger = "nil" /\ logger' = "created" /\ watcher = "off" /\ ~rotating
        /\ UNCHANGED <<rotating, excused, watcher, events, changing, main, status>>
    BY <1>2 DEF CreateLogger, LogInv, procVars
  <2>2. /\ files' \in [Name -> FileState]
        /\ \A g \in Name \ {LogFile} : files'[g] = files[g]
    BY <1>2, Names DEF CreateLogger, LogInv, FileState, Mode
  <2>. QED  BY <2>1, <2>2 DEF LogInv, Owed
<1>3. CASE SetLogMode /\ GoTo("params")
  <2>1. /\ logger' = "ready" /\ watcher = "off" /\ watcher' = "started" /\ ~rotating
        /\ main' = "params" /\ status' = status
        /\ UNCHANGED <<rotating, excused, events, changing>>
    BY <1>3 DEF SetLogMode, LogInv
  <2>2. /\ files' \in [Name -> FileState] /\ files'[LogFile] = "0640"
        /\ \A g \in Name \ {LogFile} : files'[g] = files[g]
    BY <1>3, Names DEF SetLogMode, LogInv, FileState, Mode
  <2>3. \A g \in Name : ~Owed(g)'
    BY <2>1, <2>2 DEF LogInv, Owed, LogModeOf
  <2>. QED  BY <2>1, <2>2, <2>3 DEF LogInv
<1>. QED  BY <1>1, <1>2, <1>3 DEF InitHwLogger

\* Every other step of the process leaves the files alone.
LEMMA ProcessSteps ==
    ASSUME LogInv, UNCHANGED <<files, rotating, excused, logger, watcher, events, changing>>,
           status' \in {Running, "0", "1", "255", "killed"},
           (main' \in {"parse", "log"}) <=> (main \in {"parse", "log"})
    PROVE  LogInv'
BY DEF LogInv, Owed

LEMMA NextLogInv == LifeInv /\ LogInv /\ [LifeNext]_lifeVars => LogInv'
<1>. SUFFICES ASSUME LifeInv, LogInv, [LifeNext]_lifeVars PROVE LogInv'
  OBVIOUS
<1>1. CASE InitHwLogger
  BY <1>1, InitLogSteps
<1>2. CASE CloseLog \/ UNCHANGED lifeVars
  BY <1>2, ProcessSteps DEF CloseLog, lifeVars, logVars, procVars, LogInv
<1>3. CASE \/ ParseFlags \/ CheckParams \/ BuildClient \/ NewBusinessAgent \/ Run
           \/ RunReturns \/ MainReturns
  <2>1. UNCHANGED logVars /\ status' \in {status, "0", "1"}
    BY <1>3 DEF ParseFlags, CheckParams, BuildClient, NewBusinessAgent, Run, RunReturns,
                MainReturns, WaitForCacheSync
  <2>2. (main' \in {"parse", "log"}) <=> (main \in {"parse", "log"})
    BY <1>3 DEF ParseFlags, CheckParams, BuildClient, NewBusinessAgent, Run, RunReturns,
                MainReturns, WaitForCacheSync
  <2>. QED  BY <2>1, <2>2, ProcessSteps DEF logVars, LogInv
<1>4. CASE \/ Signal \/ FirstSignal \/ SecondSignal \/ \E i \in Informers : Sync(i)
           \/ \E t \in ThreadId : PodSteps(t) \/ JobSteps(t)
  <2>1. UNCHANGED logVars /\ main' = main /\ status' \in {status, "1", "killed"}
    BY <1>4 DEF Signal, FirstSignal, SecondSignal, Sync, PodSteps, JobSteps
  <2>. QED  BY <2>1, ProcessSteps DEF logVars, LogInv
<1>5. CASE /\ \/ OpenNew \/ \E b \in Backup : Rename(b) \/ RemoveBackup(b)
              \/ \E b, c \in Backup : Compress(b, c)
           /\ UNCHANGED procVars
  BY <1>5, RotationSteps DEF procVars
<1>6. CASE LogSteps(AddWatch \/ TakeEvent \/ ChangeFileMode \/ WatchFails \/ StopWatch)
  BY <1>6, WatcherSteps DEF LogSteps, procVars
<1>. QED  BY <1>1, <1>2, <1>3, <1>4, <1>5, <1>6 DEF LifeNext, Main, LogSteps

-----------------------------------------------------------------------------

LEMMA LogInvariant == LifeSpec => [](LifeInv /\ LogInv)
<1>. QED  BY InitLifeInv, NextLifeInv, InitLogInv, NextLogInv, PTL DEF LifeSpec

\* Types; and main never gets past initHwLogger without a logger, for any flags
\* and whatever fails there: the first message after it would have nothing to
\* go to.
THEOREM LifeTypeCorrect == LifeSpec => []LifeTypeOK
<1>1. LifeInv /\ LogInv => LifeTypeOK
  BY DEF LifeInv, LogInv, LifeTypeOK, FileState
<1>. QED  BY <1>1, LogInvariant, PTL

\* However rotations, compressions, removals and mode changes interleave, no
\* file that appears under the watch is forgotten before it has its mode.
THEOREM NoModeForgotten == LifeSpec => []ModesPending
<1>1. LogInv => ModesPending
  <2>1. SUFFICES ASSUME LogInv, watcher = "watching", NEW f \in Name,
                        files[f] \in Mode \ {LogModeOf(f)}, f \notin excused
                 PROVE  f = changing \/ \E i \in DOMAIN events : events[i] = f
    BY DEF ModesPending
  <2>2. Owed(f)
    BY <2>1 DEF Owed
  <2>. QED  BY <2>1, <2>2 DEF LogInv
<1>. QED  BY <1>1, LogInvariant, PTL

=============================================================================
