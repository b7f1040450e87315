----------------------------- MODULE LogWatcher -----------------------------
(***************************************************************************)
(* The log files of hwlog and the goroutine that keeps their modes.        *)
(*                                                                         *)
(* The logger writes to LogFile.  When it is full, lumberjack (external)   *)
(* renames it to a backup, whose name holds the time and is never used     *)
(* again, and opens a new LogFile; backups are compressed or removed at    *)
(* any time.  workerWatcher watches the directory and gives each file that *)
(* appears its mode: LogFileMode to LogFile, BackupLogFileMode to others.  *)
(* What appears before the watch is there it never hears of.               *)
(***************************************************************************)
EXTENDS Integers, Sequences

CONSTANT MaxFiles   \* bound: backups made

ASSUME LogAssumption == MaxFiles \in Nat

LogFile == 0        \* LogFileName

None == -1          \* no file

Backup == 1..MaxFiles   \* the names of the backups, in the order of their times

Name == Backup \cup {LogFile}

Mode == {"0640", "0400", "other"}

VARIABLES
    files,          \* files[f]: its mode, "none" before it is made, "removed" after
    rotating,       \* LogFile is renamed, the new one not open yet
    excused,        \* history: files made while nobody watched the directory,
                    \* or whose chmod has failed
    logger,         \* "nil", "created", "ready" (Init has returned)
    watcher,        \* "off", "started", "watching", "failed", "stopped"
    events,         \* Create events not read yet: names, oldest first
    changing,       \* the file changeFileMode has found to exist, or None
    stopLogCh       \* is stopLogCh closed?

logVars == <<files, rotating, excused, logger, watcher, events, changing, stopLogCh>>

\* The mode changeFileMode gives a file.
LogModeOf(f) == IF f = LogFile THEN "0640" ELSE "0400"

\* An earlier process may have left its log.
LogInit ==
    /\ files \in {[f \in Name |-> IF f = LogFile THEN m ELSE "none"] : m \in {"none", "0640"}}
    /\ rotating = FALSE
    /\ excused = {}
    /\ logger = "nil"
    /\ watcher = "off"
    /\ events = <<>>
    /\ changing = None
    /\ stopLogCh = FALSE

-----------------------------------------------------------------------------
(* Init *)

\* The validators of the numbers that are flags: 0 stands for the default.
ValidBackups(n) == n \in 0..30
ValidMaxAge(n) == n = 0 \/ n >= 7

\* The file is created if need be, then the logger.
CreateLogger ==
    /\ logger = "nil"
    /\ logger' = "created"
    /\ files' = [files EXCEPT ![LogFile] = IF @ = "none" THEN "other" ELSE @]
    /\ UNCHANGED <<rotating, excused, watcher, events, changing, stopLogCh>>

\* After the first message, which may have rotated the file.
SetLogMode ==
    /\ logger = "created" /\ ~rotating
    /\ logger' = "ready"
    /\ files' = [files EXCEPT ![LogFile] = "0640"]
    /\ watcher' = "started"
    /\ UNCHANGED <<rotating, excused, events, changing, stopLogCh>>

-----------------------------------------------------------------------------
(* The rotation *)

\* The name of the next backup.
Newest(b) == files[b] = "none" /\ \A c \in Backup : files[c] = "none" => b <= c

\* f appears: an event for those who watch.
Appears(f) ==
    IF watcher = "watching"
    THEN /\ events' = Append(events, f)
         /\ excused' = excused \ {f}
    ELSE /\ excused' = excused \cup {f}
         /\ UNCHANGED events

Rename(b) ==
    /\ logger # "nil" /\ ~rotating
    /\ Newest(b)
    /\ files' = [files EXCEPT ![b] = files[LogFile], ![LogFile] = "none"]
    /\ rotating' = TRUE
    /\ Appears(b)
    /\ UNCHANGED <<logger, watcher, changing, stopLogCh>>

OpenNew ==
    /\ rotating
    /\ \E m \in {"0640", "other"} : files' = [files EXCEPT ![LogFile] = m]
    /\ rotating' = FALSE
    /\ Appears(LogFile)
    /\ UNCHANGED <<logger, watcher, changing, stopLogCh>>

\* The compressed file; the one it is made of is removed later.
Compress(b, c) ==
    /\ logger # "nil"
    /\ files[b] \in Mode /\ Newest(c)
    /\ files' = [files EXCEPT ![c] = files[b]]
    /\ Appears(c)
    /\ UNCHANGED <<rotating, logger, watcher, changing, stopLogCh>>

RemoveBackup(b) ==
    /\ logger # "nil"
    /\ files[b] \in Mode
    /\ files' = [files EXCEPT ![b] = "removed"]
    /\ UNCHANGED <<rotating, excused, logger, watcher, events, changing, stopLogCh>>

-----------------------------------------------------------------------------
(* workerWatcher *)

\* NewWatcher and Add; either may fail, which is only logged.
AddWatch ==
    /\ watcher = "started"
    /\ watcher' \in {"watching", "failed"}
    /\ UNCHANGED <<files, rotating, excused, logger, events, changing, stopLogCh>>

\* The goroutine returns for good at the first error of the watch (an overflow
\* of its queue) ...
EndWatch(how) ==
    /\ watcher = "watching" /\ changing = None
    /\ watcher' = how
    /\ UNCHANGED <<files, rotating, excused, logger, events, changing, stopLogCh>>

WatchFails == EndWatch("failed")

\* ... or when stopLogCh is closed.
StopWatch == stopLogCh /\ EndWatch("stopped")

\* Faulty: of the events that wait only the last is looked at.
TakeLastEvent ==
    /\ watcher = "watching" /\ changing = None /\ events # <<>>
    /\ changing' = events[Len(events)]
    /\ events' = <<>>
    /\ UNCHANGED <<files, rotating, excused, logger, watcher, stopLogCh>>

\* The next Create event; a file that is gone again is left alone.
TakeEvent ==
    /\ watcher = "watching" /\ changing = None /\ events # <<>>
    /\ changing' = IF files[Head(events)] \in Mode THEN Head(events) ELSE None
    /\ events' = Tail(events)
    /\ UNCHANGED <<files, rotating, excused, logger, watcher, stopLogCh>>

\* Chmod, by name: the file may have been renamed or removed since.  It may also
\* fail while the file is there, which is only logged.
ChangeFileMode ==
    /\ changing # None
    /\ \/ /\ files' = [files EXCEPT ![changing] =
                          IF @ \in Mode THEN LogModeOf(changing) ELSE @]
          /\ UNCHANGED excused
       \/ /\ files[changing] \in Mode
          /\ excused' = excused \cup {changing}
          /\ UNCHANGED files
    /\ changing' = None
    /\ UNCHANGED <<rotating, logger, watcher, events, stopLogCh>>

=============================================================================
