----------------------------- MODULE MCLifecycle -----------------------------
(* Instances of Lifecycle. *)
EXTENDS Lifecycle

Command(json, jobs, podThreadsWanted, backups, age) ==
    [version |-> FALSE, json |-> json, jobParallelism |-> jobs,
     podParallelism |-> podThreadsWanted, maxBackups |-> backups, maxAge |-> age]

\* Good ones, the second without goroutines for the pods; then one bad flag each.
Commands ==
    { Command("v2", 1, 1, 30, 0), Command("v1", 1, 0, 0, 7),
      Command("v3", 1, 1, 30, 7), Command("v2", 0, 1, 30, 7), Command("v2", 1, 1, 31, 7),
      Command("v2", 1, 1, -1, 7), Command("v2", 1, 1, 30, 6),
      [Command("v2", 1, 1, 30, 7) EXCEPT !.version = TRUE] }

=============================================================================
