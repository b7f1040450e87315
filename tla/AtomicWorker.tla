---------------------------- MODULE AtomicWorker ----------------------------
(***************************************************************************)
(* What a business worker promises: its handlers take effect one at a      *)
(* time, in a single step up to the publication and in a second step with  *)
(* it, and nothing comes in between.  There are no threads, no lock, no    *)
(* order of the servers and no borrowed rank here.  BusinessWorker         *)
(* implements this module.                                                 *)
(***************************************************************************)
EXTENDS RankTable, FiniteSets

CONSTANTS
    Replicas,       \* the numbers of replicas a job may have
    MaxRankIndex    \* the largest rank a pod may bring with it

VARIABLES
    table,          \* the set of entries of the pods that are cached
    count,          \* the pods counted
    replicas,       \* the count at which the table is complete
    next,           \* the rank of the next pod that brings none
    status,         \* "initializing" or "completed"
    pending,        \* the handler that has yet to publish: none, add, delete
    published       \* status and table as the training processes see them

atomicVars == <<table, count, replicas, next, status, pending, published>>

AtomicInit ==
    /\ table = {} /\ count = 0 /\ next = 0
    /\ replicas \in Replicas
    /\ status = "initializing"
    /\ pending = "none"
    /\ published = [status |-> "initializing", table |-> {}]

\* A pod enters the table, with the rank it brings or with the next one.
Cache(p, own) ==
    LET rank == IF own = None THEN next ELSE own
    IN  /\ pending = "none" /\ replicas # 0
        /\ \A e \in table : e.pod # p
        /\ table' = table \cup
             {[pod |-> p, rank |-> IF JSONVersion = "v1" THEN None ELSE rank]}
        /\ next' = IF own = None THEN next + 1 ELSE next
        /\ count' = count + 1
        /\ IF count' = replicas
           THEN status' = "completed" /\ pending' = "add"
           ELSE UNCHANGED <<status, pending>>
        /\ UNCHANGED <<replicas, published>>

\* The chips in the table, if the table has one kind of pods.
ChipCounts ==
    IF JSONVersion = "v1" \/ table = {} THEN {0}
    ELSE { Cardinality(table) * Devices[e.pod] : e \in table }

\* The table is published, and the counter set from it; or the call fails,
\* with the table published or not.
Publication(done) ==
    IF done
    THEN /\ published' = [status |-> status, table |-> table]
         /\ next' \in ChipCounts
    ELSE /\ published' \in {published, [status |-> status, table |-> table]}
         /\ UNCHANGED next

Complete ==
    /\ pending = "add" /\ pending' = "none"
    /\ \E done \in BOOLEAN : Publication(done)
    /\ UNCHANGED <<table, count, replicas, status>>

\* A pod leaves the table, which is not complete any more.
Remove(p) ==
    /\ pending = "none"
    /\ \E e \in table : e.pod = p /\ table' = table \ {e}
    /\ status' = "initializing"
    /\ pending' = "delete"
    /\ UNCHANGED <<count, replicas, next, published>>

\* The count follows only when the table was published.
Withdraw ==
    /\ pending = "delete" /\ pending' = "none"
    /\ \E done \in BOOLEAN :
         /\ Publication(done)
         /\ count' = IF done THEN count - 1 ELSE count
    /\ UNCHANGED <<table, replicas, status>>

\* A pod that is not in the table is to be removed.
Reopen ==
    /\ pending = "none"
    /\ status' = "initializing"
    /\ UNCHANGED <<table, count, replicas, next, pending, published>>

\* A worker without replicas: its empty table is complete from the start.
CompleteEmpty ==
    /\ replicas = 0 /\ table = {} /\ count = 0
    /\ \/ status' = "completed" /\ UNCHANGED <<next, published>>
       \/ UNCHANGED status /\ \E done \in BOOLEAN : Publication(done)
    /\ UNCHANGED <<table, count, replicas, pending>>

\* A new worker, after a crash or for a new job.
Renew ==
    /\ table' = {} /\ count' = 0 /\ next' = 0
    /\ replicas' \in Replicas
    /\ status' \in {"initializing", "completed"}
    /\ pending' = "none"
    /\ UNCHANGED published

\* The ConfigMap is replaced by a new one.
Clear ==
    /\ published' = [status |-> "initializing", table |-> {}]
    /\ UNCHANGED <<table, count, replicas, next, status, pending>>

AtomicNext ==
    \/ \E p \in Pod : \/ \E own \in {None} \cup 0 .. MaxRankIndex : Cache(p, own)
                      \/ Remove(p)
    \/ Complete \/ Withdraw \/ Reopen \/ CompleteEmpty
    \/ Renew \/ Clear

AtomicSpec == AtomicInit /\ [][AtomicNext]_atomicVars
=============================================================================
