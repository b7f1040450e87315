------------------------------ MODULE RankTable ------------------------------
(***************************************************************************)
(* The rank table of one job: the part of hccl.json that lists, for every  *)
(* pod whose chips are known, the pod and the rank ids of its chips        *)
(* (pkg/ring-controller/ranktable/v1 and v2).  The package keeps no lock   *)
(* and starts no goroutine, so it is a set of operators on a server list.  *)
(*                                                                         *)
(* An entry is a v2 Server or a v1 Instance: the pod it came from and the  *)
(* rank index the pod was given.  The k-th chip (k = 0, 1, ...) of a pod   *)
(* with d chips has rank id rank * d + k.  v1 stores no rank ids, so its   *)
(* entries carry None.  Addresses and device names are left out.           *)
(***************************************************************************)
EXTENDS Integers, Sequences, Functions

CONSTANTS
    Pod,            \* the pods that carry the label ring-controller.atlas
    Devices,        \* Devices[p] is the number of chips pod p was allotted
    JSONVersion,    \* the -json flag, "v1" or "v2"
    None            \* "no rank index"

ASSUME DevicesAssumption == Devices \in [Pod -> Nat \ {0}]
ASSUME VersionAssumption == JSONVersion \in {"v1", "v2"}
ASSUME NoneAssumption == None \notin Int

Entry == [pod : Pod, rank : Int \cup {None}]

FirstRankID(e) == e.rank * Devices[e.pod]

RankIDs(e) == { FirstRankID(e) + k : k \in 0 .. Devices[e.pod] - 1 }

Pods(list) == { list[i].pod : i \in DOMAIN list }

NoPodTwice(list) ==
    \A i, j \in DOMAIN list : list[i].pod = list[j].pod => i = j

Sorted(list) ==
    \A i, j \in DOMAIN list : i < j => FirstRankID(list[i]) <= FirstRankID(list[j])

\* sort.Slice is not stable: it may return any sorted permutation.
SortServers(list) ==
    { s \in { [i \in DOMAIN list |-> list[f[i]]] :
                f \in Bijection(DOMAIN list, DOMAIN list) } : Sorted(s) }

-----------------------------------------------------------------------------

Cached(list, p) == p \in Pods(list)

\* v1 appends the instance to the list of its first group.
CachePodInfoV1(list, p) == {Append(list, [pod |-> p, rank |-> None])}

\* Faulty: v2 does not sort.
CachePodInfoUnsorted(list, p, rank) ==
    IF JSONVersion = "v1" THEN CachePodInfoV1(list, p)
    ELSE {Append(list, [pod |-> p, rank |-> rank])}

\* The lists CachePodInfo may leave when it accepts pod p: v2 sorts the
\* servers by rank id.
CachePodInfo(list, p, rank) ==
    IF JSONVersion = "v1" THEN CachePodInfoV1(list, p)
    ELSE SortServers(Append(list, [pod |-> p, rank |-> rank]))

\* The last entry takes the place of the removed one.
RemovePodInfo(list, p) ==
    LET n == Len(list)
    IN  [i \in 1 .. n - 1 |-> IF list[i].pod = p THEN list[n] ELSE list[i]]

\* v1 answers 0; v2 answers the number of servers times the number of chips
\* of the server that happens to be first.
GetPodNum(list) ==
    IF JSONVersion = "v1" \/ list = << >> THEN 0
    ELSE Len(list) * Devices[list[1].pod]
=============================================================================
