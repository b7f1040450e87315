-------------------------- MODULE MCBusinessWorker --------------------------
(***************************************************************************)
(* Values for the constants of BusinessWorker.                             *)
(***************************************************************************)
EXTENDS BusinessWorker, TLC

CONSTANTS p1, p2, p3, t1, t2

MixedChips == [p \in Pod |-> IF p = p1 THEN 2 ELSE 1]

Symmetry == Permutations(Thread)

Ready(p, r) ==
    [pod |-> p, rank |-> r, device |-> "valid", usesChip |-> TRUE,
     owned |-> TRUE, older |-> FALSE, version |-> "current"]

\* Every pod without a rank; one pod also with a rank in range, the other
\* with one out of range, with a device annotation that is not valid or not
\* there, and as a pod of another job.
AnySnapshot ==
    { Ready(p, None) : p \in Pod } \cup
    { Ready(p1, 1), Ready(p2, -1),
      [Ready(p2, None) EXCEPT !.device = "invalid"],
      [Ready(p2, None) EXCEPT !.device = "absent", !.usesChip = FALSE],
      [Ready(p2, None) EXCEPT !.device = "absent"],
      [Ready(p2, None) EXCEPT !.owned = FALSE],
      [Ready(p2, None) EXCEPT !.version = "old"] }
=============================================================================
