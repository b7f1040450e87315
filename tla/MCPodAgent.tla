----------------------------- MODULE MCPodAgent -----------------------------
(***************************************************************************)
(* Values for the constants of PodAgent.                                   *)
(***************************************************************************)
EXTENDS PodAgent, TLC

CONSTANTS p1, p2, p3, t1, t2

OneChip == [p \in Pod |-> 1]
TwoChips == [p \in Pod |-> 2]

\* Every snapshot the agent can make, for the implementation property.
AgentSnapshots ==
    { SnapshotOf(p, [rank |-> r, device |-> d, job |-> 1], 1, 1) :
        p \in Pod, r \in {None} \cup 0 .. 6, d \in {"absent", "valid"} }

Symmetry == Permutations(Pod) \cup Permutations(Thread)
=============================================================================
