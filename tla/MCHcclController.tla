-------------------------- MODULE MCHcclController --------------------------
(***************************************************************************)
(* Values for the constants of HcclController.                             *)
(***************************************************************************)
EXTENDS HcclController, TLC

CONSTANTS p1, p2, p3, t1, t2, g1

OneChip == [p \in Pod |-> 1]

\* Every snapshot the agent can make, for the implementation property.
AgentSnapshots ==
    { SnapshotOf(p, [rank |-> r, device |-> "valid", job |-> j], c, w) :
        p \in Pod, r \in {None} \cup 0 .. 2,
        j \in 1 .. MaxJobs, c \in 1 .. MaxJobs, w \in 1 .. MaxJobs }

Symmetry == Permutations(Pod)
=============================================================================
