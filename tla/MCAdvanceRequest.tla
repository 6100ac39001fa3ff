-------------------------- MODULE MCAdvanceRequest --------------------------
(* Instances of AdvanceRequest for TLC. *)
EXTENDS AdvanceRequest, TLC

OneLimit == [e \in Employees |-> 1]

Symmetry == Permutations(Requests) \cup Permutations(Advances)
              \cup Permutations(Calls)
=============================================================================
