---------------------------- MODULE MCSeatQuota ----------------------------
(* Small instances of SeatQuota. *)
EXTENDS SeatQuota, TLC

CONSTANTS r, b1, b2, e1, e2, e3, t1, t2

(* r is the root of b1 and b2; e1 works for r if there is no branch b1. *)
MCHome == [e \in Employees |->
             CASE b1 \notin Companies -> r
               [] b2 \notin Companies -> IF e = e1 THEN r ELSE b1
               [] OTHER -> r]
MCParent == [c \in Companies |-> IF c = r THEN None ELSE r]
MCRoot == [c \in Companies |-> r]

(* Caps at the start: one seat everywhere, or two that only the root has. *)
MCTight == {[c \in Companies |-> 1]}
MCShared == {[c \in Companies |-> IF c = r THEN 2 ELSE 0]}

Symmetric == Permutations(Requests)
=============================================================================
