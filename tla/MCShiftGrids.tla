----------------------------- MODULE MCShiftGrids -----------------------------
(* Instances of ShiftGrids for TLC. *)
EXTENDS ShiftGrids, TLC

CONSTANTS w1, w2, w3, m1, m2, q1, v1

TheWeeks == w1 :> {1} @@ w2 :> {2} @@ w3 :> {3}
TheRank == w1 :> 1 @@ w2 :> 2 @@ w3 :> 3 @@ m1 :> 4 @@ m2 :> 5
TheWants == q1 :> "leave" @@ v1 :> "mission"
TheDays == q1 :> {2} @@ v1 :> {2, 3}

Symmetry == Permutations(Calls)

(* Bounds: one accident, edit of a day or merge under way at a time while  *)
(* there is a request; while there is none, grids deleted and merged again *)
(* at will.                                                                *)
FewAccidents ==
  LET accidents == Cardinality(crossed) + Cardinality(raced) + Cardinality(half)
      merging == {c \in Calls : call[c].at \in {"merge", "append"}}
  IN \/ accidents + Cardinality(edited) + Cardinality(merging) <= 1
     \/ /\ accidents = 0
        /\ \A r \in Requests : state[r] = "none"
        /\ \A g \in Grids, d \in Days : line[g][d].does # "none"
=============================================================================
