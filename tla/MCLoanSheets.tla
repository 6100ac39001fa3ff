---------------------------- MODULE MCLoanSheets ----------------------------
(* Instances of LoanSheets for TLC. *)
EXTENDS LoanSheets, TLC

Symmetry == Permutations(Advances) \cup Permutations(Rows)
              \cup Permutations(Records) \cup Permutations(Calls)
              \cup Permutations(Manual)

(* Bound: what follows a late write is not explored, and what follows a    *)
(* doubtful send only with one manual batch and without a payroll, which   *)
(* takes one advance.                                                      *)
FewAccidents ==
  LET applied == {a \in Advances : adv[a] = "applied"}
  IN /\ raced = {}
     /\ Cardinality(applied) <= 1
     /\ doubt # {} => /\ Cardinality({b \in Manual : sheet[b] # NoSheet}) <= 1
                     /\ applied = {}
=============================================================================
