------------------------------ MODULE MCHiring ------------------------------
(* Instances of Hiring, with the employee codes below it, for TLC. *)
EXTENDS Hiring, TLC

Symmetry == Permutations(Employees) \cup Permutations(Codes)
              \cup Permutations(Bids) \cup Permutations(Calls)
              \cup Permutations(Appts)
==============================================================================
