--------------------------- MODULE MCEmployeeCodes ---------------------------
(* Instances of EmployeeCodes for TLC. *)
EXTENDS EmployeeCodes, TLC

Symmetry == Permutations(Employees) \cup Permutations(Codes)
              \cup Permutations(Bids)
==============================================================================
