--------------------------- MODULE MCPayrollRace ---------------------------
(* Instances of PayrollRace for TLC. *)
EXTENDS PayrollRace, TLC

CONSTANT e1

AllOfOne == [r \in Shorts \cup Longs |-> e1]

Symmetry == Permutations(Calls)

(* Bound: what follows an overlap on the same rows is not explored. *)
NoAccident == mixed = {} /\ tangled = {}

(* Bound: one row is due, a short advance or a long one. *)
OneDue == Init /\ ((\E s \in Shorts : short[s].state = "pending")
                    <=> (\A a \in Longs : long[a] = "stopped"))

OneDueSpec == OneDue /\ [][Next]_vars
=============================================================================
