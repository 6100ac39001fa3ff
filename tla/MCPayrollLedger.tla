--------------------------- MODULE MCPayrollLedger ---------------------------
(* Small instances of PayrollLedger: the cfgs choose which rows exist. *)
EXTENDS PayrollLedger, TLC

CONSTANTS p1, p2, e1, e2, s1, s2, a1, a2, d1

(* Everything is due on every sheet; s2 may belong to a second employee. *)
MCOwner    == [r \in Rows |-> IF r = s2 /\ e2 \in Employees THEN e2 ELSE e1]
MCAmount   == [s \in Shorts |-> 1]
MCShortDue == Shorts \X Payrolls
MCLongDue  == Longs \X Payrolls
MCDedDue   == Deds \X Payrolls

(* Sheets are interchangeable in these instances, and so are the advances  *)
(* of one employee.                                                        *)
Symmetric == Permutations(Payrolls) \cup Permutations(Longs)
=============================================================================
