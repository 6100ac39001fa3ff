------------------------------ MODULE LoanBook ------------------------------
(***************************************************************************)
(* What a long advance promises, whatever sheets, links and re-links do:   *)
(* an amount is owed, and what confirmed payroll sheets have collected of  *)
(* it only grows and never exceeds the amount.                             *)
(***************************************************************************)
EXTENDS Naturals

CONSTANT Loans

VARIABLES owed,     \* the whole amount of each loan
          settled   \* what confirmed sheets have collected of it

Init ==
  /\ owed = [a \in Loans |-> 0]
  /\ settled = [a \in Loans |-> 0]

(* HR grants a loan, or rewrites what is owed, never below what was paid. *)
Rewrite(a) ==
  /\ owed'[a] >= settled[a]
  /\ owed' = [owed EXCEPT ![a] = owed'[a]]
  /\ UNCHANGED settled

(* A sheet is confirmed: each of its instalments becomes final. *)
Collect ==
  /\ \A a \in Loans : settled'[a] >= settled[a] /\ settled'[a] <= owed[a]
  /\ UNCHANGED owed

Next == Collect \/ \E a \in Loans : Rewrite(a)

Spec == Init /\ [][Next]_<<owed, settled>>
=============================================================================
