------------------------------ MODULE SeatPool ------------------------------
(***************************************************************************)
(* What an employee quota promises, whatever requests run at once: a seat  *)
(* is taken one at a time, and only below the largest quota the company    *)
(* was ever given.                                                         *)
(***************************************************************************)
EXTENDS Naturals

CONSTANTS Companies, None

VARIABLES used,    \* seats taken in each company
          limit    \* the largest quota so far, None for unlimited

Init ==
  /\ used = [c \in Companies |-> 0]
  /\ limit \in [Companies -> Nat \cup {None}]

Take(c) ==
  /\ limit[c] # None => used[c] < limit[c]
  /\ used' = [used EXCEPT ![c] = @ + 1]
  /\ UNCHANGED limit

Free(c) ==
  /\ used[c] > 0
  /\ used' = [used EXCEPT ![c] = @ - 1]
  /\ UNCHANGED limit

Raise(c) ==
  /\ limit[c] # None
  /\ limit'[c] = None \/ (limit'[c] \in Nat /\ limit'[c] > limit[c])
  /\ limit' = [limit EXCEPT ![c] = limit'[c]]
  /\ UNCHANGED used

Next == \E c \in Companies : Take(c) \/ Free(c) \/ Raise(c)

Spec == Init /\ [][Next]_<<used, limit>>
=============================================================================
