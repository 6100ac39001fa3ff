----------------------------- MODULE MCPunchDays -----------------------------
(* Instances of PunchDays for TLC. *)
EXTENDS PunchDays, TLC

(* 16:00 to 01:00, and 10:00 to 19:00. *)
Night == [start |-> 960, end |-> 60, night |-> TRUE, late |-> 240, early |-> 120,
          graceIn |-> 20, graceOut |-> 15, break |-> 60]
Day == [Night EXCEPT !.start = 600, !.end = 1140, !.night = FALSE]
TwoShifts == {Night, Day}

(* The day shift always, and the first day off by a weekly period. *)
TwoAssignments ==
  {[kind |-> "permanent", from |-> 0, to |-> 9, shift |-> Day,
    week |-> [d \in 0 .. 9 |-> NoInfo]],
   [kind |-> "weekly_period", from |-> 1, to |-> 1, shift |-> None,
    week |-> [d \in 0 .. 9 |-> [shift |-> None, mark |-> "off"]]]}

SomeCells == {[shift |-> Night, mark |-> "none"], [shift |-> None, mark |-> "off"],
              [shift |-> None, mark |-> "present"]}

P(d, m, in) == [day |-> d, min |-> m, in |-> in]
SomePunches == {P(1, 400, FALSE), P(1, 970, TRUE), P(2, 50, FALSE),
                P(2, 330, TRUE), P(3, 330, TRUE)}

(* At most two punches and one edited cell; and as the two kinds of rows   *)
(* never meet, a behaviour has rows of one of them.                        *)
Few == /\ Cardinality(punches) <= 2
       /\ Cardinality({d \in Days : roster[d] # None}) <= 1
       /\ \/ \A d \in Days : att[d] = None
          \/ \A d \in Days : ot[d] = None
=============================================================================
