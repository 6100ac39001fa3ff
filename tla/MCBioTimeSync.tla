---------------------------- MODULE MCBioTimeSync ----------------------------
(* Instances of BioTimeSync for TLC. *)
EXTENDS BioTimeSync, TLC

Symmetry == Permutations(Runs)
AskedPeriods == {<<3, 4>>}

(* Bounds: one punch goes wrong, or the server stops once; only the first  *)
(* punch is ever held back; of two pulls at once one is a synchronisation, *)
(* the other one too or a pull of a whole period, all pages are answered   *)
(* and no punch is held back; what follows a lock that failed is not       *)
(* explored.                                                               *)
FewAccidents ==
  /\ Cardinality(skipped \cup late \cup jumped) + Cardinality(stuck) <= 1
  /\ excused = {}
  /\ held \subseteq {2}
  /\ (\A r \in Runs : run[r] # Idle) =>
       /\ \E r \in Runs : Holding(r) \/ run[r].at = "create"
       /\ \A r \in Runs : run[r].kind \notin {"slices", "report"}
       /\ skipped \cup late \cup stuck \cup held = {}
=============================================================================
