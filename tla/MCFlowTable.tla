---------------------------- MODULE MCFlowTable ----------------------------
(* Three flows compete for set 0, whose lru bit exists, and two for set 2,    *)
(* whose bit does not.  Five cycle counts and a timeout of three: both ways   *)
(* of a set can be live at once, and an entry expires, stays expired across   *)
(* the wrap and comes back to life.                                           *)
EXTENDS FlowTable, TLC

CONSTANTS f1, f2, f3, g1, g2

MCFlow == {f1, f2, f3, g1, g2}
MCSetIdx == [f \in MCFlow |-> IF f \in {f1, f2, f3} THEN 0 ELSE 2]
Symmetry == Permutations({f1, f2, f3}) \cup Permutations({g1, g2})
=============================================================================
