---------------------------- MODULE MCFloorPlan ----------------------------
(* A zone, a table and a code more than there are to begin with.            *)
EXTENDS FloorPlan, TLC

Symmetry == Permutations(Zone) \cup Permutations(Table) \cup Permutations(Code)
              \cup Permutations(Order) \cup Permutations(Slot)
=============================================================================
