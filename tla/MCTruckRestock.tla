--------------------------- MODULE MCTruckRestock ----------------------------
(***************************************************************************)
(* Small instances of TruckRestock for TLC.                                *)
(***************************************************************************)
EXTENDS TruckRestockInv, TLC

CONSTANTS s1, c1, c2, r1, r2, r3, g1, g2

\* Which robot picks what makes no difference to the properties checked here.
MCNoWork == [o \in Orders |-> {}]

\* Which robot, finalizer slot or customer order is only a name.
TruckSymmetry ==
    Permutations(Metrics \ Orders) \cup Permutations(Robots) \cup Permutations(Slots)
=============================================================================
