-------------------------- MODULE MCCustomerOrders --------------------------
(***************************************************************************)
(* Small instances of CustomerOrders for TLC.                              *)
(***************************************************************************)
EXTENDS CustomerOrdersInv, TLC

CONSTANTS c1, c2, r1, r2, g1, g2, k1, k2, x1, x2

MCNoWork == [o \in Orders |-> {}]

\* Which robot, which finalizer slot and which of several requests is only a name.
NameSymmetry ==
    Permutations(Robots) \cup Permutations(Slots)
        \cup Permutations(Confirms) \cup Permutations(Cancels)
=============================================================================
