--------------------------- MODULE MCReservation ----------------------------
(***************************************************************************)
(* Small instances of Reservation for TLC: three carts over two skus that  *)
(* fit one at a time, in pairs or not at all.                              *)
(***************************************************************************)
EXTENDS Reservation

CONSTANTS a, b, k1, k2, k3

MCWant ==
    [c \in Calls |-> [s \in Skus |->
        CASE c = k1 -> IF s = a THEN 2 ELSE 0
          [] c = k2 -> IF s = a THEN 1 ELSE 2
          [] c = k3 -> IF s = a THEN 2 ELSE 1]]

MCStock == [s \in Skus |-> IF s = a THEN 3 ELSE 1]
=============================================================================
