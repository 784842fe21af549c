---------------------------- MODULE MCFulfilment ----------------------------
(***************************************************************************)
(* Small instances of Fulfilment for TLC.                                  *)
(***************************************************************************)
EXTENDS FulfilmentInv, TLC

CONSTANTS c1, s1, r1, r2, r3, g1, g2

\* The customer order needs one aisle; the restock order needs the others.
MCWorkFor == [o \in Orders |-> IF o \in Restocks THEN Robots \ {r1} ELSE {r1}]
=============================================================================
