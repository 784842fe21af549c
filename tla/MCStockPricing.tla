--------------------------- MODULE MCStockPricing ---------------------------
(***************************************************************************)
(* Small instances of StockPricing for TLC: two manifests that both store  *)
(* both skus, with totals on both sides of the margins' limits (4 | 5 for  *)
(* a, 100 | 101 for b).                                                    *)
(***************************************************************************)
EXTENDS StockPricingInv

CONSTANTS a, b, m1, m2

MCUnits ==
    [m \in Manifests |-> [s \in Skus |->
        IF m = m2 THEN 1 ELSE IF s = a THEN 4 ELSE 100]]

MCCost == [m \in Manifests |-> [s \in Skus |-> IF m = m1 THEN 1 ELSE 2]]
=============================================================================
