--------------------------- MODULE StockPricingInv --------------------------
(***************************************************************************)
(* The inductive invariants behind the safety properties of StockPricing:  *)
(* StockPricingProofs proves them.                                         *)
(***************************************************************************)
EXTENDS StockPricing

\* Where the finalizer of m is bounds what it has done: it stores before it pushes,
\* and it pushes only what it stored.
Staged(m) ==
    /\ at[m] = "new" => stored[m] = {}
    /\ at[m] # "over" => sending[m] = {}
    /\ sending[m] \subseteq stored[m]

StagedInv == \A m \in Manifests : Staged(m)

\* A metric does not change once its finalizer is over, so a price that was
\* computed from it stays explained by it.
PricedBy(m, s) ==
    /\ at[m] = "over" /\ s \in stored[m]
    /\ price[s] = CalculatePrice(Cost[m][s], metric[m][s])

PricedInv == \A s \in Skus : price[s] # Unpriced => \E m \in Manifests : PricedBy(m, s)

\* What was or is in stock came with a manifest, and each manifest of a sku without
\* a price still pushes it or failed to.
UnpricedInv ==
    \A s \in Skus :
        /\ quantity[s] > 0 \/ sold[s] > 0 => \E m \in Manifests : s \in stored[m]
        /\ \A m \in Manifests : s \in stored[m] /\ price[s] = Unpriced => Pushing(m, s)

\* Finalizers that are under way together know of each other.
SharedInv ==
    \A m, n \in Manifests : m # n /\ UnderWay(m) /\ UnderWay(n) => shared[m] /\ shared[n]

\* The last manifest to store s determines its unit cost; whoever else stored s and
\* is not done overlapped with it.
LastInv ==
    \A s \in Skus, m \in Manifests : last[s] = m =>
        /\ s \in stored[m] /\ unitCost[s] = Cost[m][s]
        /\ \A n \in Manifests : n # m /\ UnderWay(n) /\ s \in stored[n] => shared[m]

\* As long as nothing went wrong for it, the total that it pushed is the stock and
\* what was sold of it since, and the price is that or about to be.
Followed(m, s) ==
    /\ metric[m][s] = quantity[s] + since[s]
    /\ s \in sending[m] \/ price[s] = CalculatePrice(Cost[m][s], metric[m][s])

FollowInv ==
    \A s \in Skus, m \in Manifests :
        last[s] = m /\ at[m] = "over" /\ ~shared[m] /\ ~failed[m] => Followed(m, s)

\* The inductive invariant of PriceFollowsStock.
StockInv == StagedInv /\ SharedInv /\ LastInv /\ FollowInv
=============================================================================
