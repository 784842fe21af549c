---------------------------- MODULE StockPricing ----------------------------
(***************************************************************************)
(* How a restock reaches the price list: the restock finalizers of         *)
(* inventory store their lines in available_stock, read the totals back    *)
(* and each start a goroutine that sends them to pricing, which computes   *)
(* and stores a price sku by sku.  Fulfilment models when a finalizer      *)
(* runs; here finalizers of several manifests overlap, while reservations  *)
(* take stock.                                                             *)
(***************************************************************************)
EXTENDS Integers, FiniteSets

CONSTANTS
    Skus,       \* stock keeping units
    Manifests,  \* restock orders that are finalized, each once
    Units,      \* Units[m][s]: quantity of s in manifest m, 0 if it has no such line
    Cost,       \* Cost[m][s]: unit cost of s in manifest m
    Nobody,     \* "no manifest has stored this sku"
    MaxSold,    \* bound: units reserved of one sku
    Faults      \* the kinds of failure that may happen

FaultKinds ==
    {"statement",  \* a statement of inventory or pricing fails
     "push",       \* UpdateStockMetrics does not arrive or runs out of time
     "crash"}      \* inventory dies

ASSUME ManifestsAssumption ==
    /\ Units \in [Manifests -> [Skus -> Nat]]
    /\ Cost \in [Manifests -> [Skus -> Nat \ {0}]]
    /\ Nobody \notin Manifests
ASSUME SoldAssumption == MaxSold \in Nat
ASSUME PricingFaultsAssumption == Faults \subseteq FaultKinds

VARIABLES
    \* inventory
    quantity,   \* quantity[s]: available_stock.quantity, 0 without a row
    unitCost,   \* unitCost[s]: available_stock.unit_cost, 0 without a row
    at,         \* at[m]: "new", "storing", or "over": the finalizer of m
    todo,       \* todo[m]: lines of m still to be stored
    stored,     \* stored[m]: lines of m that were stored
    metric,     \* metric[m][s]: the total of s that was read back for m
    sending,    \* sending[m]: skus of m that pricing has not dealt with
    \* pricing
    price,      \* price[s]: catalog.unit_price, Unpriced without a row
    \* history
    last,       \* last[s]: the manifest that stored s last
    shared,     \* shared[m]: another manifest was under way when m was
    failed,     \* failed[m]: reading back or pricing for m failed, or m was cut off
    sold,       \* sold[s]: units reserved so far
    since       \* since[s]: units reserved since a total of s was last read back

finalizers == <<at, todo, stored, metric, sending>>
vars == <<quantity, unitCost, finalizers, price, last, shared, failed, sold, since>>

Margins  == {"scarce", "normal", "abundant"}
Unpriced == [cost |-> 0, margin |-> "normal"]
Lines(m) == {s \in Skus : Units[m][s] > 0}

TypeOK ==
    /\ quantity \in [Skus -> Nat]
    /\ unitCost \in [Skus -> Nat]
    /\ at \in [Manifests -> {"new", "storing", "over"}]
    /\ todo \in [Manifests -> SUBSET Skus]
    /\ stored \in [Manifests -> SUBSET Skus]
    /\ metric \in [Manifests -> [Skus -> Nat]]
    /\ sending \in [Manifests -> SUBSET Skus]
    /\ price \in [Skus -> [cost : Nat, margin : Margins]]
    /\ last \in [Skus -> Manifests \cup {Nobody}]
    /\ shared \in [Manifests -> BOOLEAN]
    /\ failed \in [Manifests -> BOOLEAN]
    /\ sold \in [Skus -> 0 .. MaxSold]
    /\ since \in [Skus -> Nat]
    /\ \A s \in Skus : since[s] <= sold[s]

Init ==
    /\ quantity = [s \in Skus |-> 0]
    /\ unitCost = [s \in Skus |-> 0]
    /\ at = [m \in Manifests |-> "new"]
    /\ todo = [m \in Manifests |-> Lines(m)]
    /\ stored = [m \in Manifests |-> {}]
    /\ metric = [m \in Manifests |-> [s \in Skus |-> 0]]
    /\ sending = [m \in Manifests |-> {}]
    /\ price = [s \in Skus |-> Unpriced]
    /\ last = [s \in Skus |-> Nobody]
    /\ shared = [m \in Manifests |-> FALSE]
    /\ failed = [m \in Manifests |-> FALSE]
    /\ sold = [s \in Skus |-> 0]
    /\ since = [s \in Skus |-> 0]

-----------------------------------------------------------------------------
(* The same code with a plausible bug, for the properties to find.         *)

\* The total of this manifest's line instead of the stock's.
OwnUnits(m, s) == Units[m][s]

\* A push that also names lines that could not be stored.
PushAllLines(m) == Lines(m)

\* A read-back that starts no push.
ReadNoPush(m) ==
    /\ at[m] = "storing" /\ todo[m] = {}
    /\ at' = [at EXCEPT ![m] = "over"]
    /\ UNCHANGED <<quantity, unitCost, todo, stored, metric, sending, price,
                   last, shared, failed, sold, since>>

\* A finalizer that leaves the push to another one that is under way.
ReadAndLeave(m) ==
    /\ at[m] = "storing" /\ todo[m] = {}
    /\ at' = [at EXCEPT ![m] = "over"]
    /\ IF \E other \in Manifests \ {m} : at[other] = "storing"
       THEN UNCHANGED <<metric, sending, since>>
       ELSE /\ metric' = [metric EXCEPT ![m] = [s \in Skus |->
                             IF s \in stored[m] THEN quantity[s] ELSE 0]]
            /\ sending' = [sending EXCEPT ![m] = stored[m]]
            /\ since' = [s \in Skus |-> IF s \in stored[m] THEN 0 ELSE since[s]]
    /\ UNCHANGED <<quantity, unitCost, todo, stored, price, last, shared, failed, sold>>

\* Stock that is counted down without a look at the shelf.
ReserveBlindly(s) ==
    /\ sold[s] < MaxSold
    /\ quantity' = [quantity EXCEPT ![s] = @ - 1]
    /\ sold' = [sold EXCEPT ![s] = @ + 1]
    /\ since' = [since EXCEPT ![s] = @ + 1]
    /\ UNCHANGED <<unitCost, finalizers, price, last, shared, failed>>

-----------------------------------------------------------------------------
(* Inventory: finalizeRestock.                                             *)

UnderWay(m) == at[m] = "storing" \/ sending[m] # {}

Begin(m) ==
    /\ at[m] = "new"
    /\ at' = [at EXCEPT ![m] = "storing"]
    /\ shared' = [n \in Manifests |->
                    \/ shared[n]
                    \/ n = m /\ \E other \in Manifests : UnderWay(other)
                    \/ UnderWay(n)]
    /\ UNCHANGED <<quantity, unitCost, todo, stored, metric, sending, price, last, failed, sold, since>>

\* UpsertStock for one line: the quantity is added, the unit cost replaced.
StoreLine(m, s) ==
    /\ at[m] = "storing" /\ s \in todo[m]
    /\ quantity' = [quantity EXCEPT ![s] = @ + Units[m][s]]
    /\ unitCost' = [unitCost EXCEPT ![s] = Cost[m][s]]
    /\ todo' = [todo EXCEPT ![m] = @ \ {s}]
    /\ stored' = [stored EXCEPT ![m] = @ \cup {s}]
    /\ last' = [last EXCEPT ![s] = m]
    /\ UNCHANGED <<at, metric, sending, price, shared, failed, sold, since>>

SkipLine(m, s) ==
    /\ "statement" \in Faults
    /\ at[m] = "storing" /\ s \in todo[m]
    /\ todo' = [todo EXCEPT ![m] = @ \ {s}]
    /\ UNCHANGED <<quantity, unitCost, at, stored, metric, sending, price,
                   last, shared, failed, sold, since>>

\* What a metric says of the quantity: the current total of the sku.
Total(m, s) == quantity[s]

\* Only lines that were stored are pushed.
Pushed(m) == stored[m]

\* GetBatchItems reads the totals in one query, and the push starts on its own.
ReadBack(m) ==
    /\ at[m] = "storing" /\ todo[m] = {}
    /\ at' = [at EXCEPT ![m] = "over"]
    /\ \/ /\ metric' = [metric EXCEPT ![m] = [s \in Skus |->
                            IF s \in Pushed(m) THEN Total(m, s) ELSE 0]]
          /\ sending' = [sending EXCEPT ![m] = Pushed(m)]
          /\ since' = [s \in Skus |-> IF s \in Pushed(m) THEN 0 ELSE since[s]]
          /\ UNCHANGED failed
       \/ /\ "statement" \in Faults /\ stored[m] # {}
          /\ failed' = [failed EXCEPT ![m] = TRUE]
          /\ UNCHANGED <<metric, sending, since>>
    /\ UNCHANGED <<quantity, unitCost, todo, stored, price, last, shared, sold>>

-----------------------------------------------------------------------------
(* Pricing: UpdateStockMetrics, one upsert after the other.                *)

\* pricer.go: the margin is 1.20, plus 0.15 for one to four units, minus 0.10 for
\* more than a hundred.  A price is its cost and its margin.
CalculatePrice(costPrice, currentStock) ==
    [cost   |-> costPrice,
     margin |-> CASE currentStock \in 1 .. 4 -> "scarce"
                  [] currentStock > 100      -> "abundant"
                  [] OTHER                   -> "normal"]

PriceItem(m, s) ==
    /\ s \in sending[m]
    /\ price' = [price EXCEPT ![s] = CalculatePrice(Cost[m][s], metric[m][s])]
    /\ sending' = [sending EXCEPT ![m] = @ \ {s}]
    /\ UNCHANGED <<quantity, unitCost, at, todo, stored, metric, last, shared, failed, sold, since>>

\* A failed upsert is logged and the batch goes on.
SkipItem(m, s) ==
    /\ "statement" \in Faults
    /\ s \in sending[m]
    /\ sending' = [sending EXCEPT ![m] = @ \ {s}]
    /\ failed' = [failed EXCEPT ![m] = TRUE]
    /\ UNCHANGED <<quantity, unitCost, at, todo, stored, metric, price,
                   last, shared, sold, since>>

\* The call fails or exceeds its ten seconds; what is left of it is lost.
DropPush(m) ==
    /\ "push" \in Faults
    /\ sending[m] # {}
    /\ sending' = [sending EXCEPT ![m] = {}]
    /\ failed' = [failed EXCEPT ![m] = TRUE]
    /\ UNCHANGED <<quantity, unitCost, at, todo, stored, metric, price,
                   last, shared, sold, since>>

-----------------------------------------------------------------------------
(* Inventory dies: its finalizers and pushes are gone, and nothing resumes *)
(* them.                                                                   *)

InventoryCrash ==
    /\ "crash" \in Faults
    /\ at' = [m \in Manifests |-> IF at[m] = "storing" THEN "over" ELSE at[m]]
    /\ sending' = [m \in Manifests |-> {}]
    /\ failed' = [m \in Manifests |-> failed[m] \/ UnderWay(m)]
    /\ UNCHANGED <<quantity, unitCost, todo, stored, metric, price, last, shared, sold, since>>

-----------------------------------------------------------------------------
(* ReserveStock of a customer's preview: no price is computed.             *)

Reserve(s) ==
    /\ quantity[s] > 0 /\ sold[s] < MaxSold
    /\ quantity' = [quantity EXCEPT ![s] = @ - 1]
    /\ sold' = [sold EXCEPT ![s] = @ + 1]
    /\ since' = [since EXCEPT ![s] = @ + 1]
    /\ UNCHANGED <<unitCost, finalizers, price, last, shared, failed>>

-----------------------------------------------------------------------------
(* CalculateBill, which reads the prices of a cart in one query.           *)

\* A sku without a row fails the bill, and the order is then completed for 0.
Billable(cart) == \A s \in cart : price[s] # Unpriced

-----------------------------------------------------------------------------
Work(m) ==
    \/ \E s \in Skus : StoreLine(m, s) \/ SkipLine(m, s)
    \/ ReadBack(m)

Send(m) ==
    \/ \E s \in Skus : PriceItem(m, s) \/ SkipItem(m, s)
    \/ DropPush(m)

Next ==
    \/ \E m \in Manifests : Begin(m) \/ Work(m) \/ Send(m)
    \/ \E s \in Skus : Reserve(s)
    \/ InventoryCrash

Spec == Init /\ [][Next]_vars

\* A finalizer and its push goroutine run to their end.
FairSpec == Spec /\ \A m \in Manifests : WF_vars(Work(m)) /\ WF_vars(Send(m))

-----------------------------------------------------------------------------
(* Properties.                                                             *)

Settled(s) == \A m \in Manifests : at[m] = "storing" => s \notin todo[m] \cup stored[m]
Quiescent(s) == Settled(s) /\ \A m \in Manifests : s \notin sending[m]

\* Under partial failures of either service the catalog prices a sku only from a
\* line that really is in stock, at the total that was read back with it.
PricedFromStoredLine ==
    \A s \in Skus : price[s] # Unpriced =>
        \E m \in Manifests :
            /\ s \in stored[m]
            /\ price[s] = CalculatePrice(Cost[m][s], metric[m][s])

\* Unless the last manifest that stored a sku overlapped with another or failed to
\* push, the price of the sku is the one of its latest unit cost and of its total
\* as of that restock, whatever happened to earlier manifests.
PriceFollowsStock ==
    \A s \in Skus :
        Quiescent(s) /\ last[s] # Nobody /\ ~shared[last[s]] /\ ~failed[last[s]] =>
            price[s] = CalculatePrice(unitCost[s], quantity[s] + since[s])

\* m brought s into stock, and still pushes it or failed to.
Pushing(m, s) ==
    /\ s \in stored[m]
    /\ at[m] = "storing" \/ s \in sending[m] \/ failed[m]

\* Stock can be sold before its price is known.  A cart of sold skus has no bill
\* only as long as a restock of one of them is on its way to pricing, or after one
\* failed: no interleaving of finalizers forgets a sku.
BilledUnlessPushing ==
    \A cart \in SUBSET Skus :
        (\A s \in cart : sold[s] > 0) /\ ~Billable(cart) =>
            \E s \in cart, m \in Manifests : Pushing(m, s)

\* Every sku that a manifest brings into stock is priced in the end, or a failure of
\* that very manifest is to blame: pushes of overlapping finalizers do not get lost.
EventuallyPriced ==
    \A m \in Manifests, s \in Skus : s \in stored[m] ~> price[s] # Unpriced \/ failed[m]

\* InventoryService_Guide.txt: "Build pricing stock metrics using current total
\* quantity + latest unit cost".  A finalizer pairs the total with its own unit
\* cost, and pushes arrive in any order.
LatestUnitCost ==
    \A s \in Skus : Quiescent(s) /\ last[s] # Nobody => price[s].cost = unitCost[s]
=============================================================================
