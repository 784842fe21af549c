-------------------------- MODULE StockPricingProofs ------------------------
(***************************************************************************)
(* Proofs about StockPricing, for any skus, manifests and failures: type   *)
(* correctness, where prices come from, and that the price follows the     *)
(* stock where restocks do not overlap.                                    *)
(***************************************************************************)
EXTENDS StockPricingInv, TLAPS

-----------------------------------------------------------------------------
(* Types.                                                                  *)

\* A price is one of three margins on its cost.
LEMMA PriceType ==
    ASSUME NEW costPrice \in Nat, NEW currentStock \in Nat
    PROVE  CalculatePrice(costPrice, currentStock) \in [cost : Nat, margin : Margins]
BY DEF CalculatePrice, Margins

\* The initial state is well typed.
LEMMA TypeInit == Init => TypeOK
BY SoldAssumption DEF Init, TypeOK, Lines, Unpriced, Margins

\* The finalizers of inventory keep the types.
LEMMA TypeInventory ==
    ASSUME TypeOK, NEW m \in Manifests, Begin(m) \/ Work(m)
    PROVE  TypeOK'
<1>1. CASE Begin(m)
  <2>1. shared' \in [Manifests -> BOOLEAN]
    BY <1>1 DEF Begin, UnderWay, TypeOK
  <2>2. QED
    BY <1>1, <2>1 DEF Begin, TypeOK
<1>2. ASSUME NEW s \in Skus, StoreLine(m, s)
      PROVE  TypeOK'
  <2>1. Units[m][s] \in Nat /\ Cost[m][s] \in Nat
    BY ManifestsAssumption
  <2>2. QED
    BY <1>2, <2>1 DEF StoreLine, TypeOK
<1>3. ASSUME NEW s \in Skus, SkipLine(m, s)
      PROVE  TypeOK'
  BY <1>3 DEF SkipLine, TypeOK
<1>4. CASE ReadBack(m)
  <2> DEFINE totals == [s \in Skus |-> IF s \in Pushed(m) THEN Total(m, s) ELSE 0]
             anew   == [s \in Skus |-> IF s \in Pushed(m) THEN 0 ELSE since[s]]
  <2>1. totals \in [Skus -> Nat]
    BY DEF Total, TypeOK
  <2>2. anew \in [Skus -> Nat] /\ \A s \in Skus : anew[s] <= sold[s]
    <3>1. \A s \in Skus : since[s] \in Nat /\ sold[s] \in Nat /\ since[s] <= sold[s]
      BY SoldAssumption DEF TypeOK
    <3>2. QED
      BY <3>1
  <2>3. Pushed(m) \in SUBSET Skus
    BY DEF Pushed, TypeOK
  <2>4. /\ \/ metric' = [metric EXCEPT ![m] = totals] /\ since' = anew
              /\ sending' = [sending EXCEPT ![m] = Pushed(m)] /\ UNCHANGED failed
           \/ UNCHANGED <<metric, sending, since>> /\ failed' = [failed EXCEPT ![m] = TRUE]
        /\ at' = [at EXCEPT ![m] = "over"]
        /\ UNCHANGED <<quantity, unitCost, todo, stored, price, last, shared, sold>>
    BY <1>4 DEF ReadBack
  <2> HIDE DEF totals, anew
  <2>5. /\ metric' \in [Manifests -> [Skus -> Nat]]
        /\ sending' \in [Manifests -> SUBSET Skus]
        /\ at' \in [Manifests -> {"new", "storing", "over"}]
        /\ failed' \in [Manifests -> BOOLEAN]
    <3>1. /\ metric \in [Manifests -> [Skus -> Nat]]
          /\ sending \in [Manifests -> SUBSET Skus]
          /\ at \in [Manifests -> {"new", "storing", "over"}]
          /\ failed \in [Manifests -> BOOLEAN]
      BY DEF TypeOK
    <3>2. metric' \in [Manifests -> [Skus -> Nat]]
      BY <2>1, <2>4, <3>1
    <3>3. sending' \in [Manifests -> SUBSET Skus]
      BY <2>3, <2>4, <3>1
    <3>4. at' \in [Manifests -> {"new", "storing", "over"}]
      BY <2>4, <3>1
    <3>5. failed' \in [Manifests -> BOOLEAN]
      BY <2>4, <3>1
    <3>6. QED
      BY <3>2, <3>3, <3>4, <3>5
  <2>6. since' \in [Skus -> Nat] /\ \A s \in Skus : since'[s] <= sold'[s]
    BY <2>2, <2>4 DEF TypeOK
  <2>7. /\ quantity' \in [Skus -> Nat] /\ unitCost' \in [Skus -> Nat]
        /\ todo' \in [Manifests -> SUBSET Skus] /\ stored' \in [Manifests -> SUBSET Skus]
        /\ price' \in [Skus -> [cost : Nat, margin : Margins]]
        /\ last' \in [Skus -> Manifests \cup {Nobody}]
        /\ shared' \in [Manifests -> BOOLEAN]
        /\ sold' \in [Skus -> 0 .. MaxSold]
    BY <2>4 DEF TypeOK
  <2>8. QED
    BY <2>5, <2>6, <2>7 DEF TypeOK
<1>5. QED
  BY <1>1, <1>2, <1>3, <1>4 DEF Work

\* Pricing keeps the types.
LEMMA TypePricing ==
    ASSUME TypeOK, NEW m \in Manifests, Send(m)
    PROVE  TypeOK'
<1>1. ASSUME NEW s \in Skus, PriceItem(m, s)
      PROVE  TypeOK'
  <2>1. Cost[m][s] \in Nat /\ metric[m][s] \in Nat
    BY ManifestsAssumption DEF TypeOK
  <2>2. CalculatePrice(Cost[m][s], metric[m][s]) \in [cost : Nat, margin : Margins]
    BY <2>1, PriceType
  <2>3. QED
    BY <1>1, <2>2 DEF PriceItem, TypeOK
<1>2. ASSUME NEW s \in Skus, SkipItem(m, s)
      PROVE  TypeOK'
  BY <1>2 DEF SkipItem, TypeOK
<1>3. CASE DropPush(m)
  BY <1>3 DEF DropPush, TypeOK
<1>4. QED
  BY <1>1, <1>2, <1>3 DEF Send

\* So does every other step.
LEMMA TypeStep == TypeOK /\ [Next]_vars => TypeOK'
<1> SUFFICES ASSUME TypeOK, [Next]_vars
             PROVE  TypeOK'
  OBVIOUS
<1>1. ASSUME NEW s \in Skus, Reserve(s)
      PROVE  TypeOK'
  BY <1>1, SoldAssumption DEF Reserve, finalizers, TypeOK
<1>2. CASE InventoryCrash
  <2>1. failed' \in [Manifests -> BOOLEAN]
    BY <1>2 DEF InventoryCrash, UnderWay, TypeOK
  <2>2. QED
    BY <1>2, <2>1 DEF InventoryCrash, TypeOK
<1>3. CASE UNCHANGED vars
  BY <1>3 DEF vars, finalizers, TypeOK
<1>4. QED
  BY <1>1, <1>2, <1>3, TypeInventory, TypePricing DEF Next

\* Every variable keeps its type: in particular no reservation takes stock below
\* zero, whatever restocks do.
THEOREM TypeCorrect == Spec => []TypeOK
BY TypeInit, TypeStep, PTL DEF Spec

-----------------------------------------------------------------------------
(* Where prices come from.                                                 *)

\* A finalizer stores before it pushes, and pushes what it stored.
LEMMA StagedStep == TypeOK /\ StagedInv /\ [Next]_vars => StagedInv'
<1> SUFFICES ASSUME TypeOK, StagedInv, [Next]_vars
             PROVE  StagedInv'
  OBVIOUS
<1> USE DEF StagedInv, Staged, TypeOK
<1>1. ASSUME NEW m \in Manifests, Begin(m)
      PROVE  StagedInv'
  BY <1>1 DEF Begin
<1>2. ASSUME NEW m \in Manifests, NEW s \in Skus, StoreLine(m, s)
      PROVE  StagedInv'
  BY <1>2 DEF StoreLine
<1>3. ASSUME NEW m \in Manifests, NEW s \in Skus, SkipLine(m, s)
      PROVE  StagedInv'
  BY <1>3 DEF SkipLine
<1>4. ASSUME NEW m \in Manifests, ReadBack(m)
      PROVE  StagedInv'
  BY <1>4 DEF ReadBack, Pushed
<1>5. ASSUME NEW m \in Manifests, Send(m)
      PROVE  StagedInv'
  BY <1>5 DEF Send, PriceItem, SkipItem, DropPush
<1>6. CASE InventoryCrash
  BY <1>6 DEF InventoryCrash
<1>7. CASE UNCHANGED finalizers
  BY <1>7 DEF finalizers
<1>8. QED
  BY <1>1, <1>2, <1>3, <1>4, <1>5, <1>6, <1>7 DEF Next, Work, Reserve, vars

\* A price stays explained by the metric it was computed from.
LEMMA PricedStep == TypeOK /\ StagedInv /\ PricedInv /\ [Next]_vars => PricedInv'
<1> SUFFICES ASSUME TypeOK, StagedInv, PricedInv, [Next]_vars,
                    NEW s \in Skus, price'[s] # Unpriced
             PROVE  \E m \in Manifests : PricedBy(m, s)'
  BY DEF PricedInv
<1>1. ASSUME NEW m \in Manifests, PriceItem(m, s)
      PROVE  PricedBy(m, s)'
  BY <1>1 DEF PriceItem, PricedBy, StagedInv, Staged, TypeOK
<1>2. ASSUME price'[s] = price[s],
             \A m \in Manifests :
                at[m] = "over" => at'[m] = "over" /\ metric'[m] = metric[m] /\ stored'[m] = stored[m]
      PROVE  \E m \in Manifests : PricedBy(m, s)'
  BY <1>2 DEF PricedInv, PricedBy
<1>3. ASSUME NEW m \in Manifests, Begin(m) \/ Work(m)
      PROVE  \E n \in Manifests : PricedBy(n, s)'
  BY <1>2, <1>3 DEF Begin, Work, StoreLine, SkipLine, ReadBack, TypeOK
<1>4. ASSUME NEW m \in Manifests, Send(m), ~PriceItem(m, s)
      PROVE  \E n \in Manifests : PricedBy(n, s)'
  BY <1>2, <1>4 DEF Send, PriceItem, SkipItem, DropPush, TypeOK
<1>5. CASE InventoryCrash \/ (\E t \in Skus : Reserve(t)) \/ UNCHANGED vars
  BY <1>2, <1>5 DEF InventoryCrash, Reserve, finalizers, vars, TypeOK
<1>6. QED
  BY <1>1, <1>3, <1>4, <1>5 DEF Next

\* Whatever fails on the way from a manifest to the catalog, a price is the one of a
\* line that is in stock.
THEOREM PricesExplained == Spec => []PricedFromStoredLine
<1>1. Init => StagedInv /\ PricedInv
  BY DEF Init, StagedInv, Staged, PricedInv
<1>2. PricedInv => PricedFromStoredLine
  BY DEF PricedInv, PricedBy, PricedFromStoredLine
<1>3. QED
  BY <1>1, <1>2, StagedStep, PricedStep, TypeCorrect, PTL DEF Spec

-----------------------------------------------------------------------------
(* What can be billed.                                                     *)

\* Whoever stores a sku prices it or is seen to fail.
LEMMA UnpricedStep == TypeOK /\ UnpricedInv /\ [Next]_vars => UnpricedInv'
<1> SUFFICES ASSUME TypeOK, UnpricedInv, [Next]_vars, NEW s \in Skus
             PROVE  /\ quantity'[s] > 0 \/ sold'[s] > 0 => \E m \in Manifests : s \in stored'[m]
                    /\ \A m \in Manifests : s \in stored'[m] /\ price'[s] = Unpriced => Pushing(m, s)'
  BY DEF UnpricedInv
<1>1. ASSUME \A m \in Manifests : stored'[m] = stored[m],
             quantity'[s] > 0 => quantity[s] > 0,
             sold'[s] > 0 => sold[s] > 0 \/ quantity[s] > 0,
             \/ price'[s] # Unpriced
             \/ /\ price'[s] = price[s]
                /\ \A m \in Manifests : Pushing(m, s) => Pushing(m, s)'
      PROVE  /\ quantity'[s] > 0 \/ sold'[s] > 0 => \E m \in Manifests : s \in stored'[m]
             /\ \A m \in Manifests : s \in stored'[m] /\ price'[s] = Unpriced => Pushing(m, s)'
  BY <1>1 DEF UnpricedInv
<1>2. ASSUME NEW m \in Manifests, Begin(m)
      PROVE  /\ quantity'[s] > 0 \/ sold'[s] > 0 => \E n \in Manifests : s \in stored'[n]
             /\ \A n \in Manifests : s \in stored'[n] /\ price'[s] = Unpriced => Pushing(n, s)'
  BY <1>1, <1>2 DEF Begin, Pushing, TypeOK
<1>3. ASSUME NEW m \in Manifests, NEW t \in Skus, StoreLine(m, t)
      PROVE  /\ quantity'[s] > 0 \/ sold'[s] > 0 => \E n \in Manifests : s \in stored'[n]
             /\ \A n \in Manifests : s \in stored'[n] /\ price'[s] = Unpriced => Pushing(n, s)'
  <2>1. CASE s = t
    <3>1. s \in stored'[m]
      BY <1>3, <2>1 DEF StoreLine, TypeOK
    <3>2. ASSUME NEW n \in Manifests, s \in stored'[n], price'[s] = Unpriced
          PROVE  Pushing(n, s)'
      BY <1>3, <2>1, <3>2 DEF StoreLine, Pushing, UnpricedInv, TypeOK
    <3>3. QED
      BY <3>1, <3>2
  <2>2. CASE s # t
    <3>1. quantity'[s] = quantity[s] /\ sold'[s] = sold[s] /\ price'[s] = price[s]
      BY <1>3, <2>2 DEF StoreLine, TypeOK
    <3>2. ASSUME NEW n \in Manifests
          PROVE  /\ s \in stored'[n] <=> s \in stored[n]
                 /\ Pushing(n, s) => Pushing(n, s)'
      BY <1>3, <2>2 DEF StoreLine, Pushing, TypeOK
    <3>3. QED
      BY <3>1, <3>2 DEF UnpricedInv
  <2>3. QED
    BY <2>1, <2>2
<1>4. ASSUME NEW m \in Manifests, NEW t \in Skus, SkipLine(m, t)
      PROVE  /\ quantity'[s] > 0 \/ sold'[s] > 0 => \E n \in Manifests : s \in stored'[n]
             /\ \A n \in Manifests : s \in stored'[n] /\ price'[s] = Unpriced => Pushing(n, s)'
  BY <1>1, <1>4 DEF SkipLine, Pushing
<1>5. ASSUME NEW m \in Manifests, ReadBack(m)
      PROVE  /\ quantity'[s] > 0 \/ sold'[s] > 0 => \E n \in Manifests : s \in stored'[n]
             /\ \A n \in Manifests : s \in stored'[n] /\ price'[s] = Unpriced => Pushing(n, s)'
  <2>1. ASSUME NEW n \in Manifests, Pushing(n, s)
        PROVE  Pushing(n, s)'
    BY <1>5, <2>1 DEF ReadBack, Pushed, Pushing, TypeOK
  <2>2. QED
    BY <1>1, <1>5, <2>1 DEF ReadBack
<1>6. ASSUME NEW m \in Manifests, NEW t \in Skus, PriceItem(m, t)
      PROVE  /\ quantity'[s] > 0 \/ sold'[s] > 0 => \E n \in Manifests : s \in stored'[n]
             /\ \A n \in Manifests : s \in stored'[n] /\ price'[s] = Unpriced => Pushing(n, s)'
  <2>1. CASE s = t
    <3>1. price'[s] = CalculatePrice(Cost[m][s], metric[m][s])
      BY <1>6, <2>1 DEF PriceItem, TypeOK
    <3>2. price'[s].cost = Cost[m][s] /\ Cost[m][s] # 0
      BY <3>1, ManifestsAssumption DEF CalculatePrice
    <3>3. price'[s] # Unpriced
      BY <3>2 DEF Unpriced
    <3>4. QED
      BY <1>1, <1>6, <3>3 DEF PriceItem
  <2>2. CASE s # t
    <3>1. price'[s] = price[s]
      BY <1>6, <2>2 DEF PriceItem, TypeOK
    <3>2. ASSUME NEW n \in Manifests, Pushing(n, s)
          PROVE  Pushing(n, s)'
      BY <1>6, <2>2, <3>2 DEF PriceItem, Pushing, TypeOK
    <3>3. QED
      BY <1>1, <1>6, <3>1, <3>2 DEF PriceItem
  <2>3. QED
    BY <2>1, <2>2
<1>7. ASSUME NEW m \in Manifests, DropPush(m) \/ \E t \in Skus : SkipItem(m, t)
      PROVE  /\ quantity'[s] > 0 \/ sold'[s] > 0 => \E n \in Manifests : s \in stored'[n]
             /\ \A n \in Manifests : s \in stored'[n] /\ price'[s] = Unpriced => Pushing(n, s)'
  <2>1. ASSUME NEW n \in Manifests, Pushing(n, s)
        PROVE  Pushing(n, s)'
    BY <1>7, <2>1 DEF DropPush, SkipItem, Pushing, TypeOK
  <2>2. QED
    BY <1>1, <1>7, <2>1 DEF DropPush, SkipItem
<1>8. ASSUME NEW t \in Skus, Reserve(t)
      PROVE  /\ quantity'[s] > 0 \/ sold'[s] > 0 => \E n \in Manifests : s \in stored'[n]
             /\ \A n \in Manifests : s \in stored'[n] /\ price'[s] = Unpriced => Pushing(n, s)'
  <2>1. quantity'[s] > 0 => quantity[s] > 0
    BY <1>8 DEF Reserve, TypeOK
  <2>2. sold'[s] > 0 => sold[s] > 0 \/ quantity[s] > 0
    BY <1>8 DEF Reserve, TypeOK
  <2>3. QED
    BY <1>1, <1>8, <2>1, <2>2 DEF Reserve, finalizers, Pushing
<1>9. CASE InventoryCrash
  <2>1. ASSUME NEW n \in Manifests, Pushing(n, s)
        PROVE  Pushing(n, s)'
    BY <1>9, <2>1 DEF InventoryCrash, UnderWay, Pushing, TypeOK
  <2>2. QED
    BY <1>1, <1>9, <2>1 DEF InventoryCrash
<1>10. CASE UNCHANGED vars
  BY <1>1, <1>10 DEF vars, finalizers, Pushing
<1>11. QED
  BY <1>2, <1>3, <1>4, <1>5, <1>6, <1>7, <1>8, <1>9, <1>10 DEF Next, Work, Send

\* A cart of sold skus can be billed unless a restock of one of them is on its way
\* to pricing or failed (CalculateBill after finalizeRestock).
THEOREM BilledInTime == Spec => []BilledUnlessPushing
<1>1. Init => UnpricedInv
  BY DEF Init, UnpricedInv
<1>2. TypeOK /\ UnpricedInv => BilledUnlessPushing
  BY DEF UnpricedInv, BilledUnlessPushing, Billable, TypeOK
<1>3. QED
  BY <1>1, <1>2, TypeCorrect, UnpricedStep, PTL DEF Spec

-----------------------------------------------------------------------------
(* The price follows the stock where restocks do not overlap.              *)

\* Only Begin brings a finalizer under way.
LEMMA UnderWayStep ==
    ASSUME TypeOK, StagedInv, Next, \A m \in Manifests : ~Begin(m)
    PROVE  /\ \A m \in Manifests : UnderWay(m)' => UnderWay(m)
           /\ UNCHANGED shared
<1>1. ASSUME NEW m \in Manifests, Work(m)
      PROVE  /\ \A n \in Manifests : UnderWay(n)' => UnderWay(n)
             /\ UNCHANGED shared
  BY <1>1 DEF Work, StoreLine, SkipLine, ReadBack, UnderWay, StagedInv, Staged, TypeOK
<1>2. ASSUME NEW m \in Manifests, Send(m)
      PROVE  /\ \A n \in Manifests : UnderWay(n)' => UnderWay(n)
             /\ UNCHANGED shared
  BY <1>2 DEF Send, PriceItem, SkipItem, DropPush, UnderWay, TypeOK
<1>3. CASE InventoryCrash \/ \E s \in Skus : Reserve(s)
  BY <1>3 DEF InventoryCrash, Reserve, finalizers, UnderWay, TypeOK
<1>4. QED
  BY <1>1, <1>2, <1>3 DEF Next

\* Finalizers that are under way together know of each other.
LEMMA SharedStep == TypeOK /\ StagedInv /\ SharedInv /\ [Next]_vars => SharedInv'
<1> SUFFICES ASSUME TypeOK, StagedInv, SharedInv, [Next]_vars
             PROVE  SharedInv'
  OBVIOUS
<1>1. ASSUME NEW m \in Manifests, Begin(m)
      PROVE  SharedInv'
  <2>1. \A n \in Manifests : n # m => (UnderWay(n)' <=> UnderWay(n))
    BY <1>1 DEF Begin, UnderWay, TypeOK
  <2>2. \A n \in Manifests : shared[n] \/ UnderWay(n) => shared'[n]
    BY <1>1 DEF Begin
  <2>3. \A n \in Manifests : UnderWay(n) => shared'[m]
    BY <1>1 DEF Begin
  <2>4. QED
    BY <2>1, <2>2, <2>3 DEF SharedInv
<1>2. CASE Next /\ \A m \in Manifests : ~Begin(m)
  BY <1>2, UnderWayStep DEF SharedInv
<1>3. CASE UNCHANGED vars
  BY <1>3 DEF vars, finalizers, SharedInv, UnderWay
<1>4. QED
  BY <1>1, <1>2, <1>3

\* Whoever stored a sku before its last manifest, and is not done, overlaps with it.
LEMMA LastStep == TypeOK /\ StagedInv /\ SharedInv /\ LastInv /\ [Next]_vars => LastInv'
<1> SUFFICES ASSUME TypeOK, StagedInv, SharedInv, LastInv, [Next]_vars
             PROVE  LastInv'
  OBVIOUS
<1>1. ASSUME UNCHANGED <<last, unitCost, stored>>,
             \A m \in Manifests : shared[m] => shared'[m],
             \A n \in Manifests : UnderWay(n)' /\ stored[n] # {} => UnderWay(n)
      PROVE  LastInv'
  BY <1>1 DEF LastInv
<1>2. ASSUME NEW m \in Manifests, Begin(m)
      PROVE  LastInv'
  <2>1. stored[m] = {}
    BY <1>2 DEF Begin, StagedInv, Staged
  <2>2. \A n \in Manifests : n # m => (UnderWay(n)' <=> UnderWay(n))
    BY <1>2 DEF Begin, UnderWay, TypeOK
  <2>3. \A n \in Manifests : shared[n] => shared'[n]
    BY <1>2 DEF Begin
  <2>4. QED
    BY <1>1, <1>2, <2>1, <2>2, <2>3 DEF Begin
<1>3. ASSUME NEW m \in Manifests, NEW s \in Skus, StoreLine(m, s)
      PROVE  LastInv'
  <2>1. /\ last' = [last EXCEPT ![s] = m]
        /\ unitCost' = [unitCost EXCEPT ![s] = Cost[m][s]]
        /\ stored' = [stored EXCEPT ![m] = @ \cup {s}]
        /\ UnderWay(m)
        /\ UNCHANGED <<at, sending, shared>>
    BY <1>3 DEF StoreLine, UnderWay
  <2>2. \A n \in Manifests : UnderWay(n)' <=> UnderWay(n)
    BY <2>1 DEF UnderWay
  <2>3. \A n \in Manifests : n # m /\ UnderWay(n) => shared[m]
    BY <2>1 DEF SharedInv
  <2>4. SUFFICES ASSUME NEW t \in Skus, NEW k \in Manifests, last'[t] = k
                 PROVE  /\ t \in stored'[k] /\ unitCost'[t] = Cost[k][t]
                        /\ \A n \in Manifests : n # k /\ UnderWay(n) /\ t \in stored'[n] => shared[k]
    BY <2>1, <2>2 DEF LastInv
  <2>5. CASE t = s
    BY <2>1, <2>3, <2>4, <2>5 DEF TypeOK
  <2>6. CASE t # s
    BY <2>1, <2>4, <2>6 DEF LastInv, TypeOK
  <2>7. QED
    BY <2>5, <2>6
<1>4. CASE Next /\ (\A m \in Manifests : ~Begin(m))
           /\ \A m \in Manifests, s \in Skus : ~StoreLine(m, s)
  <2>1. UNCHANGED <<last, unitCost, stored>>
    BY <1>4 DEF Next, Work, SkipLine, ReadBack, Send, PriceItem, SkipItem, DropPush,
       Reserve, finalizers, InventoryCrash
  <2>2. QED
    BY <1>1, <1>4, <2>1, UnderWayStep
<1>5. CASE UNCHANGED vars
  BY <1>1, <1>5 DEF vars, finalizers, UnderWay
<1>6. QED
  BY <1>2, <1>3, <1>4, <1>5

\* What the steps of one finalizer leave of the totals and prices that others pushed.
LEMMA FollowFinalizer ==
    ASSUME TypeOK, LastInv, FollowInv, NEW m \in Manifests, Begin(m) \/ Work(m)
    PROVE  FollowInv'
<1> SUFFICES ASSUME NEW t \in Skus, NEW k \in Manifests,
                    last'[t] = k, at'[k] = "over", ~shared'[k], ~failed'[k]
             PROVE  Followed(k, t)'
  BY DEF FollowInv
<1>1. CASE Begin(m)
  <2>1. at[k] = "over" /\ ~shared[k] /\ ~failed[k] /\ last[t] = k
    BY <1>1 DEF Begin, TypeOK
  <2>2. QED
    BY <1>1, <2>1 DEF Begin, FollowInv, Followed
<1>2. ASSUME NEW s \in Skus, StoreLine(m, s)
      PROVE  Followed(k, t)'
  <2>1. t # s
    BY <1>2 DEF StoreLine, TypeOK
  <2>2. last[t] = k /\ quantity'[t] = quantity[t]
    BY <1>2, <2>1 DEF StoreLine, TypeOK
  <2>3. QED
    BY <1>2, <2>2 DEF StoreLine, FollowInv, Followed
<1>3. ASSUME NEW s \in Skus, SkipLine(m, s)
      PROVE  Followed(k, t)'
  BY <1>3 DEF SkipLine, FollowInv, Followed
<1>4. CASE ReadBack(m) /\ k = m
  <2>1. t \in stored[m]
    BY <1>4 DEF ReadBack, LastInv
  <2>2. UNCHANGED quantity /\ quantity[t] \in Nat
    BY <1>4 DEF ReadBack, TypeOK
  <2>3. metric'[m][t] = quantity[t] /\ since'[t] = 0 /\ t \in sending'[m]
    BY <1>4, <2>1 DEF ReadBack, Pushed, Total, TypeOK
  <2>4. QED
    BY <1>4, <2>2, <2>3 DEF Followed
<1>5. CASE ReadBack(m) /\ k # m
  <2>1. at[k] = "over" /\ last[t] = k /\ ~shared[k] /\ ~failed[k]
    BY <1>5 DEF ReadBack, TypeOK
  <2>2. t \notin stored[m]
    BY <1>5, <2>1 DEF ReadBack, LastInv, UnderWay
  <2>3. /\ metric'[k] = metric[k] /\ sending'[k] = sending[k] /\ since'[t] = since[t]
        /\ UNCHANGED <<quantity, price>>
    BY <1>5, <2>2 DEF ReadBack, Pushed, TypeOK
  <2>4. QED
    BY <2>1, <2>3 DEF FollowInv, Followed
<1>6. QED
  BY <1>1, <1>2, <1>3, <1>4, <1>5 DEF Work

\* What the steps of one push leave of them.
LEMMA FollowPush ==
    ASSUME TypeOK, StagedInv, LastInv, FollowInv, NEW m \in Manifests, Send(m)
    PROVE  FollowInv'
<1> SUFFICES ASSUME NEW t \in Skus, NEW k \in Manifests,
                    last'[t] = k, at'[k] = "over", ~shared'[k], ~failed'[k]
             PROVE  Followed(k, t)'
  BY DEF FollowInv
<1>1. UNCHANGED <<quantity, at, stored, metric, last, shared, since>>
  BY DEF Send, PriceItem, SkipItem, DropPush
<1>2. ~failed[k]
  BY DEF Send, PriceItem, SkipItem, DropPush, TypeOK
<1>3. Followed(k, t)
  BY <1>1, <1>2 DEF FollowInv
<1>4. ASSUME NEW s \in Skus, PriceItem(m, s)
      PROVE  Followed(k, t)'
  <2>1. s \in stored[m] /\ UnderWay(m)
    BY <1>4 DEF PriceItem, StagedInv, Staged, UnderWay
  <2>2. t = s => k = m
    BY <1>1, <2>1 DEF LastInv
  <2>3. /\ price' = [price EXCEPT ![s] = CalculatePrice(Cost[m][s], metric[m][s])]
        /\ sending' = [sending EXCEPT ![m] = @ \ {s}]
    BY <1>4 DEF PriceItem
  <2>4. CASE t = s
    BY <1>1, <1>3, <2>2, <2>3, <2>4 DEF Followed, TypeOK
  <2>5. CASE t # s
    BY <1>1, <1>3, <2>3, <2>5 DEF Followed, TypeOK
  <2>6. QED
    BY <2>4, <2>5
<1>5. CASE (\E s \in Skus : SkipItem(m, s)) \/ DropPush(m)
  <2>1. k # m
    BY <1>5 DEF SkipItem, DropPush, TypeOK
  <2>2. sending'[k] = sending[k] /\ UNCHANGED price
    BY <1>5, <2>1 DEF SkipItem, DropPush, TypeOK
  <2>3. QED
    BY <1>1, <1>3, <2>2 DEF Followed
<1>6. QED
  BY <1>4, <1>5 DEF Send

\* Every step keeps a total that was pushed equal to the stock and what was sold.
LEMMA FollowStep ==
    TypeOK /\ StagedInv /\ LastInv /\ FollowInv /\ [Next]_vars => FollowInv'
<1> SUFFICES ASSUME TypeOK, StagedInv, LastInv, FollowInv, [Next]_vars
             PROVE  FollowInv'
  OBVIOUS
<1>1. ASSUME NEW s \in Skus, Reserve(s)
      PROVE  FollowInv'
  <2>1. \A t \in Skus : /\ quantity[t] \in Nat /\ since[t] \in Nat
                         /\ quantity'[t] + since'[t] = quantity[t] + since[t]
    BY <1>1 DEF Reserve, TypeOK
  <2>2. QED
    BY <1>1, <2>1 DEF Reserve, finalizers, FollowInv, Followed
<1>2. CASE InventoryCrash
  <2>1. ASSUME NEW t \in Skus, NEW k \in Manifests,
               last[t] = k, at'[k] = "over", ~shared[k], ~failed'[k]
        PROVE  Followed(k, t)'
    <3>1. ~failed[k] /\ ~UnderWay(k)
      BY <1>2, <2>1 DEF InventoryCrash
    <3>2. at[k] = "over" /\ sending[k] = {}
      BY <1>2, <2>1, <3>1 DEF InventoryCrash, UnderWay
    <3>3. Followed(k, t)
      BY <2>1, <3>1, <3>2 DEF FollowInv
    <3>4. QED
      BY <1>2, <3>2, <3>3 DEF InventoryCrash, Followed
  <2>2. QED
    BY <1>2, <2>1 DEF InventoryCrash, FollowInv
<1>3. CASE UNCHANGED vars
  BY <1>3 DEF vars, finalizers, FollowInv, Followed
<1>4. QED
  BY <1>1, <1>2, <1>3, FollowFinalizer, FollowPush DEF Next

\* The initial state, in which nothing was stored.
LEMMA StockInit == Init => StockInv
BY ManifestsAssumption
DEF Init, StockInv, StagedInv, Staged, SharedInv, LastInv, FollowInv, UnderWay

\* Why prices follow the stock: StockInv is inductive.
THEOREM StockInvariant == Spec => []StockInv
<1>1. TypeOK /\ StockInv /\ [Next]_vars => StockInv'
  BY StagedStep, SharedStep, LastStep, FollowStep DEF StockInv
<1>2. QED
  BY <1>1, StockInit, TypeCorrect, PTL DEF Spec

\* A restock that overlapped with no other one and whose push did not fail leaves
\* every sku that it was the last to store at its own cost and at the total of then.
THEOREM PricesFollow == Spec => []PriceFollowsStock
<1>1. TypeOK /\ StockInv => PriceFollowsStock
  <2> SUFFICES ASSUME TypeOK, StockInv, NEW s \in Skus, Quiescent(s), last[s] # Nobody,
                      ~shared[last[s]], ~failed[last[s]]
               PROVE  price[s] = CalculatePrice(unitCost[s], quantity[s] + since[s])
    BY DEF PriceFollowsStock
  <2>1. PICK m \in Manifests : m = last[s]
    BY DEF TypeOK
  <2>2. s \in stored[m] /\ unitCost[s] = Cost[m][s]
    BY <2>1 DEF StockInv, LastInv
  <2>3. at[m] = "over" /\ s \notin sending[m]
    BY <2>2 DEF StockInv, StagedInv, Staged, Quiescent, Settled, TypeOK
  <2>4. Followed(m, s)
    BY <2>1, <2>3 DEF StockInv, FollowInv
  <2>5. QED
    BY <2>2, <2>3, <2>4 DEF Followed
<1>2. QED
  BY <1>1, StockInvariant, TypeCorrect, PTL
=============================================================================
