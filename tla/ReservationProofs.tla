-------------------------- MODULE ReservationProofs -------------------------
(***************************************************************************)
(* Proofs about Reservation, for any skus, calls, carts and failures: no   *)
(* interleaving oversells, and a granted call got its whole cart.          *)
(***************************************************************************)
EXTENDS Reservation, Sums

\* What the handler of c was told, set against what really left the shelf for c.
Told(c) ==
    /\ \A s \in Skus : reserved[c][s] <= taken[c][s]
    /\ phase[c] = "new" => taken[c] = Nothing /\ reserved[c] = Nothing

\* A granted call holds its whole cart, although it only compared what it was told;
\* one that gave it back holds nothing.
Whole(c) ==
    /\ phase[c] \in {"reserved", "dropped"} => taken[c] = Want[c]
    /\ phase[c] = "released" => taken[c] = Nothing

\* A call holds no more than it asked for.
Modest(c) == \A s \in Skus : taken[c][s] <= Want[c][s]

\* What is known of a call between its statements.
CallInv == \A c \in Calls : (phase[c] \in {"new", "short"} => Told(c)) /\ Whole(c) /\ Modest(c)

-----------------------------------------------------------------------------
\* LEAST never takes more than the shelf or the cart holds.
LEMMA LeastBounds ==
    ASSUME TypeOK, NEW c \in Calls
    PROVE  /\ Least(c) \in [Skus -> Nat]
           /\ \A s \in Skus : Least(c)[s] <= quantity[s] /\ Least(c)[s] <= Want[c][s]
<1>1. \A s \in Skus : quantity[s] \in Nat /\ Want[c][s] \in Nat
  BY WantAssumption, StockAssumption DEF TypeOK
<1>2. QED
  BY <1>1 DEF Least

\* Nothing is on its way at first.
LEMMA StartInit == Init => TypeOK /\ CallInv
<1>1. Nothing \in [Skus -> Nat] /\ Nothing \in [Skus -> 0 .. MaxRestock]
  BY StockAssumption DEF Nothing
<1>2. \A c \in Calls, s \in Skus : Want[c][s] \in Nat
  BY WantAssumption
<1>3. Init => TypeOK
  BY <1>1, StockAssumption DEF Init, TypeOK, Phases
<1>4. Init => CallInv
  BY <1>1, <1>2 DEF Init, CallInv, Told, Whole, Modest, Nothing
<1>5. QED
  BY <1>3, <1>4

\* The reservation itself.
LEMMA ReserveKeeps ==
    ASSUME TypeOK, CallInv, NEW c \in Calls, Reserve(c)
    PROVE  TypeOK' /\ CallInv'
<1>1. /\ Least(c) \in [Skus -> Nat]
      /\ \A s \in Skus : Least(c)[s] <= quantity[s] /\ Least(c)[s] <= Want[c][s]
  BY LeastBounds
<1>2. ASSUME quantity' = [s \in Skus |-> quantity[s] - Least(c)[s]],
             taken' = [taken EXCEPT ![c] = Least(c)]
      PROVE  /\ quantity' \in [Skus -> 0 .. MaxQuantity]
             /\ taken' \in [Calls -> [Skus -> Nat]]
             /\ \A d \in Calls : Modest(d)'
  <2>1. \A s \in Skus : quantity[s] - Least(c)[s] \in 0 .. MaxQuantity
    BY <1>1, StockAssumption DEF TypeOK
  <2>2. QED
    BY <1>1, <1>2, <2>1 DEF TypeOK, CallInv, Modest
<1>3. CASE ReserveStock(c)
  <2>1. PICK seen \in SUBSET Skus :
           LET got == Only(Least(c), seen) IN
           /\ reserved' = [reserved EXCEPT ![c] = got]
           /\ phase' = [phase EXCEPT ![c] = IF got = Want[c] THEN "reserved"
                                            ELSE IF got = Nothing THEN "rejected"
                                            ELSE "short"]
    BY <1>3 DEF ReserveStock
  <2> DEFINE got == Only(Least(c), seen)
  <2>2. got \in [Skus -> Nat] /\ \A s \in Skus : got[s] <= Least(c)[s]
    BY <1>1 DEF Only
  <2>3. /\ reserved' = [reserved EXCEPT ![c] = got]
        /\ \E answer \in {"reserved", "rejected", "short"} :
              /\ phase' = [phase EXCEPT ![c] = answer]
              /\ answer = "reserved" => got = Want[c]
    BY <2>1
  <2> HIDE DEF got
  <2>4. PICK answer \in {"reserved", "rejected", "short"} :
           phase' = [phase EXCEPT ![c] = answer] /\ (answer = "reserved" => got = Want[c])
    BY <2>3
  <2>5. /\ quantity' = [s \in Skus |-> quantity[s] - Least(c)[s]]
        /\ taken' = [taken EXCEPT ![c] = Least(c)]
        /\ restocked' = restocked
    BY <1>3 DEF ReserveStock
  <2>6. TypeOK'
    BY <1>2, <2>2, <2>3, <2>4, <2>5 DEF TypeOK, Phases
  <2>7. answer = "reserved" => Least(c) = Want[c]
    <3>1. Want[c] \in [Skus -> Nat]
      BY WantAssumption
    <3>2. got = Want[c] => \A s \in Skus : Least(c)[s] = Want[c][s]
      BY <1>1, <2>2, <3>1
    <3>3. QED
      BY <1>1, <2>4, <3>1, <3>2
  <2>8. \A d \in Calls : (phase'[d] \in {"new", "short"} => Told(d)') /\ Whole(d)'
    BY <2>2, <2>3, <2>4, <2>5, <2>7 DEF TypeOK, CallInv, Told, Whole
  <2>9. QED
    BY <1>2, <2>5, <2>6, <2>8 DEF CallInv
<1>4. CASE ReserveFails(c)
  <2>1. phase' = [phase EXCEPT ![c] = "failed"] /\ UNCHANGED <<reserved, restocked>>
    BY <1>4 DEF ReserveFails
  <2>2. /\ quantity' \in [Skus -> 0 .. MaxQuantity]
        /\ taken' \in [Calls -> [Skus -> Nat]]
        /\ \A d \in Calls : Modest(d)' /\ (d # c => taken'[d] = taken[d])
    BY <1>2, <1>4 DEF ReserveFails, TypeOK, CallInv, Modest
  <2>3. QED
    BY <2>1, <2>2 DEF TypeOK, Phases, CallInv, Told, Whole
<1>5. QED
  BY <1>3, <1>4 DEF Reserve

\* Units that go back to the shelf leave the column within its limit, if the
\* statement went through.
LEMMA PlusBounds ==
    ASSUME TypeOK, NEW units \in [Skus -> Nat], Fits(Plus(units))
    PROVE  Plus(units) \in [Skus -> 0 .. MaxQuantity]
<1>1. \A s \in Skus : quantity[s] + units[s] \in 0 .. MaxQuantity
  BY StockAssumption DEF TypeOK, Fits, Plus
<1>2. QED
  BY <1>1 DEF Plus

\* The rollback: what the handler was told it got, it has.
LEMMA UndoKeeps ==
    ASSUME TypeOK, CallInv, NEW c \in Calls, Undo(c)
    PROVE  TypeOK' /\ CallInv'
<1>1. phase[c] = "short" /\ phase' = [phase EXCEPT ![c] = "rejected"]
      /\ UNCHANGED <<reserved, restocked>>
  BY DEF Undo, Rollback, RollbackFails
<1>2. \A s \in Skus : /\ taken[c][s] \in Nat /\ reserved[c][s] \in Nat
                      /\ reserved[c][s] <= taken[c][s] /\ taken[c][s] <= Want[c][s]
                      /\ Want[c][s] \in Nat
  BY <1>1, WantAssumption DEF TypeOK, CallInv, Told, Modest
<1> DEFINE rest == [s \in Skus |-> taken[c][s] - reserved[c][s]]
<1>3. rest \in [Skus -> Nat] /\ \A s \in Skus : rest[s] <= Want[c][s]
  BY <1>2
<1> HIDE DEF rest
<1>4. CASE Rollback(c)
  <2>1. quantity' \in [Skus -> 0 .. MaxQuantity]
    BY <1>4, PlusBounds DEF Rollback, TypeOK
  <2>2. taken' = [taken EXCEPT ![c] = rest]
    BY <1>4 DEF Rollback, rest
  <2>3. TypeOK'
    BY <1>1, <1>3, <2>1, <2>2 DEF TypeOK, Phases
  <2>4. QED
    BY <1>1, <1>3, <2>2, <2>3 DEF TypeOK, CallInv, Told, Whole, Modest
<1>5. CASE RollbackFails(c)
  BY <1>1, <1>5 DEF RollbackFails, TypeOK, Phases, CallInv, Told, Whole, Modest
<1>6. QED
  BY <1>4, <1>5 DEF Undo

\* A release, which returns the whole cart.
LEMMA ReturnKeeps ==
    ASSUME TypeOK, CallInv, NEW c \in Calls, Return(c)
    PROVE  TypeOK' /\ CallInv'
<1>1. Nothing \in [Skus -> Nat] /\ Want[c] \in [Skus -> Nat]
  BY WantAssumption DEF Nothing
<1>2. \A s \in Skus : Nothing[s] <= Want[c][s]
  BY <1>1 DEF Nothing
<1>3. CASE ReleaseItems(c)
  <2>1. quantity' \in [Skus -> 0 .. MaxQuantity]
    BY <1>1, <1>3, PlusBounds DEF ReleaseItems
  <2>2. /\ taken' = [taken EXCEPT ![c] = Nothing]
        /\ phase' = [phase EXCEPT ![c] = "released"]
        /\ UNCHANGED <<reserved, restocked>>
    BY <1>3 DEF ReleaseItems
  <2>3. TypeOK'
    BY <1>1, <2>1, <2>2 DEF TypeOK, Phases
  <2>4. QED
    BY <1>1, <1>2, <2>2, <2>3 DEF TypeOK, CallInv, Told, Whole, Modest
<1>4. CASE ReleaseFails(c)
  BY <1>4 DEF ReleaseFails, TypeOK, Phases, CallInv, Told, Whole, Modest
<1>5. QED
  BY <1>3, <1>4 DEF Return

\* A line of a manifest, which no call is aware of.
LEMMA UpsertKeeps ==
    ASSUME TypeOK, CallInv, NEW s \in Skus, NEW n \in 1 .. MaxRestock, UpsertStock(s, n)
    PROVE  TypeOK' /\ CallInv'
<1>1. quantity[s] + n \in 0 .. MaxQuantity /\ restocked[s] + n \in 0 .. MaxRestock
  BY StockAssumption DEF UpsertStock, TypeOK
<1>2. TypeOK'
  BY <1>1 DEF UpsertStock, TypeOK
<1>3. CallInv'
  BY DEF UpsertStock, CallInv, Told, Whole, Modest
<1>4. QED
  BY <1>2, <1>3

-----------------------------------------------------------------------------
\* The invariant: type correctness needs to know what a short call was told, or a
\* rollback might return more units than the call took.
THEOREM CallInvariant == Spec => [](TypeOK /\ CallInv)
<1>1. TypeOK /\ CallInv /\ [Next]_vars => TypeOK' /\ CallInv'
  <2> SUFFICES ASSUME TypeOK, CallInv, [Next]_vars
               PROVE  TypeOK' /\ CallInv'
    OBVIOUS
  <2>1. CASE UNCHANGED vars
    BY <2>1 DEF vars, TypeOK, CallInv, Told, Whole, Modest
  <2>2. ASSUME NEW c \in Calls, Reserve(c) \/ Undo(c) \/ Return(c)
        PROVE  TypeOK' /\ CallInv'
    BY <2>2, ReserveKeeps, UndoKeeps, ReturnKeeps
  <2>3. ASSUME NEW s \in Skus, NEW n \in 1 .. MaxRestock, UpsertStock(s, n)
        PROVE  TypeOK' /\ CallInv'
    BY <2>3, UpsertKeeps
  <2>4. QED
    BY <2>1, <2>2, <2>3 DEF Next
<1>2. QED
  BY StartInit, <1>1, PTL DEF Spec

\* No interleaving of reservations, rollbacks, releases and restocks takes the stock
\* of a sku below zero or above the column's limit, nor what a call holds below zero.
THEOREM TypeCorrect == Spec => []TypeOK
BY CallInvariant, PTL

\* success: true means that the whole cart left the shelf for this call and stays
\* away, also while overlapping calls roll their partial reservations back.
THEOREM GrantedWhole ==
    Spec => [](\A c \in Calls : phase[c] \in {"reserved", "dropped"} => taken[c] = Want[c])
<1>1. CallInv => \A c \in Calls : phase[c] \in {"reserved", "dropped"} => taken[c] = Want[c]
  BY DEF CallInv, Whole
<1>2. QED
  BY <1>1, CallInvariant, PTL

-----------------------------------------------------------------------------
(* Units are conserved.                                                    *)

\* What left the shelf for calls, in units of s.
Out(s) == [c \in Calls |-> taken[c][s]]

\* A step of one call that takes from the shelf what it gives to the call, or puts
\* back what the call loses, conserves the units.
LEMMA Exchange ==
    ASSUME TypeOK, TypeOK', Conserved, NEW c \in Calls, UNCHANGED restocked,
           \A d \in Calls : d # c => taken'[d] = taken[d],
           \A s \in Skus : quantity'[s] + taken'[c][s] = quantity[s] + taken[c][s]
    PROVE  Conserved'
<1> SUFFICES ASSUME NEW s \in Skus
             PROVE  quantity'[s] + SumFunction(Out(s)') = InitStock[s] + restocked'[s]
  BY DEF Conserved, Out
<1>1. Out(s) \in [Calls -> Int] /\ Out(s)' \in [Calls -> Int]
  BY DEF TypeOK, Out
<1>2. /\ \A d \in Calls : d # c => Out(s)'[d] = Out(s)[d]
      /\ Out(s)[c] = taken[c][s] /\ Out(s)'[c] = taken'[c][s]
  BY DEF Out
<1> HIDE DEF Out
<1>3. /\ SumFunction(Out(s)') = SumFunction(Out(s)) + taken'[c][s] - taken[c][s]
      /\ SumFunction(Out(s)) \in Int
  BY <1>1, <1>2, CallsAssumption, TotalUpdate
<1>4. quantity[s] + SumFunction(Out(s)) = InitStock[s] + restocked[s]
  BY DEF Conserved, Out
<1>5. /\ quantity[s] \in Int /\ quantity'[s] \in Int
      /\ taken[c][s] \in Int /\ taken'[c][s] \in Int
  BY StockAssumption DEF TypeOK
<1>6. quantity'[s] + taken'[c][s] = quantity[s] + taken[c][s]
  OBVIOUS
<1>7. QED
  BY <1>3, <1>4, <1>5, <1>6

\* LEAST takes nothing from the call that is not on the shelf, a rollback returns
\* what the handler was told, a release what was granted.
LEMMA CallExchange ==
    ASSUME TypeOK, CallInv, NEW c \in Calls, Reserve(c) \/ Undo(c) \/ Return(c)
    PROVE  /\ UNCHANGED restocked
           /\ \A d \in Calls : d # c => taken'[d] = taken[d] /\ phase'[d] = phase[d]
           /\ \A s \in Skus : quantity'[s] + taken'[c][s] = quantity[s] + taken[c][s]
<1>1. \A s \in Skus : /\ quantity[s] \in Nat /\ taken[c][s] \in Nat /\ reserved[c][s] \in Nat
                      /\ Want[c][s] \in Nat
  BY StockAssumption, WantAssumption DEF TypeOK
<1>2. Least(c) \in [Skus -> Nat]
  BY LeastBounds
<1>3. ASSUME Reserve(c), quantity' = [s \in Skus |-> quantity[s] - Least(c)[s]],
             taken' = [taken EXCEPT ![c] = Least(c)]
      PROVE  \A s \in Skus : quantity'[s] + taken'[c][s] = quantity[s] + taken[c][s]
  <2>1. taken[c] = Nothing
    BY <1>3 DEF Reserve, ReserveStock, ReserveFails, CallInv, Told
  <2>2. \A s \in Skus : /\ quantity'[s] = quantity[s] - Least(c)[s]
                        /\ taken'[c][s] = Least(c)[s] /\ taken[c][s] = 0
    BY <1>3, <2>1 DEF TypeOK, Nothing
  <2>3. QED
    BY <1>1, <1>2, <2>2
<1>4. CASE Reserve(c)
  BY <1>3, <1>4 DEF Reserve, ReserveStock, ReserveFails, TypeOK
<1>5. CASE Rollback(c)
  <2>1. \A s \in Skus : /\ quantity'[s] = quantity[s] + reserved[c][s]
                        /\ taken'[c][s] = taken[c][s] - reserved[c][s]
    BY <1>5 DEF Rollback, Plus, TypeOK
  <2>2. QED
    BY <1>1, <1>5, <2>1 DEF Rollback, TypeOK
<1>6. CASE ReleaseItems(c)
  <2>1. taken[c] = Want[c]
    BY <1>6 DEF ReleaseItems, CallInv, Whole
  <2>2. \A s \in Skus : quantity'[s] = quantity[s] + Want[c][s] /\ taken'[c][s] = 0
    BY <1>6 DEF ReleaseItems, Plus, TypeOK, Nothing
  <2>3. QED
    BY <1>1, <1>6, <2>1, <2>2 DEF ReleaseItems, TypeOK
<1>7. CASE RollbackFails(c) \/ ReleaseFails(c)
  BY <1>7 DEF RollbackFails, ReleaseFails, TypeOK
<1>8. QED
  BY <1>4, <1>5, <1>6, <1>7 DEF Undo, Return

\* Nothing is out at first.
LEMMA ConservedInit == Init => Conserved
<1> SUFFICES ASSUME Init, NEW s \in Skus
             PROVE  quantity[s] + SumFunction(Out(s)) = InitStock[s] + restocked[s]
  BY DEF Conserved, Out
<1>1. Out(s) = [c \in Calls |-> 0]
  BY DEF Init, Out, Nothing
<1>2. SumFunction(Out(s)) = 0
  BY <1>1, CallsAssumption, TotalZero
<1>3. quantity[s] = InitStock[s] /\ restocked[s] = 0 /\ InitStock[s] \in Int
  BY StockAssumption DEF Init, Nothing
<1>4. QED
  BY <1>2, <1>3

\* Units are neither made nor lost, for any number of calls, carts and skus: every
\* statement moves what leaves the shelf to one call and back, also when the one that
\* should undo it fails.
THEOREM Conservation == Spec => []Conserved
<1>1. TypeOK /\ TypeOK' /\ CallInv /\ Conserved /\ [Next]_vars => Conserved'
  <2> SUFFICES ASSUME TypeOK, TypeOK', CallInv, Conserved, [Next]_vars
               PROVE  Conserved'
    OBVIOUS
  <2>1. CASE UNCHANGED vars
    BY <2>1 DEF vars, Conserved
  <2>2. ASSUME NEW c \in Calls, Reserve(c) \/ Undo(c) \/ Return(c)
        PROVE  Conserved'
    BY <2>2, CallExchange, Exchange
  <2>3. ASSUME NEW s \in Skus, NEW n \in 1 .. MaxRestock, UpsertStock(s, n)
        PROVE  Conserved'
    <3> SUFFICES ASSUME NEW t \in Skus
                 PROVE  quantity'[t] + SumFunction(Out(t)) = InitStock[t] + restocked'[t]
      BY <2>3 DEF Conserved, Out, UpsertStock
    <3>1. Out(t) \in [Calls -> Nat]
      BY DEF Out, TypeOK
    <3>2. SumFunction(Out(t)) \in Nat
      BY <3>1, CallsAssumption, TotalNat
    <3>3. quantity[t] + SumFunction(Out(t)) = InitStock[t] + restocked[t]
      BY DEF Conserved, Out
    <3>4. /\ quantity[t] \in Int /\ restocked[t] \in Int /\ InitStock[t] \in Int
          /\ quantity \in [Skus -> Int] /\ restocked \in [Skus -> Int] /\ n \in Int
      BY StockAssumption DEF TypeOK
    <3>5. /\ quantity'[t] = IF t = s THEN quantity[t] + n ELSE quantity[t]
          /\ restocked'[t] = IF t = s THEN restocked[t] + n ELSE restocked[t]
      BY <2>3, <3>4 DEF UpsertStock
    <3>6. QED
      BY <3>2, <3>3, <3>4, <3>5
  <2>4. QED
    BY <2>1, <2>2, <2>3 DEF Next
<1>2. QED
  BY <1>1, ConservedInit, CallInvariant, PTL DEF Spec

-----------------------------------------------------------------------------
(* The calls implement AtomicReservation.                                  *)

\* What is out for calls that were not granted, in units of s.
Lent(s) == [c \in Calls |-> Loose(c)[s]]

\* It adds to the stock that is free.
LEMMA LentTypes ==
    ASSUME TypeOK, NEW s \in Skus
    PROVE  /\ Lent(s) \in [Calls -> Nat]
           /\ Free(s) = quantity[s] + SumFunction(Lent(s))
           /\ SumFunction(Lent(s)) \in Nat /\ quantity[s] \in Nat
<1>1. \A c \in Calls : Loose(c)[s] \in Nat
  BY DEF Loose, Nothing, TypeOK
<1>2. Lent(s) \in [Calls -> Nat]
  BY <1>1 DEF Lent
<1>3. quantity[s] \in Nat
  BY StockAssumption DEF TypeOK
<1>4. QED
  BY <1>2, <1>3, CallsAssumption, TotalNat DEF Free, Lent

\* What one call's step does to it.
LEMMA FreeMoves ==
    ASSUME TypeOK, TypeOK', NEW c \in Calls, NEW s \in Skus,
           \A d \in Calls : d # c => taken'[d] = taken[d] /\ phase'[d] = phase[d]
    PROVE  /\ Free(s)' = Free(s) + (quantity'[s] - quantity[s]) + (Loose(c)'[s] - Loose(c)[s])
           /\ Free(s) \in Nat /\ Loose(c)[s] \in Nat /\ Loose(c)'[s] \in Nat
<1>1. Lent(s) \in [Calls -> Nat] /\ Lent(s)' \in [Calls -> Nat]
  <2>1. \A d \in Calls : Loose(d)[s] \in Nat /\ Loose(d)'[s] \in Nat
    BY DEF Loose, Nothing, TypeOK
  <2>2. QED
    BY <2>1 DEF Lent
<1>2. /\ \A d \in Calls : d # c => Lent(s)'[d] = Lent(s)[d]
      /\ Lent(s)[c] = Loose(c)[s] /\ Lent(s)'[c] = Loose(c)'[s]
  BY DEF Lent, Loose
<1>3. /\ Free(s) = quantity[s] + SumFunction(Lent(s))
      /\ Free(s)' = quantity'[s] + SumFunction(Lent(s)')
  BY DEF Free, Lent
<1> HIDE DEF Lent, Free, Loose
<1>4. /\ SumFunction(Lent(s)') = SumFunction(Lent(s)) + Loose(c)'[s] - Loose(c)[s]
      /\ SumFunction(Lent(s)) \in Nat
  BY <1>1, <1>2, CallsAssumption, TotalUpdate, TotalNat
<1>5. quantity[s] \in Nat /\ quantity'[s] \in Nat
  BY StockAssumption DEF TypeOK
<1>6. Loose(c)[s] \in Nat /\ Loose(c)'[s] \in Nat
  BY <1>1, <1>2
<1>7. QED
  BY <1>3, <1>4, <1>5, <1>6

\* What c was granted and keeps.
Granted(c) == IF phase[c] \in {"reserved", "dropped"} THEN Want[c] ELSE Nothing

\* What c took is either granted or loose.
LEMMA TakenSplits ==
    ASSUME TypeOK, CallInv, NEW c \in Calls
    PROVE  /\ \A s \in Skus : taken[c][s] = Loose(c)[s] + Granted(c)[s]
           /\ \A s \in Skus : Granted(c)[s] \in Nat /\ Loose(c)[s] \in Nat
<1>1. \A s \in Skus : taken[c][s] \in Nat /\ Want[c][s] \in Nat /\ Nothing[s] = 0
  BY WantAssumption DEF TypeOK, Nothing
<1>2. CASE phase[c] \in {"new", "released"}
  <2>1. taken[c] = Nothing
    BY <1>2 DEF CallInv, Told, Whole
  <2>2. QED
    BY <1>1, <1>2, <2>1 DEF Loose, Granted
<1>3. CASE phase[c] \in {"reserved", "dropped"}
  <2>1. taken[c] = Want[c]
    BY <1>3 DEF CallInv, Whole
  <2>2. QED
    BY <1>1, <1>3, <2>1 DEF Loose, Granted
<1>4. CASE phase[c] \in {"short", "rejected", "failed"}
  BY <1>1, <1>4 DEF Loose, Granted
<1>5. phase[c] \in Phases
  BY DEF TypeOK
<1>6. QED
  BY <1>2, <1>3, <1>4, <1>5 DEF Phases

\* The same after the step.
LEMMA SplitsNext ==
    (TypeOK /\ CallInv =>
       /\ \A s \in Skus : Free(s) \in Nat
       /\ \A c \in Calls, s \in Skus : /\ taken[c][s] = Loose(c)[s] + Granted(c)[s]
                                       /\ Granted(c)[s] \in Nat /\ Loose(c)[s] \in Nat)'
<1>1. TypeOK /\ CallInv =>
        /\ \A s \in Skus : Free(s) \in Nat
        /\ \A c \in Calls, s \in Skus : /\ taken[c][s] = Loose(c)[s] + Granted(c)[s]
                                        /\ Granted(c)[s] \in Nat /\ Loose(c)[s] \in Nat
  <2>1. TypeOK => \A s \in Skus : Free(s) \in Nat
    BY LentTypes
  <2> HIDE DEF Free, Loose, Granted
  <2>2. QED
    BY <2>1, TakenSplits
<1>2. QED
  BY <1>1, PTL

\* A step of a call takes from the free stock what the call is granted, and puts
\* there what it gives back.
LEMMA GrantMoves ==
    ASSUME TypeOK, TypeOK', CallInv, CallInv', NEW c \in Calls,
           Reserve(c) \/ Undo(c) \/ Return(c), NEW s \in Skus
    PROVE  /\ Free(s)' = Free(s) + Granted(c)[s] - Granted(c)'[s]
           /\ Free(s) \in Nat /\ Free(s)' \in Nat
<1>1. /\ \A d \in Calls : d # c => taken'[d] = taken[d] /\ phase'[d] = phase[d]
      /\ quantity'[s] + taken'[c][s] = quantity[s] + taken[c][s]
  BY CallExchange
<1>2. /\ Free(s)' = Free(s) + (quantity'[s] - quantity[s]) + (Loose(c)'[s] - Loose(c)[s])
      /\ Free(s) \in Nat
  BY <1>1, FreeMoves
<1>3. /\ taken[c][s] = Loose(c)[s] + Granted(c)[s]
      /\ Granted(c)[s] \in Nat /\ Loose(c)[s] \in Nat
  BY TakenSplits
<1>4. /\ taken'[c][s] = Loose(c)'[s] + Granted(c)'[s]
      /\ Granted(c)'[s] \in Nat /\ Loose(c)'[s] \in Nat
  BY SplitsNext
<1>5. quantity[s] \in Nat /\ quantity'[s] \in Nat
  BY StockAssumption DEF TypeOK
<1>6. Free(s)' \in Nat
  BY SplitsNext
<1> HIDE DEF Free, Loose, Granted
<1>7. QED
  BY <1>1, <1>2, <1>3, <1>4, <1>5, <1>6

\* The verdicts a step of a call may pass.
LEMMA CallSteps ==
    ASSUME TypeOK, NEW c \in Calls, Reserve(c) \/ Undo(c) \/ Return(c)
    PROVE  /\ phase' = [phase EXCEPT ![c] = phase'[c]]
           /\ \/ phase[c] = "new" /\ phase'[c] \in {"reserved", "short", "rejected", "failed"}
              \/ phase[c] = "short" /\ phase'[c] = "rejected"
              \/ phase[c] = "reserved" /\ phase'[c] \in {"released", "dropped"}
<1>1. CASE ReserveStock(c)
  <2>1. \E answer \in {"reserved", "short", "rejected"} : phase' = [phase EXCEPT ![c] = answer]
    BY <1>1 DEF ReserveStock
  <2>2. QED
    BY <1>1, <2>1 DEF ReserveStock, TypeOK
<1>2. CASE ReserveFails(c)
  BY <1>2 DEF ReserveFails, TypeOK
<1>3. CASE Undo(c)
  BY <1>3 DEF Undo, Rollback, RollbackFails, TypeOK
<1>4. CASE Return(c)
  BY <1>4 DEF Return, ReleaseItems, ReleaseFails, TypeOK
<1>5. QED
  BY <1>1, <1>2, <1>3, <1>4 DEF Reserve

-----------------------------------------------------------------------------
\* What AtomicReservation sees of a state.
free == [s \in Skus |-> Free(s)]
verdict == [c \in Calls |-> Verdict(c)]

\* It starts with everything free and every call open.
LEMMA AtomicInit == Init => Atomic!Init
<1> SUFFICES ASSUME Init
             PROVE  free = InitStock /\ verdict = [c \in Calls |-> "open"]
  BY DEF Atomic!Init, free, verdict
<1>1. ASSUME NEW s \in Skus
      PROVE  Free(s) = InitStock[s]
  <2>1. Lent(s) = [c \in Calls |-> 0]
    BY DEF Init, Lent, Loose, Nothing
  <2>2. SumFunction(Lent(s)) = 0
    BY <2>1, CallsAssumption, TotalZero
  <2>3. quantity[s] = InitStock[s] /\ InitStock[s] \in Int
    BY StockAssumption DEF Init
  <2>4. QED
    BY <2>2, <2>3 DEF Free, Lent
<1>2. free = InitStock
  BY <1>1, StockAssumption DEF free
<1>3. \A c \in Calls : Verdict(c) = "open"
  BY DEF Init, Verdict
<1>4. QED
  BY <1>2, <1>3 DEF verdict

\* The statements of a call: the first grants or rejects, the rollback is invisible.
LEMMA CallImplements ==
    ASSUME TypeOK, TypeOK', CallInv, CallInv', NEW c \in Calls,
           Reserve(c) \/ Undo(c) \/ Return(c)
    PROVE  Atomic!Grant(c) \/ Atomic!Reject(c) \/ Atomic!GiveBack(c)
           \/ UNCHANGED <<free, verdict>>
<1>1. /\ phase' = [phase EXCEPT ![c] = phase'[c]]
      /\ \/ phase[c] = "new" /\ phase'[c] \in {"reserved", "short", "rejected", "failed"}
         \/ phase[c] = "short" /\ phase'[c] = "rejected"
         \/ phase[c] = "reserved" /\ phase'[c] \in {"released", "dropped"}
  BY CallSteps
<1>2. verdict' = [verdict EXCEPT ![c] = Verdict(c)'] /\ verdict[c] = Verdict(c)
  <2>1. \A d \in Calls : d # c => Verdict(d)' = Verdict(d)
    BY <1>1 DEF Verdict, TypeOK
  <2>2. QED
    BY <2>1 DEF verdict
<1>3. /\ \A s \in Skus : free[s] = Free(s) /\ free'[s] = Free(s)'
      /\ free \in [Skus -> Nat] /\ free' \in [Skus -> Nat]
      /\ \A s \in Skus : Free(s)' = Free(s) + Granted(c)[s] - Granted(c)'[s]
  BY GrantMoves DEF free
<1>4. \A s \in Skus : Nothing[s] = 0 /\ Want[c][s] \in Nat
  BY WantAssumption DEF Nothing
<1>5. CASE phase[c] = "new" /\ phase'[c] = "reserved"
  <2>1. Verdict(c) = "open" /\ Verdict(c)' = "granted"
    BY <1>5 DEF Verdict
  <2>2. Granted(c) = Nothing /\ Granted(c)' = Want[c]
    BY <1>5 DEF Granted
  <2>3. \A s \in Skus : Want[c][s] <= free[s] /\ free'[s] = free[s] - Want[c][s]
    BY <1>3, <1>4, <2>2
  <2>4. free' = [s \in Skus |-> free[s] - Want[c][s]]
    BY <1>3, <2>3
  <2>5. QED
    BY <1>2, <2>1, <2>3, <2>4 DEF Atomic!Grant, free, verdict
<1>6. CASE phase[c] = "new" /\ phase'[c] \in {"short", "rejected", "failed"}
  <2>1. Verdict(c) = "open" /\ Verdict(c)' = "rejected"
    BY <1>6 DEF Verdict
  <2>2. Granted(c) = Nothing /\ Granted(c)' = Nothing
    BY <1>6 DEF Granted
  <2>3. free' = free
    BY <1>3, <1>4, <2>2
  <2>4. QED
    BY <1>2, <2>1, <2>3 DEF Atomic!Reject, free, verdict
<1>7. CASE phase[c] = "reserved" /\ phase'[c] = "released"
  <2>1. Verdict(c) = "granted" /\ Verdict(c)' = "released"
    BY <1>7 DEF Verdict
  <2>2. Granted(c) = Want[c] /\ Granted(c)' = Nothing
    BY <1>7 DEF Granted
  <2>3. free' = [s \in Skus |-> free[s] + Want[c][s]]
    BY <1>3, <1>4, <2>2
  <2>4. QED
    BY <1>2, <2>1, <2>3 DEF Atomic!GiveBack, free, verdict
<1>8. CASE \/ phase[c] = "short" /\ phase'[c] = "rejected"
           \/ phase[c] = "reserved" /\ phase'[c] = "dropped"
  <2>1. Verdict(c)' = Verdict(c)
    BY <1>8 DEF Verdict
  <2>2. Granted(c)' = Granted(c)
    BY <1>8 DEF Granted
  <2>3. free' = free
    BY <1>3, <1>4, <2>2, TakenSplits
  <2>4. verdict' = verdict
    <3>1. verdict = [d \in Calls |-> verdict[d]]
      BY DEF verdict
    <3>2. QED
      BY <1>2, <2>1, <3>1
  <2>5. QED
    BY <2>3, <2>4
<1>9. QED
  BY <1>1, <1>5, <1>6, <1>7, <1>8

\* A restock adds to the free stock what it adds to the shelf.
LEMMA RestockImplements ==
    ASSUME TypeOK, TypeOK', NEW s \in Skus, NEW n \in 1 .. MaxRestock, UpsertStock(s, n)
    PROVE  Atomic!Restock(s)
<1>1. n \in 1 .. MaxQuantity
  BY StockAssumption DEF UpsertStock, TypeOK
<1>2. verdict' = verdict
  BY DEF UpsertStock, verdict, Verdict
<1>3. quantity \in [Skus -> Nat] /\ quantity' = [quantity EXCEPT ![s] = @ + n]
  BY StockAssumption DEF TypeOK, UpsertStock
<1>4. ASSUME NEW t \in Skus
      PROVE  /\ free[t] = quantity[t] + SumFunction(Lent(t)) /\ SumFunction(Lent(t)) \in Nat
             /\ free'[t] = quantity'[t] + SumFunction(Lent(t))
  <2>1. Lent(t)' = Lent(t)
    BY DEF UpsertStock, Lent, Loose
  <2>2. free[t] = Free(t) /\ free'[t] = Free(t)'
    BY DEF free
  <2>3. Free(t)' = quantity'[t] + SumFunction(Lent(t)')
    BY DEF Free, Lent
  <2>4. QED
    BY <2>1, <2>2, <2>3, LentTypes
<1>5. free' = [free EXCEPT ![s] = @ + n]
  <2>1. \A t \in Skus : free'[t] = IF t = s THEN free[t] + n ELSE free[t]
    BY <1>1, <1>3, <1>4
  <2>2. /\ free = [t \in Skus |-> free[t]] /\ free' = [t \in Skus |-> free'[t]]
    BY DEF free
  <2>3. QED
    BY <2>1, <2>2
<1>6. QED
  BY <1>1, <1>2, <1>5 DEF Atomic!Restock, free, verdict

\* ReserveItems grants a whole cart or nothing of it in one step, and a release gives
\* back what was granted, for any number of overlapping calls and whatever statements
\* fail: a partial reservation, and a rollback that never happened, are hidden in the
\* stock that counts as free.
THEOREM AtomicImplemented == Spec => ImplementsAtomic
<1>1. TypeOK /\ TypeOK' /\ CallInv /\ CallInv' /\ [Next]_vars => [Atomic!Next]_(Atomic!vars)
  <2> SUFFICES ASSUME TypeOK, TypeOK', CallInv, CallInv', [Next]_vars
               PROVE  Atomic!Next \/ UNCHANGED <<free, verdict>>
    BY DEF Atomic!vars, free, verdict
  <2>1. CASE UNCHANGED vars
    BY <2>1 DEF vars, free, verdict, Free, Loose, Verdict
  <2>2. ASSUME NEW c \in Calls, Reserve(c) \/ Undo(c) \/ Return(c)
        PROVE  Atomic!Next \/ UNCHANGED <<free, verdict>>
    BY <2>2, CallImplements DEF Atomic!Next
  <2>3. ASSUME NEW s \in Skus, NEW n \in 1 .. MaxRestock, UpsertStock(s, n)
        PROVE  Atomic!Next
    BY <2>3, RestockImplements DEF Atomic!Next
  <2>4. QED
    BY <2>1, <2>2, <2>3 DEF Next
<1>2. QED
  BY <1>1, AtomicInit, CallInvariant, PTL DEF Spec, ImplementsAtomic, Atomic!Spec
=============================================================================
