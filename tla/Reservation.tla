----------------------------- MODULE Reservation ----------------------------
(***************************************************************************)
(* The stock side of inventory: concurrent ReserveItems calls, each of     *)
(* them one ReserveStock statement and, when it came up short, a second    *)
(* statement that puts the partial reservation back; ReleaseItems for a    *)
(* cancelled order; and the UpsertStock of restock finalizers.  Postgres   *)
(* runs one statement at a time on a row and aborts a whole statement, so  *)
(* statements are the atomic steps.                                        *)
(***************************************************************************)
EXTENDS Integers, FiniteSets, Functions

CONSTANTS
    Skus,          \* stock keeping units
    Calls,         \* ReserveItems calls, one per order
    Want,          \* Want[c][s]: units of s that call c asks for, 0 if not in the cart
    InitStock,     \* InitStock[s]: available_stock.quantity at the start
    MaxQuantity,   \* the largest INT; 2^31 - 1 in Postgres
    MaxRestock,    \* bound: units that restocks may add to one sku
    Faults         \* the kinds of failure that may happen

FaultKinds ==
    {"statement",  \* a statement fails: connection, deadlock, cancelled context
     "rows"}       \* the rows ReserveStock returns end early; rows.Err is not read

\* ReserveItems turns an empty cart away before it touches the stock.
ASSUME WantAssumption ==
    /\ Want \in [Calls -> [Skus -> Nat]]
    /\ \A c \in Calls : \E s \in Skus : Want[c][s] > 0
ASSUME CallsAssumption == IsFiniteSet(Calls)
ASSUME StockAssumption ==
    /\ MaxQuantity \in Nat /\ MaxRestock \in Nat
    /\ InitStock \in [Skus -> 0 .. MaxQuantity]
ASSUME ReservationFaultsAssumption == Faults \subseteq FaultKinds

VARIABLES
    quantity,   \* quantity[s]: the column available_stock.quantity
    phase,      \* phase[c]: where the call, and later its order, is
    reserved,   \* reserved[c][s]: what the handler of c was told it reserved
    taken,      \* taken[c][s]: units that left the shelf for c and did not come back
    restocked   \* restocked[s]: units restocks have added so far

vars == <<quantity, phase, reserved, taken, restocked>>

Phases ==
    {"new",        \* not yet executed
     "short",      \* reserved less than wanted, rollback to come
     "reserved",   \* success: true
     "rejected",   \* success: false, insufficient stock
     "failed",     \* ReserveStock returned an error
     "released",   \* ReleaseItems succeeded
     "dropped"}    \* ReleaseItems failed; cancel.go ignores it

Nothing == [s \in Skus |-> 0]

TypeOK ==
    /\ quantity \in [Skus -> 0 .. MaxQuantity]
    /\ phase \in [Calls -> Phases]
    /\ reserved \in [Calls -> [Skus -> Nat]]
    /\ taken \in [Calls -> [Skus -> Nat]]
    /\ restocked \in [Skus -> 0 .. MaxRestock]

Init ==
    /\ quantity = InitStock
    /\ phase = [c \in Calls |-> "new"]
    /\ reserved = [c \in Calls |-> Nothing]
    /\ taken = [c \in Calls |-> Nothing]
    /\ restocked = Nothing

-----------------------------------------------------------------------------
(* The same code with a plausible bug, for the properties to find.         *)

\* A rollback that returns what was asked for, not what was reserved.
RollbackRequested(c) ==
    /\ phase[c] = "short"
    /\ quantity' = [s \in Skus |-> quantity[s] + Want[c][s]]
    /\ taken' = [taken EXCEPT ![c] = Nothing]
    /\ phase' = [phase EXCEPT ![c] = "rejected"]
    /\ UNCHANGED <<reserved, restocked>>

\* A handler that accepts whatever it got.
KeepPartial(c) ==
    /\ phase[c] = "short"
    /\ phase' = [phase EXCEPT ![c] = "reserved"]
    /\ UNCHANGED <<quantity, reserved, taken, restocked>>

\* A reservation without LEAST, trusting the caller's quantities.
LeastNot(c) == Want[c]

-----------------------------------------------------------------------------
(* ReserveItems.                                                           *)

\* LEAST(old_qty, req_count) for every requested row with quantity > 0.
Least(c) ==
    [s \in Skus |-> IF quantity[s] < Want[c][s] THEN quantity[s] ELSE Want[c][s]]

Only(units, skus) == [s \in Skus |-> IF s \in skus THEN units[s] ELSE 0]

Plus(units) == [s \in Skus |-> quantity[s] + units[s]]

\* An INT column rejects a larger sum, and with it the whole statement.
Fits(sum) == \A s \in Skus : sum[s] <= MaxQuantity

\* ReserveStock takes what is there; the handler compares the rows it got back
\* with the request.
ReserveStock(c) ==
    /\ phase[c] = "new"
    /\ quantity' = [s \in Skus |-> quantity[s] - Least(c)[s]]
    /\ taken' = [taken EXCEPT ![c] = Least(c)]
    /\ \E seen \in IF "rows" \in Faults THEN SUBSET Skus ELSE {Skus} :
          LET got == Only(Least(c), seen) IN
          /\ reserved' = [reserved EXCEPT ![c] = got]
          /\ phase' = [phase EXCEPT ![c] = IF got = Want[c] THEN "reserved"
                                           ELSE IF got = Nothing THEN "rejected"
                                           ELSE "short"]
    /\ UNCHANGED restocked

\* The statement fails, with or without having taken effect.  (A rollback or a
\* release that fails after its effect differs from one that succeeds only in the
\* error, which nobody reads.)
ReserveFails(c) ==
    /\ "statement" \in Faults
    /\ phase[c] = "new"
    /\ \/ /\ quantity' = [s \in Skus |-> quantity[s] - Least(c)[s]]
          /\ taken' = [taken EXCEPT ![c] = Least(c)]
       \/ UNCHANGED <<quantity, taken>>
    /\ phase' = [phase EXCEPT ![c] = "failed"]
    /\ UNCHANGED <<reserved, restocked>>

\* ReleaseStock of the partial reservation.
Rollback(c) ==
    /\ phase[c] = "short"
    /\ Fits(Plus(reserved[c]))
    /\ quantity' = Plus(reserved[c])
    /\ taken' = [taken EXCEPT ![c] = [s \in Skus |-> @[s] - reserved[c][s]]]
    /\ phase' = [phase EXCEPT ![c] = "rejected"]
    /\ UNCHANGED <<reserved, restocked>>

\* The error of that statement is discarded: the call is rejected all the same.
RollbackFails(c) ==
    /\ phase[c] = "short"
    /\ "statement" \in Faults \/ ~Fits(Plus(reserved[c]))
    /\ phase' = [phase EXCEPT ![c] = "rejected"]
    /\ UNCHANGED <<quantity, reserved, taken, restocked>>

-----------------------------------------------------------------------------
(* ReleaseItems, which cancel.go calls with the whole cart of the order,   *)
(* here once per order; and UpsertStock.                                   *)

ReleaseItems(c) ==
    /\ phase[c] = "reserved"
    /\ Fits(Plus(Want[c]))
    /\ quantity' = Plus(Want[c])
    /\ taken' = [taken EXCEPT ![c] = Nothing]
    /\ phase' = [phase EXCEPT ![c] = "released"]
    /\ UNCHANGED <<reserved, restocked>>

ReleaseFails(c) ==
    /\ phase[c] = "reserved"
    /\ "statement" \in Faults \/ ~Fits(Plus(Want[c]))
    /\ phase' = [phase EXCEPT ![c] = "dropped"]
    /\ UNCHANGED <<quantity, reserved, taken, restocked>>

\* One line of a restock manifest; a line that overflows is skipped.
UpsertStock(s, n) ==
    /\ restocked[s] + n <= MaxRestock
    /\ quantity[s] + n <= MaxQuantity
    /\ quantity' = [quantity EXCEPT ![s] = @ + n]
    /\ restocked' = [restocked EXCEPT ![s] = @ + n]
    /\ UNCHANGED <<phase, reserved, taken>>

-----------------------------------------------------------------------------
Reserve(c) == ReserveStock(c) \/ ReserveFails(c)

Undo(c) == Rollback(c) \/ RollbackFails(c)

Return(c) == ReleaseItems(c) \/ ReleaseFails(c)

Next ==
    \/ \E c \in Calls : Reserve(c) \/ Undo(c) \/ Return(c)
    \/ \E s \in Skus, n \in 1 .. MaxRestock : UpsertStock(s, n)

Spec == Init /\ [][Next]_vars

-----------------------------------------------------------------------------
(* Properties.                                                             *)

\* Units are neither made nor lost: what is on the shelf and what was taken for
\* calls is what was there at first and what restocks brought, whatever statements
\* of concurrent calls interleave or fail.
Conserved ==
    \A s \in Skus :
        quantity[s] + SumFunction([c \in Calls |-> taken[c][s]]) = InitStock[s] + restocked[s]

\* Units of calls that were not granted count as free: the ones a rollback is about
\* to put back, and the ones it could not put back.
Loose(c) == IF phase[c] \in {"short", "rejected", "failed"} THEN taken[c] ELSE Nothing

Free(s) == quantity[s] + SumFunction([c \in Calls |-> Loose(c)[s]])

Verdict(c) ==
    CASE phase[c] = "new"                               -> "open"
      [] phase[c] \in {"reserved", "dropped"}           -> "granted"
      [] phase[c] \in {"short", "rejected", "failed"}   -> "rejected"
      [] phase[c] = "released"                          -> "released"

Atomic == INSTANCE AtomicReservation WITH
              free    <- [s \in Skus |-> Free(s)],
              verdict <- [c \in Calls |-> Verdict(c)]

\* ReserveItems grants all of a cart or nothing of it, in one step, and a release
\* returns exactly what was granted, although a rejected call takes and returns
\* units in two statements between which other calls run.
ImplementsAtomic == Atomic!Spec
=============================================================================
