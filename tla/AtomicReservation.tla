-------------------------- MODULE AtomicReservation -------------------------
(***************************************************************************)
(* What the inventory guide promises of ReserveItems: an atomic, all or    *)
(* nothing reservation.  A call is granted everything it wants in one step *)
(* or is rejected with no effect; granted stock may be given back.         *)
(***************************************************************************)
EXTENDS Naturals

CONSTANTS Skus, Calls, Want, InitStock, MaxQuantity

VARIABLES
    free,      \* free[s]: units of s nobody has reserved
    verdict    \* verdict[c]: what became of the call

vars == <<free, verdict>>

Init ==
    /\ free = InitStock
    /\ verdict = [c \in Calls |-> "open"]

Grant(c) ==
    /\ verdict[c] = "open"
    /\ \A s \in Skus : Want[c][s] <= free[s]
    /\ free' = [s \in Skus |-> free[s] - Want[c][s]]
    /\ verdict' = [verdict EXCEPT ![c] = "granted"]

\* A call may be turned away at any time, and then has no effect.
Reject(c) ==
    /\ verdict[c] = "open"
    /\ verdict' = [verdict EXCEPT ![c] = "rejected"]
    /\ UNCHANGED free

GiveBack(c) ==
    /\ verdict[c] = "granted"
    /\ free' = [s \in Skus |-> free[s] + Want[c][s]]
    /\ verdict' = [verdict EXCEPT ![c] = "released"]

Restock(s) ==
    /\ \E n \in 1 .. MaxQuantity : free' = [free EXCEPT ![s] = @ + n]
    /\ UNCHANGED verdict

Next ==
    \/ \E c \in Calls : Grant(c) \/ Reject(c) \/ GiveBack(c)
    \/ \E s \in Skus : Restock(s)

Spec == Init /\ [][Next]_vars
=============================================================================
