--------------------------- MODULE OrderLifecycle ----------------------------
(***************************************************************************)
(* What ordering and inventory promise together for a customer order whose *)
(* client waits for every answer, while nothing fails: its stock is        *)
(* reserved before it exists and given back once at most, robots are sent  *)
(* once and only while the stock is held, it is billed once and only after *)
(* they were sent, COMPLETED only after it was billed, and deleted for     *)
(* good only after its stock was given back.                               *)
(***************************************************************************)
EXTENDS Naturals

CONSTANT Orders

VARIABLES
    status,       \* status[o]: "none", "reserved", the status of its row, or "gone"
    holding,      \* holding[o]: reservations of its cart that inventory holds
    dispatched,   \* dispatched[o]: how often it was handed over to the robots
    billed        \* billed[o]: how often it was billed

vars == <<status, holding, dispatched, billed>>

Open == {"PENDING", "PROCESSING", "COMPLETED"}

Init ==
    /\ status = [o \in Orders |-> "none"]
    /\ holding = [o \in Orders |-> 0]
    /\ dispatched = [o \in Orders |-> 0]
    /\ billed = [o \in Orders |-> 0]

Turn(o, before, after) ==
    /\ status[o] = before
    /\ status' = [status EXCEPT ![o] = after]

Reserve(o) ==
    /\ Turn(o, "none", "reserved")
    /\ holding' = [holding EXCEPT ![o] = 1]
    /\ UNCHANGED <<dispatched, billed>>

Create(o) == Turn(o, "reserved", "PENDING") /\ UNCHANGED <<holding, dispatched, billed>>

Confirm(o) ==
    /\ holding[o] = 1
    /\ Turn(o, "PENDING", "PROCESSING")
    /\ UNCHANGED <<holding, dispatched, billed>>

Dispatch(o) ==
    /\ status[o] = "PROCESSING" /\ holding[o] = 1 /\ dispatched[o] = 0
    /\ dispatched' = [dispatched EXCEPT ![o] = 1]
    /\ UNCHANGED <<status, holding, billed>>

\* Also when the order was cancelled in the meantime.
Bill(o) ==
    /\ dispatched[o] = 1 /\ billed[o] = 0
    /\ billed' = [billed EXCEPT ![o] = 1]
    /\ UNCHANGED <<status, holding, dispatched>>

Complete(o) ==
    /\ billed[o] = 1
    /\ Turn(o, "PROCESSING", "COMPLETED")
    /\ UNCHANGED <<holding, dispatched, billed>>

Release(o) ==
    /\ status[o] \in Open /\ holding[o] = 1
    /\ holding' = [holding EXCEPT ![o] = 0]
    /\ UNCHANGED <<status, dispatched, billed>>

Delete(o) ==
    /\ status[o] \in Open /\ holding[o] = 0
    /\ status' = [status EXCEPT ![o] = "gone"]
    /\ UNCHANGED <<holding, dispatched, billed>>

Next ==
    \E o \in Orders :
        \/ Reserve(o) \/ Create(o) \/ Confirm(o) \/ Dispatch(o)
        \/ Bill(o) \/ Complete(o) \/ Release(o) \/ Delete(o)

Spec == Init /\ [][Next]_vars
=============================================================================
