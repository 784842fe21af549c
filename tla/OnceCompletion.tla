--------------------------- MODULE OnceCompletion ---------------------------
(***************************************************************************)
(* What the fulfilment workflow promises for an order that is handed over  *)
(* once: every robot reports it at most once, it is settled (its items are *)
(* taken up for billing or restocking) once and only after every robot     *)
(* reported, and it is announced as completed once and only after it was   *)
(* settled.  How reports are counted and claimed is not its business.      *)
(***************************************************************************)
EXTENDS Naturals

CONSTANTS Orders, Robots

VARIABLES
    accepted,   \* the orders that were handed over
    reports,    \* reports[o]: the robots that reported it
    settled,    \* settled[o]: how often its items were taken up
    completed   \* completed[o]: how often it was announced

vars == <<accepted, reports, settled, completed>>

Init ==
    /\ accepted = {}
    /\ reports = [o \in Orders |-> {}]
    /\ settled = [o \in Orders |-> 0]
    /\ completed = [o \in Orders |-> 0]

Accept(o) ==
    /\ o \notin accepted
    /\ accepted' = accepted \cup {o}
    /\ UNCHANGED <<reports, settled, completed>>

Report(o, r) ==
    /\ o \in accepted
    /\ r \notin reports[o]
    /\ reports' = [reports EXCEPT ![o] = @ \cup {r}]
    /\ UNCHANGED <<accepted, settled, completed>>

Settle(o) ==
    /\ reports[o] = Robots
    /\ settled[o] = 0
    /\ settled' = [settled EXCEPT ![o] = 1]
    /\ UNCHANGED <<accepted, reports, completed>>

Complete(o) ==
    /\ settled[o] = 1
    /\ completed[o] = 0
    /\ completed' = [completed EXCEPT ![o] = 1]
    /\ UNCHANGED <<accepted, reports, settled>>

Next ==
    \E o \in Orders :
        \/ Accept(o)
        \/ \E r \in Robots : Report(o, r)
        \/ Settle(o)
        \/ Complete(o)

Spec == Init /\ [][Next]_vars
=============================================================================
