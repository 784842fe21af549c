--------------------------- MODULE FulfilmentInv ----------------------------
(***************************************************************************)
(* The inductive invariants behind the properties of Fulfilment: TLC       *)
(* checks them on small instances, FulfilmentProofs proves them.           *)
(***************************************************************************)
EXTENDS Fulfilment

\* A broadcast of o waits in the queue of r.
Queued(o, r) == \E i \in DOMAIN inbox[r] : inbox[r][i].order = o

Active(o, s) == stage[o][s] # Idle

NoEffect(o) == \A k \in Stages : effects[o][k] = 0

\* An order that was never handed over has left no trace.
Fresh(o) ==
    /\ ~items[o] /\ ~marker[o] /\ count[o] = 0
    /\ unsent[o] = 0
    /\ \A r \in Robots : job[r] # o /\ ~Queued(o, r) /\ r \notin reported[o]
    /\ \A s \in Slots : ~Active(o, s)
    /\ NoEffect(o)

FreshInv == \A o \in Orders : dispatches[o] = 0 => Fresh(o)

\* Why SETNX suffices for an order handed over once.  The items are never saved
\* again, so the marker outlives them; while they are there the first claim is
\* the only one, and a finalizer that finds them missing does nothing.
Guarded(o) ==
    /\ ~outlived[o]
    /\ items[o] /\ ~marker[o] => NoEffect(o) /\ \A s \in Slots : ~Active(o, s)
    /\ items[o] => \A s, t \in Slots : Active(o, s) /\ Active(o, t) => s = t
    /\ items[o] => \A s \in Slots : stage[o][s] = LoadStage => NoEffect(o)

Finalizing(o) ==
    /\ \A s, t \in Slots : stage[o][s] > LoadStage /\ stage[o][t] > LoadStage => s = t
    /\ \A s \in Slots : stage[o][s] > LoadStage =>
          /\ effects[o][LoadStage] = 1
          /\ \A k \in Stages : k >= stage[o][s] => effects[o][k] = 0
    /\ \A k \in Stages : effects[o][k] <= 1

\* The inductive invariant of FinalizedAtMostOnce.
OnceInv == \A o \in Orders : Single(o) => Guarded(o) /\ Finalizing(o)

\* A robot hears of an order handed over once through one broadcast and reports
\* it once.
ReportsOnce(o, r) ==
    /\ \A i, j \in DOMAIN inbox[r] : inbox[r][i].order = o /\ inbox[r][j].order = o => i = j
    /\ Queued(o, r) => job[r] # o /\ r \notin reported[o]
    /\ job[r] = o /\ pc[r] = "reporting" => r \notin reported[o]
    /\ unsent[o] > 0 => ~Queued(o, r) /\ job[r] # o /\ r \notin reported[o]

\* Somebody found the counter at the threshold.
Claimed(o) ==
    \/ \E r \in Robots : job[r] = o /\ pc[r] = "counted"
    \/ marker[o]
    \/ \E s \in Slots : Active(o, s)
    \/ effects[o][LoadStage] > 0

CountInv(o) ==
    /\ unsent[o] <= 1
    /\ \A r \in Robots : ReportsOnce(o, r)
    /\ count[o] <= Cardinality(reported[o])
    /\ Claimed(o) => reported[o] = Robots

\* A robot that took an order whose aisles were known has picked its share.
PickedInv ==
    "lookup" \notin Faults =>
        \A o \in Orders, r \in Robots :
            /\ \A i \in DOMAIN inbox[r] : inbox[r][i].order = o => inbox[r][i].work = WorkFor[o]
            /\ job[r] = o \/ r \in reported[o] => (r \in WorkFor[o] => r \in picked[o])

\* The inductive invariant of FinalizedAfterAllReports.
ReportInv ==
    Cardinality(Robots) = Threshold =>
        \A o \in Orders : Single(o) => CountInv(o)

\* The broadcast of o waits at r, or r's report of it does.
Coming(o, r) == Queued(o, r) \/ (job[r] = o /\ pc[r] = "reporting")

\* The report of r reached the threshold of o.
Claims(o, r) == job[r] = o /\ pc[r] = "counted"

\* Without failures, why an order that was handed over once is never left with a
\* key and nobody to delete it: every robot that has not reported it will, the one
\* that reports last starts the only finalizer, and its items last until that one
\* deletes the keys.
KeysOrder(o) ==
    /\ unsent[o] = 0 => \A r \in Robots : r \in reported[o] \/ Coming(o, r)
    /\ effects[o][LoadStage] = 0 => items[o] /\ count[o] = Cardinality(reported[o])
    /\ marker[o] => \E s \in Slots : Active(o, s)
    /\ \A r \in Robots : Claims(o, r) =>
          /\ effects[o][LoadStage] = 0
          /\ \A s \in Slots : ~Active(o, s)
          /\ \A q \in Robots : Claims(o, q) => q = r
    /\ \A s, t \in Slots : Active(o, s) /\ Active(o, t) => s = t
    /\ \A s \in Slots : stage[o][s] = LoadStage <=> Active(o, s) /\ effects[o][LoadStage] = 0
    /\ reported[o] = Robots /\ effects[o][LoadStage] = 0 =>
          (\E r \in Robots : Claims(o, r)) \/ (\E s \in Slots : Active(o, s))
    /\ effects[o][LoadStage] > 0 =>
          (\E s \in Slots : Active(o, s)) \/ (~items[o] /\ ~marker[o] /\ count[o] = 0)

\* The inductive invariant of NoKeyLeftBehind.
KeysInv ==
    Cardinality(Robots) = Threshold /\ Faults = {} =>
        \A o \in Orders : Single(o) /\ dispatches[o] > 0 => KeysOrder(o)

\* No order is handed over more often than the model allows.
DispatchInv == \A o \in Orders : dispatches[o] <= DispatchLimit(o)
=============================================================================
