--------------------------- MODULE TruckRestockInv ---------------------------
(***************************************************************************)
(* The inductive invariants behind WorkIsRecorded, CompletedIsStocked and  *)
(* LoggedOnce: TLC checks them on small instances, TruckRestockProofs      *)
(* proves them.                                                            *)
(***************************************************************************)
EXTENDS TruckRestock, FulfilmentInv

\* What the handler of o has done by each of its steps.
RecordedOrder(o) ==
    /\ dispatches[o] <= 1
    /\ dispatches[o] > 0 => restock[o] # "absent"
    /\ at[o] \in {"call", "waiting", "unassigned", "accepted"} => restock[o] # "absent"
    /\ at[o] \in {"new", "create", "call", "refused"} => dispatches[o] = 0
    /\ at[o] = "unassigned" /\ dispatches[o] > 0 => "rpc" \in TruckFaults \/ "crash" \in Faults

RecordedInv == \A o \in Orders : RecordedOrder(o)

\* A finalizer past a line has stored it, the webhook comes after all lines, and
\* only the webhook completes the row.
StoredOrder(o) ==
    /\ \A s \in Slots, i \in 1 .. Lines : stage[o][s] > i => effects[o][i] > 0
    /\ effects[o][PostStage(o)] > 0 => \A i \in 1 .. Lines : effects[o][i] > 0
    /\ restock[o] = "COMPLETED" => effects[o][PostStage(o)] > 0

StoredInv == "service" \notin Faults => \A o \in Orders : StoredOrder(o)

InFeed(o) == \E i \in DOMAIN feed : feed[i] = o
InLog(o)  == \E i \in DOMAIN csv : csv[i] = o

\* The metric of o is in one place at most: with a goroutine, at the socket, or in
\* the log; and in none before its webhook.
LoggedOrder(o) ==
    /\ publishing[o] > 0 \/ InFeed(o) \/ InLog(o) =>
          effects[o][PostStage(o)] > 0 /\ restock[o] = "COMPLETED"
    /\ publishing[o] <= 1
    /\ publishing[o] > 0 => ~InFeed(o) /\ ~InLog(o)
    /\ InFeed(o) => ~InLog(o)
    /\ \A i, j \in DOMAIN feed : feed[i] = o /\ feed[j] = o => i = j
    /\ \A i, j \in DOMAIN csv : csv[i] = o /\ csv[j] = o => i = j

LoggedInv == \A o \in Orders : LoggedOrder(o)

\* The header is in the stream's buffer only while the file is empty.
HeaderInv ==
    /\ stream = "header" => csv = << >>
    /\ stream = "open" => csv # << >>
    /\ OneHeader
=============================================================================
