---------------------------- MODULE TruckRestock -----------------------------
(***************************************************************************)
(* A restock from the truck terminal to the analytics log: the HTTP        *)
(* handlers of the ordering service (restock and its completion webhook)   *)
(* over the row of the restock in ordering's database, composed with the   *)
(* inventory workflow of Fulfilment and with the subscriber of Analytics.  *)
(* Every submission gets a fresh id, so an id is also the name of the      *)
(* handler of its submission.                                              *)
(***************************************************************************)
EXTENDS Fulfilment, Analytics

CONSTANT
    TruckFaults   \* the kinds of failure of ordering that may happen

TruckFaultKinds ==
    {"db",       \* a statement fails, with or without having taken effect
     "rpc",      \* the call to inventory fails, with or without having taken effect;
                 \* it does too when the driver hangs up, whose request context it has
     "crash"}    \* the ordering process dies

\* Only restocks.  The other metrics are those of customer orders.
ASSUME TrucksAssumption == Restocks = Orders /\ Orders \subseteq Metrics
ASSUME TruckFaultsAssumption == TruckFaults \subseteq TruckFaultKinds

VARIABLES
    restock,      \* restock[o]: restock_orders.status, "absent" without a row
    at,           \* at[o]: the next step of the handler, or how it ended
    publishing,   \* publishing[o]: analytics goroutines the webhook started
    up            \* the ordering process is running

trucking  == <<restock, at, publishing, up>>
truckvars == <<vars, logvars, trucking>>

\* "refused": 500 before the call to inventory; "unassigned": 500 since that call
\* failed; "accepted": 201; "broken": no answer.
Steps   == {"new", "create", "call", "waiting"}
Answers == {"refused", "unassigned", "accepted", "broken"}

TruckTypeOK ==
    /\ TypeOK
    /\ AnalyticsTypeOK
    /\ restock \in [Orders -> {"absent", "PROCESSING", "COMPLETED"}]
    /\ at \in [Orders -> Steps \cup Answers]
    /\ publishing \in [Orders -> Nat]
    /\ up \in BOOLEAN

TruckInit ==
    /\ Init
    /\ AnalyticsInit
    /\ restock = [o \in Orders |-> "absent"]
    /\ at = [o \in Orders |-> "new"]
    /\ publishing = [o \in Orders |-> 0]
    /\ up = TRUE

\* The handler of o moves on to step s, or answers s.
Goto(o, s) == at' = [at EXCEPT ![o] = s]

-----------------------------------------------------------------------------
(* The same code with a plausible bug, for the properties to find.         *)

\* A handler that goes on although its row was not written.
CreateUnchecked(o) ==
    /\ at[o] = "create"
    /\ \/ restock' = [restock EXCEPT ![o] = "PROCESSING"]
       \/ "db" \in TruckFaults /\ UNCHANGED restock
    /\ Goto(o, "call")
    /\ UNCHANGED <<vars, logvars, publishing, up>>

\* A webhook whose goroutine may publish twice.
PublishTwice(o) ==
    /\ publishing[o] > 0
    /\ publishing' = [publishing EXCEPT ![o] = @ - 1]
    /\ stream # "closed" /\ feed' = feed \o <<o, o>>
    /\ UNCHANGED <<vars, stream, csv, restock, at, up>>

-----------------------------------------------------------------------------
(* The restock handler.                                                    *)

\* A driver offloads; the supplier is looked up or added.
Submit(o) ==
    /\ up /\ at[o] = "new"
    /\ \/ Goto(o, "create")
       \/ "db" \in TruckFaults /\ Goto(o, "refused")
    /\ UNCHANGED <<vars, logvars, restock, publishing, up>>

\* The row and its items, in one transaction.
CreateRestockOrder(o) ==
    /\ at[o] = "create"
    /\ \/ /\ restock' = [restock EXCEPT ![o] = "PROCESSING"]
          /\ Goto(o, "call")
       \/ /\ "db" \in TruckFaults
          /\ \E status \in {"absent", "PROCESSING"} : restock' = [restock EXCEPT ![o] = status]
          /\ Goto(o, "refused")
    /\ UNCHANGED <<vars, logvars, publishing, up>>

\* RestockItemsOrder begins; its handler in inventory then broadcasts.
CallInventory(o) ==
    /\ at[o] = "call"
    /\ SaveItems(o)
    /\ Goto(o, "waiting")
    /\ UNCHANGED <<logvars, restock, publishing, up>>

\* The call fails, before or after inventory acted on it.  The row stays PROCESSING.
FailCall(o) ==
    /\ \/ at[o] = "call" /\ ("rpc" \in TruckFaults \/ "redis" \in Faults)
       \/ at[o] = "waiting" /\ "rpc" \in TruckFaults
    /\ Goto(o, "unassigned")
    /\ UNCHANGED <<vars, logvars, restock, publishing, up>>

Accept(o) ==
    /\ at[o] = "waiting"
    /\ unsent[o] = 0
    /\ Goto(o, "accepted")
    /\ UNCHANGED <<vars, logvars, restock, publishing, up>>

-----------------------------------------------------------------------------
(* The completion webhook and the goroutine it starts.                     *)

\* UpdateOrderStatus reports a missing row, and then nothing is published.
ReceiveWebhook(o) ==
    \/ /\ restock[o] # "absent"
       /\ restock' = [restock EXCEPT ![o] = "COMPLETED"]
       /\ \/ publishing' = [publishing EXCEPT ![o] = @ + 1]
          \/ "db" \in TruckFaults /\ UNCHANGED publishing
    \/ /\ restock[o] = "absent" \/ "db" \in TruckFaults
       /\ UNCHANGED <<restock, publishing>>

Post(o, s) ==
    /\ up
    /\ PostWebhook(o, s)
    /\ IF effects' # effects THEN ReceiveWebhook(o) ELSE UNCHANGED <<restock, publishing>>
    /\ UNCHANGED <<logvars, at, up>>

\* Nobody listens; the POST is not repeated.
MissPost(o, s) ==
    /\ ~up
    /\ stage[o][s] = PostStage(o)
    /\ stage' = [stage EXCEPT ![o][s] = @ + 1]
    /\ UNCHANGED <<redis, handlers, robots, effects, picked, reported, logvars, trucking>>

\* Read the row for its creation time and publish; a failed read ends the goroutine.
Publish(o) ==
    /\ publishing[o] > 0
    /\ publishing' = [publishing EXCEPT ![o] = @ - 1]
    /\ \/ Receive(o)
       \/ "db" \in TruckFaults /\ UNCHANGED logvars
    /\ UNCHANGED <<vars, restock, at, up>>

\* The completion of a customer order is published at the same socket.  The bound:
\* a metric that is queued or logged does not come again.
PublishCustomer(m) ==
    /\ up
    /\ m \notin {feed[i] : i \in DOMAIN feed} \cup {csv[i] : i \in DOMAIN csv}
    /\ Receive(m)
    /\ UNCHANGED <<vars, trucking>>

-----------------------------------------------------------------------------
(* Failures and composition.                                               *)

\* The ordering process ends, with every handler and goroutine in it.
OrderingCrash ==
    /\ "crash" \in TruckFaults /\ up
    /\ up' = FALSE
    /\ at' = [o \in Orders |-> IF at[o] \in Steps \ {"new"} THEN "broken" ELSE at[o]]
    /\ publishing' = [o \in Orders |-> 0]
    /\ UNCHANGED <<vars, logvars, restock>>

\* The operator starts the service again.
Restart ==
    /\ ~up
    /\ up' = TRUE
    /\ UNCHANGED <<vars, logvars, restock, at, publishing>>

\* A dying inventory fails the calls it was answering.
Interrupt ==
    /\ InventoryCrash
    /\ at' = [o \in Orders |-> IF at[o] = "waiting" THEN "unassigned" ELSE at[o]]
    /\ UNCHANGED <<logvars, restock, publishing, up>>

\* The steps of the workflow, and of the log, that ordering has no part in.
Alone(A)  == A /\ UNCHANGED <<logvars, trucking>>
Logging(A) == A /\ UNCHANGED <<vars, trucking>>

Settle(o, s) ==
    \/ Alone(LoadItems(o, s) \/ UpsertLine(o, s) \/ PushMetrics(o, s) \/ DeleteOrderData(o, s))
    \/ Post(o, s)
    \/ MissPost(o, s)

Restocking(o) == CreateRestockOrder(o) \/ CallInventory(o) \/ FailCall(o) \/ Accept(o)

TruckNext ==
    \/ \E o \in Orders : Submit(o) \/ Restocking(o) \/ Publish(o)
    \/ \E o \in Orders, s \in Slots : Settle(o, s)
    \/ \E o \in Orders : Alone(Broadcast(o) \/ ExpireItems(o) \/ ExpireMarker(o))
    \/ \E r \in Robots : Alone(Work(r) \/ LoseReport(r) \/ FailClaim(r) \/ RobotCrash(r))
    \/ \E m \in Metrics \ Orders : PublishCustomer(m)
    \/ Alone(RedisRestart)
    \/ Interrupt
    \/ OrderingCrash
    \/ Restart
    \/ Logging(AnalyticsNext)

TruckSpec == TruckInit /\ [][TruckNext]_truckvars

-----------------------------------------------------------------------------
(* Properties.                                                             *)

\* A driver who is refused may offload again: no robot was ever sent for the
\* refused submission, and none is sent for a restock that ordering does not know.
\* Only "failed to assign robots" can be wrong, and only if inventory's answer to
\* the call was lost.
WorkIsRecorded ==
    \A o \in Orders : dispatches[o] > 0 =>
        /\ restock[o] # "absent"
        /\ at[o] # "refused"
        /\ at[o] = "unassigned" => "rpc" \in TruckFaults \/ "crash" \in Faults

\* While the stock statements succeed, a restock that the terminal shows as
\* COMPLETED has every line of its manifest in stock, once: late reports, crashes
\* on either side of the webhook and emptied caches neither announce it too early
\* nor store a line twice.
CompletedIsStocked ==
    "service" \notin Faults =>
        \A o \in Orders :
            restock[o] = "COMPLETED" => \A i \in 1 .. Lines : effects[o][i] = 1

\* The log has at most one line for a restock, and only of one that is COMPLETED,
\* through the robots' reports, the SETNX guard, the webhook, its goroutine and
\* the publisher, whichever of the four processes die on the way.
LoggedOnce ==
    \A i \in DOMAIN csv : csv[i] \in Orders =>
        /\ restock[csv[i]] = "COMPLETED"
        /\ \A j \in DOMAIN csv : csv[i] = csv[j] => i = j
=============================================================================
