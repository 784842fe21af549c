--------------------------- MODULE CustomerOrders ---------------------------
(***************************************************************************)
(* A customer order from preview to completion: the HTTP handlers of the   *)
(* ordering service (preview, confirm, cancel and the completion webhook)  *)
(* over the row of the order in ordering's database, composed with the     *)
(* inventory workflow of Fulfilment.  Every handler is a sequence of       *)
(* separate database statements and calls, so handlers of one order        *)
(* interleave with each other and with the workflow.                       *)
(***************************************************************************)
EXTENDS Fulfilment

CONSTANTS
    Confirms,        \* requests to /api/client/order/confirm
    Cancels,         \* requests to /api/client/order/cancel
    Patient,         \* clients ask again only when the last handler has ended
    OrderingFaults   \* the kinds of failure of ordering that may happen

OrderingFaultKinds ==
    {"db",       \* a statement fails, with or without having taken effect
     "rpc",      \* a call to inventory fails, with or without having taken effect
     "crash"}    \* the ordering process dies

\* Only customer orders, and every confirmation may be handed over.  Which robots
\* pick what, and so whether the cart arrived empty, is left to Fulfilment.
ASSUME CustomersAssumption ==
    /\ Restocks = {} /\ WorkFor = [o \in Orders |-> {}]
    /\ Confirms \cap Cancels = {} /\ IsFiniteSet(Confirms)
    /\ Cardinality(Confirms) <= MaxDispatch
ASSUME PatientAssumption == Patient \in BOOLEAN
ASSUME OrderingFaultsAssumption == OrderingFaults \subseteq OrderingFaultKinds

VARIABLES
    row,          \* row[o]: grocery_orders.status, "absent" without a row
    preview,      \* preview[o]: where the preview request of o is; "lost" when it reserved
                  \* and the client never learnt its order
    held,         \* held[o]: reservations of o's cart less releases of it
    at,           \* at[h]: the next step of a confirm or cancel handler
    on,           \* on[h]: the order it is about
    announcing,   \* announcing[o]: analytics goroutines the webhook started
    up            \* the ordering process is running

requests == <<preview, at, on>>
ordering == <<row, requests, held, announcing, up>>
allvars  == <<vars, ordering>>

Requests == Confirms \cup Cancels
Statuses == {"absent", "PENDING", "PROCESSING", "COMPLETED", "FAILED_DISPATCH"}
ConfirmSteps == {"new", "items", "processing", "call", "waiting", "failing", "over"}
CancelSteps  == {"new", "items", "release", "delete", "over"}

OrdersTypeOK ==
    /\ TypeOK
    /\ row \in [Orders -> Statuses]
    /\ preview \in [Orders -> {"none", "reserved", "created", "refused", "lost"}]
    /\ held \in [Orders -> Int]
    /\ at \in [Requests -> ConfirmSteps \cup CancelSteps]
    /\ \A k \in Confirms : at[k] \in ConfirmSteps
    /\ \A x \in Cancels : at[x] \in CancelSteps
    /\ on \in [Requests -> Orders \cup {NoOrder}]
    /\ \A h \in Requests : at[h] # "new" => on[h] \in Orders
    /\ announcing \in [Orders -> Nat]
    /\ up \in BOOLEAN

OrdersInit ==
    /\ Init
    /\ row = [o \in Orders |-> "absent"]
    /\ preview = [o \in Orders |-> "none"]
    /\ held = [o \in Orders |-> 0]
    /\ at = [h \in Requests |-> "new"]
    /\ on = [h \in Requests |-> NoOrder]
    /\ announcing = [o \in Orders |-> 0]
    /\ up = TRUE

Ended(h)  == at[h] \in {"new", "over"}
Calling(o) == {k \in Confirms : on[k] = o /\ at[k] = "waiting"}

\* A handler of h moves on to step s.
Goto(h, s) == at' = [at EXCEPT ![h] = s]

\* UPDATE grocery_orders SET status: no row, no change and no error.
SetStatus(o, status) ==
    row' = [row EXCEPT ![o] = IF @ = "absent" THEN @ ELSE status]

-----------------------------------------------------------------------------
(* The same code with a plausible bug, for the properties to find.         *)

\* A confirmation that does not look at the status.
StartUnchecked(k, o) ==
    /\ up /\ at[k] = "new" /\ preview[o] = "created"
    /\ Patient => \A h \in Requests : on[h] = o => Ended(h)
    /\ Goto(k, IF row[o] # "absent" THEN "items" ELSE "over")
    /\ on' = [on EXCEPT ![k] = o]
    /\ UNCHANGED <<vars, row, preview, held, announcing, up>>

\* A confirmation that notes PROCESSING after the dispatch.
ReplyAndMark(k) ==
    /\ at[k] = "waiting"
    /\ unsent[on[k]] < Cardinality(Calling(on[k]))
    /\ SetStatus(on[k], "PROCESSING")
    /\ Goto(k, "over")
    /\ UNCHANGED <<vars, preview, on, held, announcing, up>>

\* A cancellation that forgets the reservation.
ReadNothing(x) ==
    /\ at[x] = "items"
    /\ Goto(x, "delete")
    /\ UNCHANGED <<vars, row, preview, on, held, announcing, up>>

\* A cancellation that leaves the row.
DeleteNothing(x) ==
    /\ at[x] = "delete"
    /\ Goto(x, "over")
    /\ UNCHANGED <<vars, row, preview, on, held, announcing, up>>

-----------------------------------------------------------------------------
(* Preview: ReserveItems, then CreateGroceryOrder.                         *)

\* Whether the stock suffices is Reservation's business: either answer may come.
Preview(o) ==
    /\ up /\ preview[o] = "none"
    /\ \/ /\ held' = [held EXCEPT ![o] = @ + 1]
          /\ preview' = [preview EXCEPT ![o] = "reserved"]
       \/ /\ preview' = [preview EXCEPT ![o] = "refused"]
          /\ UNCHANGED held
       \/ /\ "rpc" \in OrderingFaults
          /\ held' = [held EXCEPT ![o] = @ + 1]
          /\ preview' = [preview EXCEPT ![o] = "lost"]
    /\ UNCHANGED <<vars, row, at, on, announcing, up>>

\* One transaction.  When it fails, nobody gives the reservation back.
CreateOrder(o) ==
    /\ preview[o] = "reserved"
    /\ \/ /\ row' = [row EXCEPT ![o] = "PENDING"]
          /\ preview' = [preview EXCEPT ![o] = "created"]
       \/ /\ "db" \in OrderingFaults
          /\ \E status \in {"absent", "PENDING"} : row' = [row EXCEPT ![o] = status]
          /\ preview' = [preview EXCEPT ![o] = "lost"]
    /\ UNCHANGED <<vars, at, on, held, announcing, up>>

-----------------------------------------------------------------------------
(* Requests about an order that the client knows from its preview.         *)

Ask(h, o) ==
    /\ up /\ at[h] = "new" /\ preview[o] = "created"
    /\ Patient => \A other \in Requests : on[other] = o => Ended(other)
    /\ on' = [on EXCEPT ![h] = o]
    /\ UNCHANGED <<vars, row, preview, held, announcing, up>>

\* Confirm: GetOrderByID and the status check.  Without a row the handler
\* dereferences nil; net/http recovers.
StartConfirm(k, o) ==
    /\ Ask(k, o)
    /\ Goto(k, IF row[o] = "PENDING" THEN "items" ELSE "over")

\* GetOrderItems is two queries: the row may go before the first (an error) or
\* between them (an empty cart).
ReadItems(k) ==
    /\ at[k] = "items"
    /\ \/ Goto(k, "processing")
       \/ row[on[k]] = "absent" /\ Goto(k, "over")
    /\ UNCHANGED <<vars, row, preview, on, held, announcing, up>>

SetProcessing(k) ==
    /\ at[k] = "processing"
    /\ SetStatus(on[k], "PROCESSING")
    /\ Goto(k, "call")
    /\ UNCHANGED <<vars, preview, on, held, announcing, up>>

\* A failed query, or a failed update that may have happened, ends the handler.
FailConfirm(k) ==
    /\ "db" \in OrderingFaults
    /\ \/ at[k] = "items" /\ UNCHANGED row
       \/ at[k] = "processing" /\ (SetStatus(on[k], "PROCESSING") \/ UNCHANGED row)
    /\ Goto(k, "over")
    /\ UNCHANGED <<vars, preview, on, held, announcing, up>>

\* ProcessCustomerOrder begins; its handler in inventory then broadcasts.
CallInventory(k) ==
    /\ at[k] = "call"
    /\ SaveItems(on[k])
    /\ Goto(k, "waiting")
    /\ UNCHANGED <<row, preview, on, held, announcing, up>>

\* The call fails: inventory is unreachable or cannot save, or its answer is lost.
FailCall(k) ==
    /\ \/ at[k] = "call" /\ ("rpc" \in OrderingFaults \/ "redis" \in Faults)
       \/ at[k] = "waiting" /\ "rpc" \in OrderingFaults
    /\ Goto(k, "failing")
    /\ UNCHANGED <<vars, row, preview, on, held, announcing, up>>

\* Inventory answers after its broadcast.
Reply(k) ==
    /\ at[k] = "waiting"
    /\ unsent[on[k]] < Cardinality(Calling(on[k]))
    /\ Goto(k, "over")
    /\ UNCHANGED <<vars, row, preview, on, held, announcing, up>>

FailDispatch(k) ==
    /\ at[k] = "failing"
    /\ \/ SetStatus(on[k], "FAILED_DISPATCH")
       \/ "db" \in OrderingFaults /\ UNCHANGED row
    /\ Goto(k, "over")
    /\ UNCHANGED <<vars, preview, on, held, announcing, up>>

-----------------------------------------------------------------------------
(* Cancel: it looks at no status and ignores every error.                  *)

StartCancel(x, o) ==
    /\ Ask(x, o)
    /\ Goto(x, IF row[o] = "absent" THEN "over" ELSE "items")

\* Without the items there is nothing to release.
ReadCart(x) ==
    /\ at[x] = "items"
    /\ \/ row[on[x]] # "absent" /\ Goto(x, "release")
       \/ /\ row[on[x]] = "absent" \/ "db" \in OrderingFaults
          /\ Goto(x, "delete")
    /\ UNCHANGED <<vars, row, preview, on, held, announcing, up>>

ReleaseCart(x) ==
    /\ at[x] = "release"
    /\ \/ held' = [held EXCEPT ![on[x]] = @ - 1]
       \/ "rpc" \in OrderingFaults /\ UNCHANGED held
    /\ Goto(x, "delete")
    /\ UNCHANGED <<vars, row, preview, on, announcing, up>>

DeleteOrder(x) ==
    /\ at[x] = "delete"
    /\ \/ row' = [row EXCEPT ![on[x]] = "absent"]
       \/ "db" \in OrderingFaults /\ UNCHANGED row
    /\ Goto(x, "over")
    /\ UNCHANGED <<vars, preview, on, held, announcing, up>>

-----------------------------------------------------------------------------
(* The completion webhook and the goroutine it starts.                     *)

\* UpdateOrderStatus does report a missing row; inventory only logs the answer.
ReceiveWebhook(o) ==
    \/ /\ row[o] # "absent"
       /\ SetStatus(o, "COMPLETED")
       /\ announcing' = [announcing EXCEPT ![o] = @ + 1]
    \/ /\ row[o] = "absent" \/ "db" \in OrderingFaults
       /\ UNCHANGED <<row, announcing>>

Post(o, s) ==
    /\ PostWebhook(o, s)
    /\ IF effects' # effects THEN ReceiveWebhook(o) ELSE UNCHANGED <<row, announcing>>
    /\ up
    /\ UNCHANGED <<requests, held, up>>

\* Nobody listens; the POST is not repeated.
MissPost(o, s) ==
    /\ ~up
    /\ stage[o][s] = PostStage(o)
    /\ stage' = [stage EXCEPT ![o][s] = @ + 1]
    /\ UNCHANGED <<redis, handlers, robots, effects, picked, reported, ordering>>

\* The ordering process ends, with every handler and goroutine in it.
Die ==
    /\ up' = FALSE
    /\ at' = [h \in Requests |-> IF Ended(h) THEN at[h] ELSE "over"]
    /\ preview' = [o \in Orders |-> IF preview[o] = "reserved" THEN "lost" ELSE preview[o]]
    /\ announcing' = [o \in Orders |-> 0]
    /\ UNCHANGED <<vars, row, on, held>>

\* GetOrderByID returns nil without a row and the goroutine reads its CreatedAt:
\* nothing recovers a panic outside of a handler.
Announce(o) ==
    /\ announcing[o] > 0
    /\ \/ /\ row[o] # "absent" \/ "db" \in OrderingFaults
          /\ announcing' = [announcing EXCEPT ![o] = @ - 1]
          /\ UNCHANGED <<vars, row, requests, held, up>>
       \/ row[o] = "absent" /\ Die

OrderingCrash == "crash" \in OrderingFaults /\ up /\ Die

\* The operator starts the service again.
Restart ==
    /\ ~up
    /\ up' = TRUE
    /\ UNCHANGED <<vars, row, requests, held, announcing>>

-----------------------------------------------------------------------------
(* Composition.                                                            *)

\* A dying inventory fails the calls it was answering.
Interrupt ==
    /\ InventoryCrash
    /\ at' = [h \in Requests |-> IF at[h] = "waiting" THEN "failing" ELSE at[h]]
    /\ UNCHANGED <<row, preview, on, held, announcing, up>>

\* The steps of the workflow that ordering has no part in.
Alone(A) == A /\ UNCHANGED ordering

Settle(o, s) ==
    \/ Alone(LoadItems(o, s) \/ Bill(o, s) \/ DeleteOrderData(o, s))
    \/ Post(o, s)
    \/ MissPost(o, s)

Confirm(k) ==
    \/ ReadItems(k) \/ SetProcessing(k) \/ FailConfirm(k)
    \/ CallInventory(k) \/ FailCall(k) \/ Reply(k) \/ FailDispatch(k)

Cancel(x) == ReadCart(x) \/ ReleaseCart(x) \/ DeleteOrder(x)

OrdersNext ==
    \/ \E o \in Orders : Preview(o) \/ CreateOrder(o) \/ Announce(o)
    \/ \E o \in Orders, k \in Confirms : StartConfirm(k, o)
    \/ \E o \in Orders, x \in Cancels : StartCancel(x, o)
    \/ \E k \in Confirms : Confirm(k)
    \/ \E x \in Cancels : Cancel(x)
    \/ \E o \in Orders, s \in Slots : Settle(o, s)
    \/ \E o \in Orders : Alone(Broadcast(o) \/ ExpireItems(o) \/ ExpireMarker(o))
    \/ \E r \in Robots : Alone(Work(r) \/ LoseReport(r) \/ FailClaim(r) \/ RobotCrash(r))
    \/ Alone(RedisRestart)
    \/ Interrupt
    \/ OrderingCrash
    \/ Restart

OrdersSpec == OrdersInit /\ [][OrdersNext]_allvars

\* Handlers, goroutines and robots that can run do; clients, operators and
\* failures need not come.
OrdersFairness ==
    /\ \A o \in Orders : WF_allvars(CreateOrder(o)) /\ WF_allvars(Announce(o))
    /\ \A k \in Confirms : WF_allvars(Confirm(k))
    /\ \A x \in Cancels : WF_allvars(Cancel(x))
    /\ \A o \in Orders : WF_allvars(Alone(Broadcast(o)))
    /\ \A r \in Robots : WF_allvars(Alone(Work(r)))
    /\ \A o \in Orders : \A s \in Slots : WF_allvars(Settle(o, s))

OrdersFairSpec == OrdersSpec /\ OrdersFairness

-----------------------------------------------------------------------------
(* Properties.                                                             *)

\* The status check of confirm.go: an order is handed over at most once while its
\* client waits for each answer, whatever fails on the way.
DispatchedAtMostOnce == \A o \in Orders : dispatches[o] <= 1

\* While the client waits for each answer, no step takes a status back, although
\* ordering and inventory both write it: an order that left PENDING or PROCESSING
\* does not return there, a deleted row does not reappear, and COMPLETED and
\* FAILED_DISPATCH overwrite each other only if calls to inventory can fail.
CallsFail == "rpc" \in OrderingFaults \/ "crash" \in Faults

Advances ==
    {<<"absent", "PENDING">>, <<"PENDING", "PROCESSING">>,
     <<"PROCESSING", "COMPLETED">>, <<"PROCESSING", "FAILED_DISPATCH">>}
    \cup (Statuses \X {"absent"})
    \cup (IF CallsFail THEN {<<"COMPLETED", "FAILED_DISPATCH">>,
                              <<"FAILED_DISPATCH", "COMPLETED">>} ELSE {})

StatusOnlyAdvances ==
    [][\A o \in Orders :
        /\ row'[o] # row[o] => <<row[o], row'[o]>> \in Advances
        /\ preview[o] = "created" /\ row[o] = "absent" => row'[o] = "absent"]_allvars

\* No request about o is being handled, and none of its workflow is under way.
Calm(o) ==
    /\ preview[o] # "reserved"
    /\ \A h \in Requests : on[h] = o => Ended(h)
    /\ Quiet(o)

\* Without failures, and with one cancellation at most, stock is held exactly for
\* the orders that have a row and for lost previews: ordering and inventory agree,
\* although they share no transaction and confirmations overlap with the rest.
HeldForRows ==
    \A o \in Orders :
        Calm(o) => held[o] = IF row[o] # "absent" \/ preview[o] = "lost" THEN 1 ELSE 0

\* Without failures and with patient clients, an order does not stay PROCESSING with
\* nobody left to complete it, unless a cancelled order of another ends ordering.
NeverStranded ==
    \A o \in Orders : Calm(o) => row[o] # "PROCESSING"

\* Then also an order that was handed over becomes COMPLETED or is deleted, and
\* stays so.
CompletedForGood ==
    \A o \in Orders : dispatches[o] > 0 ~> [](row[o] \in {"COMPLETED", "absent"})

\* How far an order got, whichever of the two services knows.
ShownStatus(o) ==
    CASE preview[o] \in {"none", "refused"} -> "none"
      [] preview[o] = "reserved" -> "reserved"
      [] preview[o] \in {"created", "lost"} /\ row[o] = "absent" -> "gone"
      [] OTHER -> row[o]

Lifecycle ==
    INSTANCE OrderLifecycle WITH
        status     <- [o \in Orders |-> ShownStatus(o)],
        holding    <- held,
        dispatched <- dispatches,
        billed     <- [o \in Orders |-> effects[o][BillStage]]

\* Without failures and with patient clients, the handlers, the workflow and the
\* two databases together keep to OrderLifecycle: no sequence of confirmations and
\* cancellations sends robots for stock that was given back, bills or releases
\* twice, or completes what was not billed.
ImplementsLifecycle == Lifecycle!Spec

-----------------------------------------------------------------------------
(* What the repository says of the program and its handlers do not do.     *)

\* README.md: Redis has a "One-time finalization guard (`SETNX`) to avoid
\* duplicate completion actions".  Two confirmations that overlap both pass the
\* status check, and the cleanup of the first one's finalizer deletes the guard.
BilledOnlyOnce == \A o \in Orders : effects[o][BillStage] <= 1

\* stock.go: "ReleaseStock restores quantities for previously reserved SKUs".
\* Overlapping cancellations release the same reservation twice.
ReleasesOnlyReserved == \A o \in Orders : held[o] >= 0
=============================================================================
