# auto_grocery: specifications, model checking and proofs

TLA+ models of auto_grocery, a grocery warehouse of Go services (ordering,
inventory, pricing), C++ workers (robots, analytics), PostgreSQL, Redis and
ZeroMQ. The models are written from the source under `src/`; comments in the
modules name the function or statement they stand for, and `PROJECT.json` gives
the lines.

1. [The system](#1-the-system)
2. [Modules and how they correspond to the code](#2-modules-and-how-they-correspond-to-the-code)
3. [Runs](#3-runs)
4. [Fairness](#4-fairness)
5. [Proofs](#5-proofs)
6. [Where code and documents disagree](#6-where-code-and-documents-disagree)
7. [What is not modelled](#7-what-is-not-modelled)
8. [Plan](#8-plan)

## 1. The system

A customer *previews* an order (stock is reserved, a row is created),
*confirms* it (ordering calls inventory, inventory broadcasts it to the robots)
or *cancels* it. Every robot picks the items of its aisle and reports back to
inventory; the report that reaches a threshold of five claims the order and
starts a *finalizer* goroutine that bills the order and posts a webhook to
ordering. A truck's restock order takes the same way, only that its finalizer
adds the manifest to the stock and sends the new totals to pricing.

| Component | State it keeps | Operations | Talks to |
|---|---|---|---|
| **ordering** (Go, HTTP) | PostgreSQL: `grocery_orders`, items, `restock_orders`, items, `smart_clients` | preview, confirm, cancel, webhook, history, receipt; truck restock, webhook, status; register, login, refresh | inventory and pricing (gRPC), analytics (ZeroMQ) |
| **inventory: stock** (Go, gRPC) | PostgreSQL: `available_stock` | ReserveItems, ReleaseItems, CheckAvailability, UpsertStock (from finalizers) | - |
| **inventory: fulfilment** | Redis DB 0 and 1: `id:items`, `id:count`, `id:finalized`; goroutines | ProcessCustomerOrder, RestockItemsOrder, ReportJobStatus, finalizers | robots (ZeroMQ), pricing (gRPC), ordering (HTTP webhook) |
| **robots** (C++, five processes, one per aisle) | a SUB queue and one job | receive, filter, pick, report | inventory (gRPC) |
| **pricing** (Go, gRPC) | PostgreSQL: `catalog` | UpdateStockMetrics, CalculateBill, GetPrice, CreateItem | - |
| **analytics** (C++) | a SUB queue, an output stream, a CSV file | append a line per message | - |
| **client and truck UI** (Streamlit) | session state per page, one auth cache file | the requests above, restoring and refreshing sessions, status polling | ordering |

What is hard about it:

* **No transaction spans two services, and few span two statements.** The
  status check of `confirm.go`, the status update and the dispatch are separate
  steps; so are the read, the release and the delete of `cancel.go`; so are the
  reservation and its rollback in `ReserveItems`. The UI gives a request up
  after a timeout and lets the user press the button again, so handlers of one
  order do overlap.
* **Counting to five.** ZeroMQ PUB/SUB may drop a broadcast, a robot does not
  repeat a report, Redis keys expire or vanish with the (volume-less) Redis
  container, inventory dies with its goroutines. SETNX on `id:finalized` alone
  keeps an order from being settled twice, and the cleanup deletes that key.
* **Fire and forget.** The webhook is posted once; pricing is told of a restock
  from a goroutine of its own; analytics is fed by a goroutine whose panic ends
  the process.
* **Errors that are dropped**: of the rollback of a partial reservation, of the
  release and the delete of a cancellation, of single manifest lines, of bcrypt,
  of a write to the CSV file.
* **Stateless tokens, shared cache.** No handler looks a token up, and all pages
  of a terminal read, write and remove one file while others wait for answers.

What would make the components correct:

* fulfilment: each step of finalizing an order takes effect at most once; no
  order is settled before every aisle was picked; without failures every order
  is completed and leaves no key behind;
* stock: no unit is made or lost; a reservation is all or nothing although it
  takes two statements; what inventory holds is what ordering has rows for;
* customer orders: handed over once; the two writers of the status do not take
  it back; nobody is left in PROCESSING;
* pricing: a price comes from a line that is in stock, agrees with the stock's
  total and cost, and is set in the end;
* truck restocks: robots are sent for restocks that have a row; a COMPLETED one
  is in stock, once, and logged at most once;
* analytics: one header, first, and no line twice;
* sessions: a registered device can log in; a page acts for one login; a session
  ends in time, and is not refused before.

`PROJECT.json` lists the hazards at their lines, with the properties that cover
each of them or the reason why none does.

## 2. Modules and how they correspond to the code

```
OnceCompletion  <--implements--  Fulfilment <-- FulfilmentInv <-- FulfilmentProofs
                                   |    |
              +--------EXTENDS-----+    +----EXTENDS---+
              |                                        |
        CustomerOrders --implements--> OrderLifecycle  |   Analytics
              |                                        |    |
      CustomerOrdersInv                              TruckRestock (EXTENDS both)
              |                                        |
      CustomerOrdersProofs                      TruckRestockInv <-- TruckRestockProofs

AtomicReservation  <--implements--  Reservation  <-- ReservationProofs  (EXTENDS Sums)
StockPricing <-- StockPricingInv <-- StockPricingProofs
Sessions     <-- SessionsInv     <-- SessionsProofs

MCFulfilment, MCCustomerOrders, MCTruckRestock, MCReservation, MCStockPricing,
MCSessions: instances for TLC
```

### Fulfilment (inventory `handler/grpc.go`, `store/memory.go`, `mq/publisher.go`; `robots/.../main.cpp`)

One variable per Redis key kind (`items`, `marker`, `count`), the handlers that
saved an order but have not broadcast it (`unsent`), the queue, program counter
and job of each robot (`inbox`, `pc`, `job`) and the next step of each finalizer
goroutine (`stage[o][slot]`). `outlived` records in which order the two keys with
a TTL were written, since both live for one hour. `effects[o][k]` counts how
often step `k` of finalizing `o` took effect: it is what the properties talk of.
`picked` and `reported` are history.

| Action | Code |
|---|---|
| `SaveItems`, `Broadcast` | the two halves of ProcessCustomerOrder and RestockItemsOrder |
| `Pick` | the receive, filter and pick loop of `RobotWorker::Run` |
| `CountReport`, `ClaimOrder`, `FailClaim` | ReportJobStatus up to INCR, and its SETNX |
| `LoseReport` | ReportToInventory fails: it only logs |
| `LoadItems`, `Bill`, `UpsertLine`, `PushMetrics`, `PostWebhook`, `DeleteOrderData` | the steps of finalizeClientOrder and finalizeRestock; a step that fails is logged and the next one runs |
| `InventoryCrash`, `RobotCrash`, `RedisRestart`, `ExpireItems`, `ExpireMarker` | failures |

Contents of orders are reduced to `WorkFor[o]`, the robots whose aisle holds an
item. `Slots` only names goroutines; an order never has more than two at a time
in the instances checked, so no claim waits for a slot. The report of a robot
and its handler share `pc`, because the robot waits for the answer without a
deadline.

`OnceCompletion` is the abstract specification: accept, report, settle,
complete, each once and in this order. `Fulfilment!Once` is the refinement
mapping: handed over, counted, items loaded, webhook applied.

### Reservation (inventory `store/stock.go`, `handler/grpc.go`)

`quantity` is the column `available_stock.quantity`. A statement is one step,
as Postgres locks the rows it updates and aborts a statement as a whole;
`ReserveStock` takes `LEAST(quantity, wanted)` of every sku, the handler compares
what came back, and a call that came up short puts it back in a second
statement (`Rollback`) whose error nobody reads (`RollbackFails`). The fault
`"rows"` is a result that ends early: `rows.Err` is not checked. `MaxQuantity`
is the limit of the INT column. One simplification: a statement sees each row as
it is when the row is locked; a row that was filtered out by `quantity > 0`
in an older snapshot, and restocked meanwhile, would give this statement 0 of a
sku where the model may give more. Such a call is rejected, which the model also
reaches by running it earlier.

`AtomicReservation` grants a cart as a whole or has no effect. The refinement
mapping counts as free what rejected calls took and did not bring back (yet), so
it says that partial reservations are never *granted*, and that nothing else
changes the stock.

`Sums` models no code: it has the facts about sums over the calls that the proofs
about both of these need.

### CustomerOrders (ordering `handlers/client`, `store/grocery_orders.go`)

Extends Fulfilment with the row of each order (`row`), its preview, the confirm
and cancel requests (`at[h]`, the next statement of handler `h`; `on[h]`, its
order), the goroutines that announce a completion to analytics, and `held[o]`:
reservations of the cart less releases of it. Every statement or call of a
handler is an action, and each has an outcome per way it can fail: a statement
or call may fail with or without having taken effect. Steps of the workflow that
ordering has no part in run unchanged (`Alone`); `CallInventory` is `SaveItems`,
`Post` is `PostWebhook` with the webhook handler, `Interrupt` is
`InventoryCrash` with the calls it breaks off. `Patient` says whether clients
wait for an answer before they ask again about the same order. `WorkFor` is
empty here: who picks what is checked in Fulfilment.

`OrderLifecycle` is what all of this promises a patient client while nothing
fails: the stock of an order is reserved before its row exists and given back
once at most, robots are sent once and while the stock is held, it is billed once
and only then COMPLETED, and deleted only after its stock was given back.
`CustomerOrders!Lifecycle` is the mapping. Two orders of which one is cancelled do
not implement it: the panic described next ends ordering also for the other one.

`Announce` is worth a remark: the goroutine reads `CreatedAt` of the order it
looks up again; if the order was cancelled meanwhile the pointer is nil, no
`recover` surrounds it, and the service ends with the handlers of all orders.

### StockPricing (inventory `finalizeRestock`, pricing `handler`, `store`, `logic`)

Finalizers of several manifests store their lines, read the totals back in one
query and push them from a goroutine; reservations take stock in between; and
pricing writes one catalog row after the other. A price is its unit cost and
its margin class (`CalculatePrice`: up to four units, more than a hundred, or
neither); the multiplication of floating point numbers is left out. The history
variables say which manifest stored a sku last, which manifests overlapped
(`shared`), which failed or were cut off by a crash of inventory, and how many units were sold since a total was read back.
A manifest has at most one line per sku, as a map keyed by sku would give; with
two lines of one sku the code adds both and pushes the sku twice.
`Billable` is CalculateBill as far as the orders are concerned: it reads the
cart's rows in one query and fails if one is missing, and the finalizer of the
order then goes on with a bill of 0.

### TruckRestock and Analytics (ordering `handlers/truck`, `store/restock_orders.go`; `analytics/.../main.cpp`)

TruckRestock extends Fulfilment, with `Restocks = Orders`, and Analytics. A
submission gets a fresh UUID, so `at[o]` is the next step of the one handler that
knows `o`. `Submit`, `CreateRestockOrder`, `CallInventory`, `FailCall` and
`Accept` are the statements of `restock.go`; `CallInventory` is `SaveItems` of
Fulfilment with the handler waiting for it; `Post` is `PostWebhook` with the
webhook handler, which starts a goroutine (`publishing[o]`) that reads the row
again and publishes (`Publish`). `OrderingCrash` ends the handlers and
goroutines, `Interrupt` is `InventoryCrash` with the calls it breaks off. The
supplier's row and the costs are left out: no other step depends on them.

Analytics has the SUB queue (`feed`), the stream and the file. The header is
written to the stream when the file is empty at the start, and reaches the disk
with the first line, which `std::endl` flushes; so a process that dies before its
first metric leaves an empty file. A write either succeeds or leaves nothing
behind and the stream bad, after which the loop goes on and writes nothing.
Partial writes are not modelled, and the queue has no limit besides the metrics
that PUB/SUB drops. `PublishCustomer` stands for the same socket's use by the
customers' webhook.

### Sessions (ordering `auth`, `handlers/client/{register,login,refresh}.go`, `store/smart_devices.go`; client `app.py`)

A token is its claims: kind, device, expiry, and, for the properties, when its
password was checked. `clients` are the rows of `smart_clients`, `cache` is the
terminal's file, and each page has its session state (`device`, `token`,
`renewal`), what it does (`at`) and when it sent the call it waits for (`sent`).
A call is sent by one action and ends in another; the server acts on it at some
moment in between (`Moments`), and no call outlasts `Timeout` (`Tick`). The
terminal's time-out is taken as one of the whole call. The periodic refresh and
the refresh button are one action, `Refresh`, which is enabled at any time. A
page is not closed while it waits for an answer. `FailRefresh` of a page that
restores a session removes the cache file, whatever another page wrote into it
meanwhile; `Refreshed` writes the page's own session back.

## 3. Runs

| Run | Instance | States | What it shows |
|---|---|---|---|
| `fulfilment_faults` | a customer and a restock order of two lines, three robots, threshold 3, all failures | 258,709 | `TypeOK`; settlement follows every robot's report and pick; refinement of `OnceCompletion` |
| `fulfilment_live` | three robots, no failures, the customer order handed over up to twice | 43,584 | no key stays behind; every order is completed, also when two rounds of reports share one counter |
| `reservation_faults` | three carts over two skus that fit one at a time, in pairs or not at all; INT limit 4 | 108,307 | no unit is made or lost; refinement of `AtomicReservation` |
| `orders_faults` | one order, two confirmations, two cancellations, a patient client, all failures | 14,152 | handed over at most once; the status is taken back only where calls to inventory can fail |
| `orders_calm` | the same without failures, with fairness | 761 | a dispatched order becomes COMPLETED or is deleted, for good; none is stranded in PROCESSING; refinement of `OrderLifecycle` |
| `orders_race` | two orders, two overlapping confirmations, one cancellation, no failures | 60,744 | stock is held exactly for orders with a row and lost previews |
| `pricing_faults` | two manifests over two skus around the margin limits, failing statements, lost pushes and crashes of inventory | 43,037 | prices come from stored lines, follow the stock where manifests do not overlap, and are set in the end; a cart of sold skus has a bill unless a push is missing |
| `restocks_faults` | one restock of two lines, two customer metrics, three robots, threshold 2, failures of every process | 62,160 | robots work for recorded restocks only; COMPLETED means stocked, once; logged at most once, under one header; late reports meet a finalizer at every stage |
| `sessions_faults` | two pages, two devices, two emails, two passwords of which bcrypt refuses one; access tokens live 3 units, refresh tokens 4, calls take at most 1, the clock ends at 6 | 3,268,853 | accounts stay usable; sessions do not mix, end in time and are not refused before |
| `orders_billed_twice`, `orders_cancels`, `pricing_stale` | one order or two manifests, no failures | - | the disagreements of section 6 |

**Why these bounds are enough.** Robots differ only in whether they have work:
two kinds, of which three robots hold one and two. What the threshold has to do
with the number of robots is either equality or less; the proofs cover all
numbers. A restock of two lines has a first and a last one to fail. Orders share
robots and nothing else, so two of them show what queues do. `MaxDispatch` is 2
where an order may be handed over again: the counter and the marker are shared
by two rounds, a third one adds no new kind of sharing. Three carts are the
least for a call that meets another one's partial reservation while a third one
takes from it. Two confirmations and two cancellations are the least that
overlap with their like. `orders_race` needs the second order because a panic in
the announcement of one order loses the preview of the other. Two manifests are
the least that overlap. `MaxRestock` and `MaxSold` bound counters that have no
bound of their own. Restocks share robots and the CSV file only, and the second
is also reached by customers' metrics, so `restocks_faults` has one restock; two
take longer than the five minutes a run is given. Two pages are the least that
share a file. `MaxTime` 6 lets a refresh token run out and the access token it
last renewed as well, and the lifetimes keep the order of the code: two
time-outs, an access token, a refresh token. The proofs have no such bounds.

`CHECK_DEADLOCK FALSE` is set everywhere: the system stops when all requests
have been made.

**Symmetry** is used for robots, slots and customers' metrics in `TruckRestock`,
for robots and requests of one kind in `CustomerOrders`, and for pages, devices
and emails in `Sessions`, which are only names there; never in a run with a
liveness property.

Every property has a mutant in `PROJECT.json`: a plausible slip in one mapped
definition (a dropped guard, an off-by-one, a forgotten reset) that TLC finds
under the same configuration. The mutated operators stand at the top of their
modules and no next-state relation uses them.

## 4. Fairness

Weak fairness, for code that runs once it was started: a dispatch handler
broadcasts, a robot's loop and the handler of its report go on, a finalizer
goroutine takes its next step, an HTTP handler takes its next statement, a push
goes on. They are goroutines or loops without a condition to wait on besides
the statement or call in hand, which returns. Nothing else is fair: a client
need not ask, an operator need not restart a service, and no failure need
happen. Liveness is only checked where no failure happens (`fulfilment_live`,
`orders_calm`) or where the failure is an allowed outcome (`EventuallyPriced`):
with a lost report, a missed POST or a crash the code makes nothing up, and an
order stays PROCESSING for ever.

## 5. Proofs

All constants are arbitrary in these theorems: robots, orders, threshold, carts,
manifests, requests, and the kinds of failure that may happen.

| Module | Theorem | Statement | Invariant it rests on |
|---|---|---|---|
| `FulfilmentProofs` | `TypeCorrect` | `Spec => []TypeOK` | itself |
| | `FinalizedOnce` | `Spec => []FinalizedAtMostOnce` | `FreshInv`, `OnceInv` |
| | `AllReportsFirst` | `Spec => []FinalizedAfterAllReports` | `FreshInv`, `ReportInv`, `PickedInv` |
| | `KeysDeleted` | `Spec => []NoKeyLeftBehind` | `FreshInv`, `OnceInv`, `ReportInv`, `KeysInv` |
| | `Implementation` | `Spec => ImplementsOnce`, if there are as many robots as the threshold and an order is handed over once | all of them, `DispatchInv` |
| `CustomerOrdersProofs` | `OrdersTypeCorrect` | `OrdersSpec => [](OrdersTypeOK /\ FreshInv)` | itself |
| | `DispatchedOnce` | `OrdersSpec => []DispatchedAtMostOnce`, if clients are patient | `PatientInv` |
| | `StatusAdvances` | `OrdersSpec => StatusOnlyAdvances`, if clients are patient | `PatientInv` |
| | `StockFollowsRows` | `OrdersSpec => []HeldForRows`, if nothing fails in ordering and there is one cancellation | `HeldInv` |
| | `OrdersFinalizedOnce` | `OrdersSpec => []FinalizedAtMostOnce` | `FreshInv`, `OnceInv` |
| | `LifecycleImplemented` | `OrdersSpec => ImplementsLifecycle`, for patient clients, no failures, and one order or any number that nobody cancels | `LifeInv` with `PatientInv`, `OnceInv` |
| | `NobodyStranded` | `OrdersSpec => []NeverStranded`, under the same conditions and with as many robots as the threshold | `FollowedInv` with `KeysInv`, `LifeInv` |
| | `ReleasedOnce` | `OrdersSpec => []ReleasesOnlyReserved`, while no order is cancelled twice | `ReleaseInv` |
| | `PatientBilledOnce` | `OrdersSpec => []BilledOnlyOnce`, if clients are patient | `PatientInv`, `OnceInv` |
| `StockPricingProofs` | `TypeCorrect` | `Spec => []TypeOK` | itself |
| | `PricesExplained` | `Spec => []PricedFromStoredLine` | `StagedInv`, `PricedInv` |
| | `PricesFollow` | `Spec => []PriceFollowsStock` | `StockInv` |
| | `BilledInTime` | `Spec => []BilledUnlessPushing` | `UnpricedInv` |
| `TruckRestockProofs` | `TruckTypeCorrect` | `TruckSpec => [](TruckTypeOK /\ WorkflowInv)` | itself, `FreshInv`, `OnceInv` |
| | `RestockFinalizedOnce` | `TruckSpec => []FinalizedAtMostOnce` | `FreshInv`, `OnceInv` |
| | `WorkRecorded` | `TruckSpec => []WorkIsRecorded` | `RecordedInv` |
| | `RestockStocked` | `TruckSpec => []CompletedIsStocked` | `OnceInv`, `StoredInv` |
| | `RestockLoggedOnce` | `TruckSpec => []LoggedOnce` | `OnceInv`, `LoggedInv` |
| | `HeaderOnce` | `TruckSpec => []OneHeader` | `HeaderInv` |
| `SessionsProofs` | `SessionTypeCorrect` | `SessionSpec => []SessionTypeOK` | `SessionInv` |
| | `CanLogin` | `SessionSpec => []RegisteredCanLogin` | `SessionInv` |
| | `OneSession` | `SessionSpec => []OneSessionPerPage` | `SessionInv` |
| | `SessionsEnd` | `SessionSpec => []SessionEnds` | `SessionInv` |
| | `RefusedLate` | `SessionSpec => []RefusedOnlyAtTheEnd` | `SessionInv` |
| `ReservationProofs` | `TypeCorrect` | `Spec => []TypeOK` | `CallInv` |
| | `GrantedWhole` | a granted call holds its whole cart | `CallInv` |
| | `Conservation` | `Spec => []Conserved` | itself, `CallInv` |
| | `AtomicImplemented` | `Spec => ImplementsAtomic` | `CallInv` |

In `FulfilmentInv`:

* `FreshInv`: an order that was not handed over has left no trace. Without it,
  the first hand-over could meet an old counter.
* `OnceInv`. `FinalizedAtMostOnce` is not inductive: the marker may expire or
  vanish with Redis, and a second finalizer then starts. What saves the order is
  that its items are written once, before the marker, and so are gone no later
  than it: as long as the items exist, the marker does too once a finalizer was
  started, hence there is one finalizer at most (`Guarded`), and a finalizer
  that starts later finds no items and returns before its first effect. Of the
  finalizers that got past loading there is one at most, with all later steps
  still to come (`Finalizing`).
* `ReportInv`: a robot hears of an order once and reports once, so the counter
  never exceeds the number of robots that reported; with as many robots as the
  threshold, whoever found the counter there found all of them.
* `PickedInv`: a robot that took or reported an order has picked its share,
  provided the aisle lookup worked.

* `KeysInv` (no failures, one robot per expected report): every robot that has not
  reported the order has the broadcast or its report ahead of it, the count is the
  number of reports until the finalizer has loaded the items, the last report is the
  only one that may claim the order, and the marker stands only while the one
  finalizer runs, which deletes all three keys when it ends.

In `CustomerOrdersInv`, `PatientInv` says why the unlocked check of `confirm.go`
suffices for a client that waits for its answers. No request is under way before
the preview was answered (`Unasked`) and one request per order at a time
(`OneAtATime`), so what a confirmation read still holds at its later steps: a
confirmation on its way to inventory finds that nothing was handed over
(`Informed`), and a status other than PENDING records every hand-over
(`Recorded`), so the next check refuses. Only the webhook writes beside it, and
only orders that were handed over.

`HeldInv` and `LifeInv` follow the one unit that a preview reserves: it is held
while the order has its row, except between a cancellation's release and its
delete. The difficult step is the goroutine that panics on a deleted row and ends
the process with every handler in it: under `HeldInv` the only cancellation is over
by then, under `LifeInv` no request is under way, because requests of a patient
client find their row. A second order would break this, as its preview may be
between reservation and row when the process ends; this is why `HeldForRows` counts
lost previews and why `LifecycleImplemented` asks for one order or for orders that
nobody cancels (`QuietOrders`): rows are then deleted by no one, and the goroutine
finds the one it looks for. With several orders, every step is about one of them and
leaves the requests, the row and the stock of each other alone (`Elsewhere`), or it is
one that ordering does not see (`QuietSplit`). `Billed` adds that a finalizer past the
bill has billed, and `OnceInv` that it did so once.

`ReleaseInv` holds whatever fails, for impatient clients as well, of every order with
at most one cancellation, overlapping or not: what its preview reserved is held until
that cancellation is past its release.

`FollowedInv` is what `NeverStranded` needs of both services at once: PROCESSING has
a hand-over behind it or right ahead, and an order whose finalizer got past the
webhook, or is over, has left PROCESSING. The other half comes from `KeysInv`, carried
into the composition by `KeysInside`: with a hand-over behind it and nobody on the
way, every robot has reported and the finalizer has run. The webhook can be missed
while ordering restarts after that panic, but then the row is gone already.

In `StockPricingInv`, `PricedInv` strengthens `PricedFromStoredLine` by "the
finalizer is over", since from then on neither its metric nor its stored lines
change. For `PriceFollowsStock`, `LastInv` ties the unit cost of a sku to the
manifest that stored it last and says that any other finalizer that could still
push this sku overlapped with it; so for an unshared manifest nobody else writes
the price, and what it read back is the stock plus what was sold since
(`FollowInv`). `UnpricedInv` says that what was ever in stock came with a
manifest, and that each manifest of a sku without a price still has it to push,
or failed to.

In `TruckRestockInv`, `RecordedInv` ties the handler's next step to its row and to
the hand-over: a submission that was refused before the call has handed nothing
over. `StoredInv` says that a finalizer past a line has stored it and that the
webhook comes after all lines, so with `OnceInv` COMPLETED means stored once.
`LoggedInv` says that the metric of a restock is in one place at most: with a
goroutine, at the socket or in the log. `HeaderInv`: the header is in the stream's
buffer only while the file is empty. The lemmas on Fulfilment's actions are those
of `FulfilmentProofs`, which `TruckRestockProofs` extends.

In `SessionsInv`, `SessionInv` says for every state of a page which tokens it holds
(`HeldOK`): a refresh token that is as old as its login, and an access token of
the same login, minted while the refresh token was alive. `CacheOK` says the same
of the file, so a restored page holds one session whoever wrote it.
`TimedOK` bounds the wait for an answer and says that the token of a second try
outlives it, which is where the assumption that an access token lives longer than
two time-outs (15 minutes against 2 times 5 seconds) is needed.

In `ReservationProofs`, type correctness is not inductive: a rollback could take
more from `taken` than is there. `CallInv` adds that the handler of a call that
came up short was told no more than it took (`Told`), that a granted call took
its cart (`Whole`) and none took more (`Modest`).

`Conservation` and `AtomicImplemented` reason about sums over the calls. Each action
changes `taken` of one call, so the sum changes by that change (`TotalUpdate` of
`Sums`), sku by sku, and the shelf by the opposite (`Exchange`). For the refinement,
`TakenSplits` divides what a call took into what counts as free (`Loose`) and what was
granted; the stock that the abstract specification calls free then changes exactly
when a verdict does, by the cart (`GrantMoves`). The sum of the community modules is a
fold: a `CHOOSE` of a recursive function on the subsets of the domain. `Sums` shows
that this function exists (`TableExists`) and that the sum may take out any element
first (`SumRemove`), without the induction theorems whose parameter the provers cannot
instantiate: subsets of a finite set are well-founded under strict inclusion, so the
set of subsets where a fact fails would have a minimal member (`NoSmallest`).

Assumptions are the named `ASSUME`s of the modules: the orders contain the
restocks, robots and calls are finite, threshold and `MaxDispatch` are positive, `WorkFor`
names robots; requests are confirmations and cancellations; carts are not empty;
quantities are naturals, unit costs positive, the stock starts within the limits
of its column; access tokens outlive two time-outs; in `TruckRestock` all orders
are restocks. TLC evaluates them in every run.

**Only model-checked**: liveness and fairness (the prover does not do ENABLED):
`EventuallyCompleted`, `EventuallyPriced`, `CompletedForGood`. Every other property of
a passing run is stated by a theorem. Several theorems have conditions that their runs
have too, no failures or clients that wait: without them TLC finds the behaviours of
section 6, or those that the comment of the property names.

## 6. Where code and documents disagree

Each of these is a run that TLC ends with a counterexample.

* `orders_billed_twice`. `src/README.md:133` calls SETNX a one-time finalization
  guard to avoid duplicate completion actions. Two overlapping confirmations
  both pass the status check; the second hand-over is finalized again once the
  cleanup of the first one has deleted the marker. `PatientBilledOnce` proves the
  claim for clients that wait for each answer.
* `orders_cancels`. `stock.go:107`: ReleaseStock restores previously reserved
  skus. Two overlapping cancellations both read the items before the first one
  deletes the row, and both release them. `ReleasedOnce` proves the claim as long as
  no order is cancelled twice.
* `pricing_stale`. `InventoryService_Guide.txt:123`: metrics carry the current
  total and the latest unit cost. A finalizer sends its own unit cost, and the
  pushes of two restocks arrive in any order.

Seen while modelling, and covered by an allowance in a property instead of a run:

* the error of the rollback in `ReserveItems` is discarded (`grpc.go:101`): the
  units of a rejected call then stay off the shelf (`Conserved` and
  `ImplementsAtomic` count them as taken by the rejected call);
* a call may be rejected for units that another call holds only until its
  rollback (`grpc.go:84`; the abstract `Reject` has no condition);
* a lost answer of inventory writes FAILED_DISPATCH over COMPLETED, or the other
  way round (`confirm.go:97`; `Advances` under `CallsFail`);
* an overlapping confirmation takes COMPLETED back to PROCESSING
  (`confirm.go:81`; `StatusOnlyAdvances` is for patient clients);
* cancel looks at no status, so the stock of an order that was picked and billed
  goes back on the shelf;
* a cancellation after the status check deletes the row, UpdateStatus changes no
  row without noticing, and robots are sent for an order that does not exist
  (`confirm.go:81`; `ImplementsLifecycle` is for patient clients);
* an order whose bill comes before the first price of one of its skus is
  completed for 0 (`grpc.go:336`; `BilledUnlessPushing` says when);
* a restock whose hand-over was answered with an error may have been handed over
  all the same, and the driver's next submission is stocked again
  (`restock.go:113`; `WorkIsRecorded` under `"rpc"` and `"crash"`);
* bcrypt refuses passwords of more than 72 bytes and `register.go:30` drops the
  error: the row gets an empty hash and the answer is 201, so the terminal says
  "Device Registered. Please Login." and no login succeeds (`TooLong` in
  `RegisteredCanLogin`);
* the refresh token that login stores ("We store the token to allow "Revoke Access"
  (Force Logout)", `src/ordering/db/migrations/000001_init_smart_clients.up.sql:20`) is
  compared by no handler, so a later login does not end an earlier session
  (`SessionEnds` bounds it by its clock alone);
* a refresh that is answered after EXIT SYSTEM in another page writes its session
  back into the cache file, and the next page is logged in again (`app.py:93`);
* after one failed write analytics reports metrics as logged and writes none
  (`main.cpp:66`; `RecordNothing`).

## 7. What is not modelled

* `CheckAvailability`, `GetPrice`, order history, receipts, status polling: they
  change nothing. `ClearExpiredStock` and `CreateItem` have no caller.
* The screens and forms of the terminals, besides the session handling of the
  client's.
* Money and arithmetic of prices; sizes and encodings of messages.
* What ZeroMQ does when two goroutines use one socket, which it forbids: a send
  is one step here.
* Network partitions as such: their effects (a call that fails with or without
  having taken effect, a lost broadcast, report or POST) are.
* Generated and vendored code. Of the 20 C++ and header files only two are the
  repository's own, the robots' and the analytics' `main.cpp`, of some 250 lines
  together; the rest, more than 20,000 lines, is generated by protobuf and
  flatbuffers or is cppzmq. Both `main.cpp` loops are modelled as a whole, but a
  coverage measured over those 20 files stays small, since the logic of the
  system is in its Go services. They are modelled handler by handler.

## 8. Plan

Every component that changes state is modelled, and each has an inductive
invariant with proofs. What is left, in this order:

1. Amounts: the bill of a cart from rows of different pushes, and the total of a
   restock that the webhook writes into its row.
2. Larger instances of `TruckRestock`: two restocks that share robots, for which
   a run has to be split by kind of failure.
