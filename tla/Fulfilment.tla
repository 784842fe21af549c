----------------------------- MODULE Fulfilment -----------------------------
(***************************************************************************)
(* The inventory service's workflow from "an order was handed over" to     *)
(* "the order is completed": the dispatch handlers save the order's items  *)
(* in Redis and broadcast it to the robots, every robot picks its aisle    *)
(* and reports back, the report that reaches the threshold claims the      *)
(* order with SETNX and starts a finalizer goroutine, and the finalizer    *)
(* loads the items, bills or restocks them, posts the completion webhook   *)
(* and deletes the order's keys.                                           *)
(*                                                                         *)
(* Customer orders (Redis DB 0) and restock orders (Redis DB 1) share the  *)
(* code path; Restocks names the second kind.                              *)
(***************************************************************************)
EXTENDS Integers, Sequences, FiniteSets

CONSTANTS
    Orders,       \* order ids
    Restocks,     \* the restock orders among them
    NoOrder,      \* "this robot has no job"
    Robots,       \* the robot workers, one per aisle
    Slots,        \* names for the finalizer goroutines an order may have at once
    Threshold,    \* reports that complete an order: the literal 5 of ReportJobStatus
    MaxDispatch,  \* bound: times one customer order may be handed over
    Lines,        \* lines of a restock manifest
    WorkFor,      \* WorkFor[o]: the robots whose aisle holds an item of o
    Faults        \* the kinds of failure that may happen

FaultKinds ==
    {"loss",      \* a broadcast or a report is lost
     "lookup",    \* the aisle lookup of a customer order fails
     "service",   \* pricing, a stock statement or the webhook fails
     "crash",     \* inventory or a robot process dies and restarts
     "redis",     \* a Redis command fails, or Redis restarts empty
     "expiry"}    \* the one hour TTL of a key runs out

ASSUME OrdersAssumption == Restocks \subseteq Orders /\ NoOrder \notin Orders
ASSUME RobotsAssumption == IsFiniteSet(Robots)
ASSUME ThresholdAssumption == Threshold \in Nat \ {0} /\ MaxDispatch \in Nat \ {0}
ASSUME LinesAssumption == Lines \in Nat
ASSUME WorkAssumption == WorkFor \in [Orders -> SUBSET Robots]
ASSUME FaultsAssumption == Faults \subseteq FaultKinds

VARIABLES
    \* Redis
    items,        \* items[o]: the key o:items exists
    marker,       \* marker[o]: the key o:finalized exists
    count,        \* count[o]: the value of o:count, 0 when the key is absent
    outlived,     \* outlived[o]: o:items was saved after o:finalized was set
    \* dispatch handlers
    dispatches,   \* dispatches[o]: handlers that saved the items of o so far
    unsent,       \* unsent[o]: those that have not broadcast yet
    \* robots and the report handlers they wait for
    inbox,        \* inbox[r]: broadcasts queued at the SUB socket of r
    pc,           \* pc[r]: "idle", "reporting", or "counted" (INCR done, SETNX to come)
    job,          \* job[r]: the order r is working on
    \* finalizer goroutines
    stage,        \* stage[o][s]: the next step of a finalizer, or Idle
    \* what happened outside
    effects,      \* effects[o][k]: how often step k of finalizing o took effect
    picked,       \* picked[o]: robots that picked items of o
    reported      \* reported[o]: robots whose report for o was counted

redis      == <<items, marker, count, outlived>>
handlers   == <<dispatches, unsent>>
robots     == <<inbox, pc, job>>
vars       == <<redis, handlers, robots, stage, effects, picked, reported>>

(***************************************************************************)
(* The steps of a finalizer, in order: 0 loads the items; a customer order *)
(* is then billed (1) and posted (2); a restock stores its lines           *)
(* (1..Lines), starts the push of its metrics and posts.  One more step    *)
(* deletes the keys.                                                       *)
(***************************************************************************)
Idle == -1
LoadStage    == 0
BillStage    == 1
PushStage    == Lines + 1
PostStage(o) == IF o \in Restocks THEN Lines + 2 ELSE 2
Stages       == 0 .. (Lines + 2)

Message == [order : Orders, work : SUBSET Robots]

TypeOK ==
    /\ items \in [Orders -> BOOLEAN]
    /\ marker \in [Orders -> BOOLEAN]
    /\ count \in [Orders -> Nat]
    /\ outlived \in [Orders -> BOOLEAN]
    /\ dispatches \in [Orders -> Nat]
    /\ unsent \in [Orders -> Nat]
    /\ inbox \in [Robots -> Seq(Message)]
    /\ pc \in [Robots -> {"idle", "reporting", "counted"}]
    /\ job \in [Robots -> Orders \cup {NoOrder}]
    /\ \A r \in Robots : pc[r] # "idle" => job[r] \in Orders
    /\ stage \in [Orders -> [Slots -> Idle .. (Lines + 3)]]
    /\ effects \in [Orders -> [Stages -> Nat]]
    /\ picked \in [Orders -> SUBSET Robots]
    /\ reported \in [Orders -> SUBSET Robots]

Init ==
    /\ items = [o \in Orders |-> FALSE]
    /\ marker = [o \in Orders |-> FALSE]
    /\ count = [o \in Orders |-> 0]
    /\ outlived = [o \in Orders |-> FALSE]
    /\ dispatches = [o \in Orders |-> 0]
    /\ unsent = [o \in Orders |-> 0]
    /\ inbox = [r \in Robots |-> << >>]
    /\ pc = [r \in Robots |-> "idle"]
    /\ job = [r \in Robots |-> NoOrder]
    /\ stage = [o \in Orders |-> [s \in Slots |-> Idle]]
    /\ effects = [o \in Orders |-> [k \in Stages |-> 0]]
    /\ picked = [o \in Orders |-> {}]
    /\ reported = [o \in Orders |-> {}]

\* Step k of the finalizer s of o took effect.
Done(o, s, k) ==
    /\ stage' = [stage EXCEPT ![o][s] = k + 1]
    /\ effects' = [effects EXCEPT ![o][k] = @ + 1]

-----------------------------------------------------------------------------
(* The same code with a plausible bug.  None of these operators is part of *)
(* Next; the properties below must tell each of them from the real one.    *)

\* The threshold off by one, to either side.
ReachedEarly(n) == n >= Threshold - 1
ReachedLate(n)  == n > Threshold

\* A broadcast handler that may send again.
BroadcastAgain(o) ==
    /\ dispatches[o] > 0
    /\ inbox' = [r \in Robots |-> Append(inbox[r], [order |-> o, work |-> WorkFor[o]])]
    /\ unsent' = [unsent EXCEPT ![o] = @ - 1]
    /\ UNCHANGED <<redis, dispatches, pc, job, stage, effects, picked, reported>>

\* A robot that reports only when it found work.
PickNoReport(r) ==
    /\ pc[r] = "idle"
    /\ inbox[r] # << >>
    /\ LET msg == Head(inbox[r])
           works == r \in msg.work
       IN /\ job' = [job EXCEPT ![r] = IF works THEN msg.order ELSE NoOrder]
          /\ pc' = [pc EXCEPT ![r] = IF works THEN "reporting" ELSE "idle"]
          /\ picked' = [picked EXCEPT ![msg.order] = IF works THEN @ \cup {r} ELSE @]
    /\ inbox' = [inbox EXCEPT ![r] = Tail(@)]
    /\ UNCHANGED <<redis, handlers, stage, effects, reported>>

\* A handler that starts a finalizer without asking SETNX.
ClaimAlways(r) ==
    LET o == job[r] IN
    /\ pc[r] = "counted"
    /\ \E s \in Slots :
          /\ stage[o][s] = Idle
          /\ stage' = [stage EXCEPT ![o][s] = LoadStage]
    /\ marker' = [marker EXCEPT ![o] = TRUE]
    /\ pc' = [pc EXCEPT ![r] = "idle"]
    /\ job' = [job EXCEPT ![r] = NoOrder]
    /\ UNCHANGED <<items, count, outlived, handlers, inbox, effects, picked, reported>>

\* A finalizer that goes on, and announces the order, without its items.
LoadAnyway(o, s) ==
    /\ stage[o][s] = LoadStage
    /\ \/ items[o] /\ Done(o, s, LoadStage)
       \/ /\ ~items[o]
          /\ stage' = [stage EXCEPT ![o][s] = PostStage(o)]
          /\ UNCHANGED effects
    /\ UNCHANGED <<redis, handlers, robots, picked, reported>>

\* A cleanup that forgets the counter.
DeleteButCount(o, s) ==
    /\ stage[o][s] = PostStage(o) + 1
    /\ items' = [items EXCEPT ![o] = FALSE]
    /\ marker' = [marker EXCEPT ![o] = FALSE]
    /\ stage' = [stage EXCEPT ![o][s] = Idle]
    /\ UNCHANGED <<count, outlived, handlers, robots, effects, picked, reported>>

\* A restart that runs interrupted finalizers again from the start.
CrashAndRerun ==
    /\ "crash" \in Faults
    /\ unsent' = [o \in Orders |-> 0]
    /\ stage' = [o \in Orders |-> [s \in Slots |->
                    IF stage[o][s] = Idle THEN Idle ELSE LoadStage]]
    /\ pc' = [r \in Robots |-> IF pc[r] = "counted" THEN "idle" ELSE pc[r]]
    /\ job' = [r \in Robots |-> IF pc[r] = "counted" THEN NoOrder ELSE job[r]]
    /\ UNCHANGED <<redis, dispatches, inbox, effects, picked, reported>>

-----------------------------------------------------------------------------
(* Dispatch: ProcessCustomerOrder and RestockItemsOrder.                   *)

\* A restock id is a fresh UUID handed over once; nothing in inventory stops a
\* customer order from being handed over again.
DispatchLimit(o) == IF o \in Restocks THEN 1 ELSE MaxDispatch

\* SaveOrderItems or SaveRestockItems: SET with a TTL.  A marker that is there
\* already is now older than the items.
SaveItems(o) ==
    /\ dispatches[o] < DispatchLimit(o)
    /\ items' = [items EXCEPT ![o] = TRUE]
    /\ outlived' = [outlived EXCEPT ![o] = marker[o]]
    /\ dispatches' = [dispatches EXCEPT ![o] = @ + 1]
    /\ unsent' = [unsent EXCEPT ![o] = @ + 1]
    /\ UNCHANGED <<marker, count, robots, stage, effects, picked, reported>>

\* The aisles the broadcast names: a failed lookup labels every item "Unknown".
Routings(o) ==
    {WorkFor[o]} \cup (IF "lookup" \in Faults /\ o \notin Restocks THEN {{}} ELSE {})

\* PUB/SUB promises no delivery: each robot gets the broadcast or does not.
Audiences == IF "loss" \in Faults THEN SUBSET Robots ELSE {Robots}

Broadcast(o) ==
    /\ unsent[o] > 0
    /\ \E work \in Routings(o), audience \in Audiences :
          inbox' = [r \in Robots |-> IF r \in audience
                                     THEN Append(inbox[r], [order |-> o, work |-> work])
                                     ELSE inbox[r]]
    /\ unsent' = [unsent EXCEPT ![o] = @ - 1]
    /\ UNCHANGED <<redis, dispatches, pc, job, stage, effects, picked, reported>>

-----------------------------------------------------------------------------
(* Robots, and the report handler a robot waits for.                       *)

\* Receive the next broadcast and pick the items of the own aisle.
Pick(r) ==
    /\ pc[r] = "idle"
    /\ inbox[r] # << >>
    /\ LET msg == Head(inbox[r]) IN
          /\ job' = [job EXCEPT ![r] = msg.order]
          /\ picked' = [picked EXCEPT ![msg.order] = IF r \in msg.work THEN @ \cup {r} ELSE @]
    /\ inbox' = [inbox EXCEPT ![r] = Tail(@)]
    /\ pc' = [pc EXCEPT ![r] = "reporting"]
    /\ UNCHANGED <<redis, handlers, stage, effects, reported>>

\* The robot is answered, or gives the report up: either way it goes on with
\* its next broadcast.
Release(r) ==
    /\ pc' = [pc EXCEPT ![r] = "idle"]
    /\ job' = [job EXCEPT ![r] = NoOrder]

\* The count that lets a report try to claim its order.
Reached(n) == n >= Threshold

\* ReportJobStatus: INCR the counter, and go on to SETNX at the threshold.
CountReport(r) ==
    LET o == job[r] IN
    /\ pc[r] = "reporting"
    /\ count' = [count EXCEPT ![o] = @ + 1]
    /\ reported' = [reported EXCEPT ![o] = @ \cup {r}]
    /\ IF Reached(count[o] + 1)
       THEN pc' = [pc EXCEPT ![r] = "counted"] /\ UNCHANGED job
       ELSE Release(r)
    /\ UNCHANGED <<items, marker, outlived, handlers, inbox, stage, effects, picked>>

\* The report does not reach the counter; the robot only logs the failure.
LoseReport(r) ==
    /\ "loss" \in Faults
    /\ pc[r] = "reporting"
    /\ Release(r)
    /\ UNCHANGED <<redis, handlers, inbox, stage, effects, picked, reported>>

\* TryMarkOrderFinalized: the handler whose SETNX succeeds starts a finalizer.
ClaimOrder(r) ==
    LET o == job[r] IN
    /\ pc[r] = "counted"
    /\ IF marker[o]
       THEN UNCHANGED <<marker, stage>>
       ELSE \E s \in Slots :
              /\ stage[o][s] = Idle
              /\ stage' = [stage EXCEPT ![o][s] = LoadStage]
              /\ marker' = [marker EXCEPT ![o] = TRUE]
    /\ Release(r)
    /\ UNCHANGED <<items, count, outlived, handlers, inbox, effects, picked, reported>>

\* The SETNX fails: the handler returns the error and nobody tries again.
FailClaim(r) ==
    /\ "redis" \in Faults
    /\ pc[r] = "counted"
    /\ Release(r)
    /\ UNCHANGED <<redis, handlers, inbox, stage, effects, picked, reported>>

-----------------------------------------------------------------------------
(* Finalizers: finalizeClientOrder and finalizeRestock.                    *)

\* Step k failed; the code logs the error and goes on.
Skipped(o, s, k) ==
    /\ "service" \in Faults
    /\ stage' = [stage EXCEPT ![o][s] = k + 1]
    /\ UNCHANGED effects

\* GetOrderItems or GetRestockItems; without the items the finalizer returns
\* and leaves the marker and the count behind.
LoadItems(o, s) ==
    /\ stage[o][s] = LoadStage
    /\ \/ items[o] /\ Done(o, s, LoadStage)
       \/ /\ ~items[o] \/ "redis" \in Faults
          /\ stage' = [stage EXCEPT ![o][s] = Idle]
          /\ UNCHANGED effects
    /\ UNCHANGED <<redis, handlers, robots, picked, reported>>

\* CalculateBill; a failed call leaves the price at 0.
Bill(o, s) ==
    /\ o \notin Restocks
    /\ stage[o][s] = BillStage
    /\ Done(o, s, BillStage) \/ Skipped(o, s, BillStage)
    /\ UNCHANGED <<redis, handlers, robots, picked, reported>>

\* UpsertStock for the next line of the manifest; a failed line is skipped.
UpsertLine(o, s) ==
    /\ o \in Restocks
    /\ stage[o][s] \in 1 .. Lines
    /\ Done(o, s, stage[o][s]) \/ Skipped(o, s, stage[o][s])
    /\ UNCHANGED <<redis, handlers, robots, picked, reported>>

\* Read the stored lines back and start the goroutine that sends them to pricing,
\* unless none was stored; the effect is the start, the sending is Pricing's.
PushMetrics(o, s) ==
    /\ o \in Restocks
    /\ stage[o][s] = PushStage
    /\ \/ /\ \E i \in 1 .. Lines : effects[o][i] > 0
          /\ Done(o, s, PushStage)
       \/ /\ \A i \in 1 .. Lines : effects[o][i] = 0
          /\ stage' = [stage EXCEPT ![o][s] = PushStage + 1]
          /\ UNCHANGED effects
       \/ Skipped(o, s, PushStage)
    /\ UNCHANGED <<redis, handlers, robots, picked, reported>>

\* callWebhook: one POST of "COMPLETED", never repeated.
PostWebhook(o, s) ==
    /\ stage[o][s] = PostStage(o)
    /\ Done(o, s, PostStage(o)) \/ Skipped(o, s, PostStage(o))
    /\ UNCHANGED <<redis, handlers, robots, picked, reported>>

\* DeleteOrderData: one DEL of the items, the count and the marker.
DeleteOrderData(o, s) ==
    /\ stage[o][s] = PostStage(o) + 1
    /\ \/ /\ items' = [items EXCEPT ![o] = FALSE]
          /\ marker' = [marker EXCEPT ![o] = FALSE]
          /\ count' = [count EXCEPT ![o] = 0]
          /\ outlived' = [outlived EXCEPT ![o] = FALSE]
       \/ "redis" \in Faults /\ UNCHANGED redis
    /\ stage' = [stage EXCEPT ![o][s] = Idle]
    /\ UNCHANGED <<handlers, robots, effects, picked, reported>>

-----------------------------------------------------------------------------
(* Failures.                                                               *)

\* Inventory dies: its goroutines are gone, and nothing resumes them.
InventoryCrash ==
    /\ "crash" \in Faults
    /\ unsent' = [o \in Orders |-> 0]
    /\ stage' = [o \in Orders |-> [s \in Slots |-> Idle]]
    /\ pc' = [r \in Robots |-> IF pc[r] = "counted" THEN "idle" ELSE pc[r]]
    /\ job' = [r \in Robots |-> IF pc[r] = "counted" THEN NoOrder ELSE job[r]]
    /\ UNCHANGED <<redis, dispatches, inbox, effects, picked, reported>>

\* A robot dies: its job and its queue are gone.
RobotCrash(r) ==
    /\ "crash" \in Faults
    /\ pc[r] = "reporting" \/ inbox[r] # << >>
    /\ pc[r] # "counted"
    /\ Release(r)
    /\ inbox' = [inbox EXCEPT ![r] = << >>]
    /\ UNCHANGED <<redis, handlers, stage, effects, picked, reported>>

\* Redis restarts without its data: it runs with no volume.
RedisRestart ==
    /\ "redis" \in Faults
    /\ items' = [o \in Orders |-> FALSE]
    /\ marker' = [o \in Orders |-> FALSE]
    /\ count' = [o \in Orders |-> 0]
    /\ outlived' = [o \in Orders |-> FALSE]
    /\ UNCHANGED <<handlers, robots, stage, effects, picked, reported>>

\* Both keys live for one hour, so the one written first expires first; the
\* count has no TTL.
ExpireItems(o) ==
    /\ "expiry" \in Faults
    /\ items[o] /\ ~outlived[o]
    /\ items' = [items EXCEPT ![o] = FALSE]
    /\ UNCHANGED <<marker, count, outlived, handlers, robots, stage, effects, picked, reported>>

ExpireMarker(o) ==
    /\ "expiry" \in Faults
    /\ marker[o] /\ (items[o] => outlived[o])
    /\ marker' = [marker EXCEPT ![o] = FALSE]
    /\ outlived' = [outlived EXCEPT ![o] = FALSE]
    /\ UNCHANGED <<items, count, handlers, robots, stage, effects, picked, reported>>

-----------------------------------------------------------------------------
Finalize(o, s) ==
    \/ LoadItems(o, s)
    \/ Bill(o, s)
    \/ UpsertLine(o, s)
    \/ PushMetrics(o, s)
    \/ PostWebhook(o, s)
    \/ DeleteOrderData(o, s)

Work(r) == Pick(r) \/ CountReport(r) \/ ClaimOrder(r)

Next ==
    \/ \E o \in Orders : SaveItems(o) \/ Broadcast(o)
    \/ \E r \in Robots : Work(r) \/ LoseReport(r) \/ FailClaim(r) \/ RobotCrash(r)
    \/ \E o \in Orders, s \in Slots : Finalize(o, s)
    \/ \E o \in Orders : ExpireItems(o) \/ ExpireMarker(o)
    \/ InventoryCrash
    \/ RedisRestart

Spec == Init /\ [][Next]_vars

\* Handlers, robot loops and goroutines that can run do run.  Handing over an
\* order is the client's choice and a failure may never come: neither is fair.
Fairness ==
    /\ \A o \in Orders : WF_vars(Broadcast(o))
    /\ \A r \in Robots : WF_vars(Work(r))
    /\ \A o \in Orders : \A s \in Slots : WF_vars(Finalize(o, s))

FairSpec == Spec /\ Fairness

-----------------------------------------------------------------------------
(* Properties.                                                             *)

Single(o) == dispatches[o] <= 1

\* The SETNX guard of ReportJobStatus: an order handed over once is billed, put
\* in stock line by line and posted at most once, whatever robots, crashes, key
\* expiry and extra reports do.
FinalizedAtMostOnce ==
    \A o \in Orders : Single(o) => \A k \in Stages : effects[o][k] <= 1

\* With as many robots as the threshold (five of each in the deployment), an
\* order handed over once is finalized only after every robot's report for it was
\* counted, so the items of every aisle were picked before the customer is
\* charged or the stock is raised.
FinalizedAfterAllReports ==
    Cardinality(Robots) = Threshold =>
        \A o \in Orders :
            Single(o) /\ effects[o][LoadStage] > 0 =>
                /\ reported[o] = Robots
                /\ "lookup" \notin Faults => WorkFor[o] \subseteq picked[o]

\* Nothing of o is under way.
Quiet(o) ==
    /\ unsent[o] = 0
    /\ \A r \in Robots : job[r] # o /\ \A i \in DOMAIN inbox[r] : inbox[r][i].order # o
    /\ \A s \in Slots : stage[o][s] = Idle

\* Without failures and with as many robots as the threshold, an order handed
\* over once leaves no key in Redis: no count that lives forever (INCR sets no
\* TTL), no marker that would block a later finalization.
NoKeyLeftBehind ==
    Cardinality(Robots) = Threshold /\ Faults = {} =>
        \A o \in Orders :
            Single(o) /\ Quiet(o) => ~items[o] /\ ~marker[o] /\ count[o] = 0

\* Without failures every order handed over is completed in the end: no
\* interleaving of robots, reports and finalizers of several orders, or of two
\* hand-overs of one order, starves the threshold.
EventuallyCompleted ==
    \A o \in Orders : dispatches[o] > 0 ~> effects[o][PostStage(o)] > 0

\* The order's hand-over, counted reports, loaded items and applied webhook are
\* the state of OnceCompletion.
Once == INSTANCE OnceCompletion WITH
            accepted  <- {o \in Orders : dispatches[o] > 0},
            reports   <- reported,
            settled   <- [o \in Orders |-> effects[o][LoadStage]],
            completed <- [o \in Orders |-> effects[o][PostStage(o)]]

\* ReportJobStatus, SETNX and the finalizer together implement OnceCompletion for
\* orders handed over once to as many robots as the threshold: lost messages,
\* crashes, empty caches and expired keys may stop an order, but never repeat a
\* step of it or settle it before the last report.
ImplementsOnce == Once!Spec
=============================================================================
