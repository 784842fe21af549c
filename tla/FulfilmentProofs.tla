-------------------------- MODULE FulfilmentProofs --------------------------
(***************************************************************************)
(* Theorems about Fulfilment, for any orders, robots, threshold, manifest  *)
(* length and any set of enabled failures.                                 *)
(***************************************************************************)
EXTENDS FulfilmentInv, FiniteSetTheorems, TLAPS

USE DEF redis, handlers, robots, vars

-----------------------------------------------------------------------------
(* Every variable keeps its type.                                          *)

\* The stages a finalizer goes through are steps it may be at and steps whose
\* effects are counted.
LEMMA StageRange ==
    /\ LoadStage \in Stages /\ BillStage \in Stages /\ PushStage \in Stages
    /\ 1 .. Lines \subseteq Stages
    /\ \A o \in Orders : PostStage(o) \in Stages
    /\ \A k \in Stages : k + 1 \in Idle .. (Lines + 3)
    /\ LoadStage \in Idle .. (Lines + 3) /\ Idle \in Idle .. (Lines + 3)
BY LinesAssumption DEF Stages, LoadStage, BillStage, PushStage, PostStage, Idle

\* Moving one finalizer keeps the type of stage.
LEMMA StageUpdate ==
    ASSUME TypeOK, NEW o \in Orders, NEW s \in Slots, NEW k \in Idle .. (Lines + 3)
    PROVE  [stage EXCEPT ![o][s] = k] \in [Orders -> [Slots -> Idle .. (Lines + 3)]]
<1> DEFINE R == Idle .. (Lines + 3)
<1>1. stage \in [Orders -> [Slots -> R]] /\ k \in R
  BY DEF TypeOK
<1> HIDE DEF R
<1>2. [stage EXCEPT ![o][s] = k] \in [Orders -> [Slots -> R]]
  BY <1>1
<1>3. QED
  BY <1>2 DEF R

\* Counting one effect keeps the type of effects.
LEMMA EffectUpdate ==
    ASSUME TypeOK, NEW o \in Orders, NEW k \in Stages
    PROVE  [effects EXCEPT ![o][k] = @ + 1] \in [Orders -> [Stages -> Nat]]
BY DEF TypeOK

\* Init puts every variable in its type.
LEMMA TypeInit == Init => TypeOK
BY OrdersAssumption, StageRange DEF Init, TypeOK

\* Dispatch handlers keep the types.
LEMMA TypeDispatch ==
    ASSUME TypeOK, NEW o \in Orders, SaveItems(o) \/ Broadcast(o)
    PROVE  TypeOK'
<1>1. CASE SaveItems(o)
  BY <1>1 DEF SaveItems, TypeOK
<1>2. CASE Broadcast(o)
  <2>1. PICK work \in Routings(o), audience \in Audiences :
           inbox' = [r \in Robots |-> IF r \in audience
                                      THEN Append(inbox[r], [order |-> o, work |-> work])
                                      ELSE inbox[r]]
    BY <1>2 DEF Broadcast
  <2>2. work \in SUBSET Robots
    BY WorkAssumption DEF Routings
  <2>3. [order |-> o, work |-> work] \in Message
    BY <2>2 DEF Message
  <2>4. inbox' \in [Robots -> Seq(Message)]
    BY <2>1, <2>3 DEF TypeOK
  <2>5. unsent' \in [Orders -> Nat]
    BY <1>2 DEF Broadcast, TypeOK
  <2>6. QED
    BY <1>2, <2>4, <2>5 DEF Broadcast, TypeOK
<1>3. QED
  BY <1>1, <1>2

\* Robots and report handlers keep the types.
LEMMA TypeRobot ==
    ASSUME TypeOK, NEW r \in Robots,
           Work(r) \/ LoseReport(r) \/ FailClaim(r) \/ RobotCrash(r)
    PROVE  TypeOK'
<1>1. CASE Pick(r)
  <2>1. Head(inbox[r]) \in Message /\ Tail(inbox[r]) \in Seq(Message)
    BY <1>1 DEF Pick, TypeOK
  <2>2. Head(inbox[r]).order \in Orders
    BY <2>1 DEF Message
  <2>3. QED
    BY <1>1, <2>1, <2>2 DEF Pick, TypeOK
<1>2. CASE CountReport(r)
  <2>1. job[r] \in Orders
    BY <1>2 DEF CountReport, TypeOK
  <2>2. (pc' = [pc EXCEPT ![r] = "counted"] /\ job' = job) \/ Release(r)
    BY <1>2 DEF CountReport
  <2>3. /\ pc' \in [Robots -> {"idle", "reporting", "counted"}]
        /\ job' \in [Robots -> Orders \cup {NoOrder}]
        /\ \A q \in Robots : pc'[q] # "idle" => job'[q] \in Orders
    BY <2>1, <2>2 DEF Release, TypeOK
  <2>4. QED
    BY <1>2, <2>1, <2>3 DEF CountReport, TypeOK
<1>3. CASE ClaimOrder(r)
  <2>1. job[r] \in Orders
    BY <1>3 DEF ClaimOrder, TypeOK
  <2>2. stage' \in [Orders -> [Slots -> Idle .. (Lines + 3)]]
    <3>1. CASE marker[job[r]]
      BY <1>3, <3>1 DEF ClaimOrder, TypeOK
    <3>2. CASE ~marker[job[r]]
      <4>1. PICK s \in Slots : stage' = [stage EXCEPT ![job[r]][s] = LoadStage]
        BY <1>3, <3>2 DEF ClaimOrder
      <4>2. QED
        BY <4>1, <2>1, StageRange, StageUpdate
    <3>3. QED
      BY <3>1, <3>2
  <2>3. marker' \in [Orders -> BOOLEAN]
    BY <1>3, <2>1 DEF ClaimOrder, TypeOK
  <2>4. QED
    BY <1>3, <2>2, <2>3 DEF ClaimOrder, Release, TypeOK
<1>4. CASE LoseReport(r) \/ FailClaim(r)
  BY <1>4 DEF LoseReport, FailClaim, Release, TypeOK
<1>5. CASE RobotCrash(r)
  BY <1>5 DEF RobotCrash, Release, TypeOK
<1>6. QED
  BY <1>1, <1>2, <1>3, <1>4, <1>5 DEF Work

\* Finalizers keep the types.
LEMMA TypeFinalizer ==
    ASSUME TypeOK, NEW o \in Orders, NEW s \in Slots, Finalize(o, s)
    PROVE  TypeOK'
<1>1. ASSUME NEW k \in Stages, Done(o, s, k) \/ Skipped(o, s, k),
             UNCHANGED <<redis, handlers, robots, picked, reported>>
      PROVE  TypeOK'
  <2>1. k + 1 \in Idle .. (Lines + 3)
    BY StageRange
  <2>2. stage' = [stage EXCEPT ![o][s] = k + 1]
    BY <1>1 DEF Done, Skipped
  <2>3. effects' = [effects EXCEPT ![o][k] = @ + 1] \/ effects' = effects
    BY <1>1 DEF Done, Skipped
  <2>4. stage' \in [Orders -> [Slots -> Idle .. (Lines + 3)]]
    BY <2>1, <2>2, StageUpdate
  <2>5. effects' \in [Orders -> [Stages -> Nat]]
    <3>1. CASE effects' = effects
      BY <3>1 DEF TypeOK
    <3>2. CASE effects' = [effects EXCEPT ![o][k] = @ + 1]
      BY <3>2, EffectUpdate, Zenon
    <3>3. QED
      BY <2>3, <3>1, <3>2
  <2>6. QED
    BY <1>1, <2>4, <2>5 DEF TypeOK
<1>2. CASE LoadItems(o, s)
  <2>1. CASE Done(o, s, LoadStage)
    BY <1>1, <1>2, <2>1, StageRange DEF LoadItems
  <2>2. CASE stage' = [stage EXCEPT ![o][s] = Idle] /\ UNCHANGED effects
    BY <1>2, <2>2, StageRange DEF LoadItems, TypeOK
  <2>3. QED
    BY <1>2, <2>1, <2>2 DEF LoadItems
<1>3. CASE Bill(o, s)
  BY <1>1, <1>3, StageRange DEF Bill
<1>4. CASE UpsertLine(o, s)
  BY <1>1, <1>4, StageRange DEF UpsertLine
<1>5. CASE PushMetrics(o, s)
  <2>1. CASE Done(o, s, PushStage) \/ Skipped(o, s, PushStage)
    BY <1>1, <1>5, <2>1, StageRange DEF PushMetrics
  <2>2. CASE stage' = [stage EXCEPT ![o][s] = PushStage + 1] /\ UNCHANGED effects
    BY <1>5, <2>2, StageRange DEF PushMetrics, TypeOK
  <2>3. QED
    BY <1>5, <2>1, <2>2 DEF PushMetrics
<1>6. CASE PostWebhook(o, s)
  BY <1>1, <1>6, StageRange DEF PostWebhook
<1>7. CASE DeleteOrderData(o, s)
  <2>1. stage' \in [Orders -> [Slots -> Idle .. (Lines + 3)]]
    BY <1>7, StageRange, StageUpdate DEF DeleteOrderData
  <2>2. /\ items' \in [Orders -> BOOLEAN] /\ marker' \in [Orders -> BOOLEAN]
        /\ count' \in [Orders -> Nat] /\ outlived' \in [Orders -> BOOLEAN]
    <3>1. CASE UNCHANGED redis
      BY <3>1 DEF TypeOK
    <3>2. CASE /\ items' = [items EXCEPT ![o] = FALSE]
               /\ marker' = [marker EXCEPT ![o] = FALSE]
               /\ count' = [count EXCEPT ![o] = 0]
               /\ outlived' = [outlived EXCEPT ![o] = FALSE]
      BY <3>2 DEF TypeOK
    <3>3. QED
      BY <1>7, <3>1, <3>2 DEF DeleteOrderData
  <2>3. QED
    BY <1>7, <2>1, <2>2 DEF DeleteOrderData, TypeOK
<1>8. QED
  BY <1>2, <1>3, <1>4, <1>5, <1>6, <1>7 DEF Finalize

\* Failures keep the types.
LEMMA TypeFailure ==
    ASSUME TypeOK,
           \/ InventoryCrash
           \/ RedisRestart
           \/ \E o \in Orders : ExpireItems(o) \/ ExpireMarker(o)
    PROVE  TypeOK'
<1>1. CASE InventoryCrash
  BY <1>1, StageRange DEF InventoryCrash, TypeOK
<1>2. CASE RedisRestart
  BY <1>2 DEF RedisRestart, TypeOK
<1>3. ASSUME NEW o \in Orders, ExpireItems(o) \/ ExpireMarker(o)
      PROVE  TypeOK'
  BY <1>3 DEF ExpireItems, ExpireMarker, TypeOK
<1>4. QED
  BY <1>1, <1>2, <1>3

\* The four kinds of step together.
LEMMA TypeStep == TypeOK /\ [Next]_vars => TypeOK'
<1>1. CASE UNCHANGED vars
  BY <1>1 DEF TypeOK
<1>2. QED
  BY <1>1, TypeDispatch, TypeRobot, TypeFinalizer, TypeFailure DEF Next

\* Type correctness: the fields of Redis, of the handlers, of the robots and of
\* the goroutines stay within the values the code can give them.
THEOREM TypeCorrect == Spec => []TypeOK
BY TypeInit, TypeStep, PTL DEF Spec

-----------------------------------------------------------------------------
(* Queues.                                                                 *)

\* What a broadcast adds to a queue, by position.
LEMMA AppendPositions ==
    ASSUME NEW S, NEW q \in Seq(S), NEW m \in S
    PROVE  \A i \in DOMAIN Append(q, m) :
              \/ i = Len(q) + 1 /\ Append(q, m)[i] = m
              \/ i \in DOMAIN q /\ Append(q, m)[i] = q[i]
OBVIOUS

\* What receiving leaves in a queue, by position.
LEMMA TailPositions ==
    ASSUME NEW S, NEW q \in Seq(S), q # << >>
    PROVE  /\ 1 \in DOMAIN q /\ Head(q) = q[1]
           /\ \A i \in DOMAIN Tail(q) : i \in Nat /\ i # 0 /\ i + 1 \in DOMAIN q /\ Tail(q)[i] = q[i + 1]
OBVIOUS

\* A queue after a broadcast: what was there, and perhaps the broadcast behind it.
LEMMA BroadcastPositions ==
    ASSUME TypeOK, NEW o \in Orders, Broadcast(o), NEW r \in Robots
    PROVE  \A i \in DOMAIN inbox'[r] :
              \/ i \in DOMAIN inbox[r] /\ inbox'[r][i] = inbox[r][i]
              \/ /\ i = Len(inbox[r]) + 1
                 /\ inbox'[r][i].order = o
                 /\ inbox'[r][i].work \in Routings(o)
<1>1. PICK work \in Routings(o), audience \in Audiences :
         inbox' = [q \in Robots |-> IF q \in audience
                                    THEN Append(inbox[q], [order |-> o, work |-> work])
                                    ELSE inbox[q]]
  BY DEF Broadcast
<1>2. [order |-> o, work |-> work] \in Message /\ inbox[r] \in Seq(Message)
  BY WorkAssumption DEF Routings, Message, TypeOK
<1>3. CASE r \notin audience
  BY <1>1, <1>3
<1>4. CASE r \in audience
  <2>1. inbox'[r] = Append(inbox[r], [order |-> o, work |-> work])
    BY <1>1, <1>4
  <2>2. QED
    BY <1>2, <2>1, AppendPositions
<1>5. QED
  BY <1>3, <1>4

\* A broadcast of one order queues no other order.
LEMMA BroadcastQueues ==
    ASSUME TypeOK, NEW o \in Orders, Broadcast(o), NEW p \in Orders, p # o, NEW r \in Robots
    PROVE  Queued(p, r)' => Queued(p, r)
BY BroadcastPositions DEF Queued

\* A queue after its robot received: the head is gone, the rest moved up.
LEMMA PickPositions ==
    ASSUME TypeOK, NEW r \in Robots, Pick(r)
    PROVE  /\ 1 \in DOMAIN inbox[r] /\ Head(inbox[r]) = inbox[r][1]
           /\ Head(inbox[r]) \in Message
           /\ \A i \in DOMAIN inbox'[r] :
                 i \in Nat /\ i # 0 /\ i + 1 \in DOMAIN inbox[r] /\ inbox'[r][i] = inbox[r][i + 1]
           /\ \A q \in Robots : q # r => inbox'[q] = inbox[q]
<1>1. inbox[r] \in Seq(Message) /\ inbox[r] # << >>
  BY DEF Pick, TypeOK
<1>2. inbox'[r] = Tail(inbox[r]) /\ \A q \in Robots : q # r => inbox'[q] = inbox[q]
  BY DEF Pick, TypeOK
<1>3. 1 \in DOMAIN inbox[r] /\ Head(inbox[r]) = inbox[r][1] /\ Head(inbox[r]) \in Message
  BY <1>1, TailPositions
<1>4. QED
  BY <1>1, <1>2, <1>3, TailPositions

\* Receiving adds nothing to a queue.
LEMMA PickQueues ==
    ASSUME TypeOK, NEW r \in Robots, Pick(r)
    PROVE  /\ Queued(Head(inbox[r]).order, r)
           /\ Head(inbox[r]) \in Message
           /\ \A q \in Robots, p \in Orders : Queued(p, q)' => Queued(p, q)
<1>1. Queued(Head(inbox[r]).order, r) /\ Head(inbox[r]) \in Message
  BY PickPositions DEF Queued
<1>2. ASSUME NEW q \in Robots, NEW p \in Orders, Queued(p, q)'
      PROVE  Queued(p, q)
  BY <1>2, PickPositions DEF Queued
<1>3. QED
  BY <1>1, <1>2

-----------------------------------------------------------------------------
(* An order that was never handed over has left no trace.                  *)

\* Nothing has been handed over in the initial state.
LEMMA FreshInit == Init => FreshInv
BY OrdersAssumption DEF Init, FreshInv, Fresh, Queued, Active, NoEffect

\* Handing over one order does not touch the others.
LEMMA FreshDispatch ==
    ASSUME TypeOK, FreshInv, NEW o \in Orders, SaveItems(o) \/ Broadcast(o)
    PROVE  FreshInv'
<1> SUFFICES ASSUME NEW p \in Orders, dispatches'[p] = 0
             PROVE  Fresh(p)'
  BY DEF FreshInv
<1>1. dispatches[p] = 0 /\ Fresh(p)
  BY DEF SaveItems, Broadcast, TypeOK, FreshInv
<1>2. p # o
  BY <1>1 DEF SaveItems, Broadcast, TypeOK, Fresh
<1>3. CASE SaveItems(o)
  BY <1>1, <1>2, <1>3 DEF SaveItems, TypeOK, Fresh, Queued, Active, NoEffect
<1>4. CASE Broadcast(o)
  <2>1. \A r \in Robots : ~Queued(p, r)'
    BY <1>1, <1>2, <1>4, BroadcastQueues DEF Fresh
  <2>2. unsent'[p] = 0
    BY <1>1, <1>2, <1>4 DEF Broadcast, TypeOK, Fresh
  <2>3. QED
    BY <1>1, <1>4, <2>1, <2>2 DEF Broadcast, Fresh, Active, NoEffect
<1>5. QED
  BY <1>3, <1>4

\* A robot works only on orders it was told of.
LEMMA FreshRobot ==
    ASSUME TypeOK, FreshInv, NEW r \in Robots,
           Work(r) \/ LoseReport(r) \/ FailClaim(r) \/ RobotCrash(r)
    PROVE  FreshInv'
<1> SUFFICES ASSUME NEW p \in Orders, dispatches'[p] = 0
             PROVE  Fresh(p)'
  BY DEF FreshInv
<1>1. dispatches[p] = 0 /\ Fresh(p)
  BY DEF Work, Pick, CountReport, ClaimOrder, LoseReport, FailClaim, RobotCrash, FreshInv
<1>2. p # NoOrder
  BY OrdersAssumption
<1>3. CASE Pick(r)
  <2>1. \A q \in Robots : ~Queued(p, q)'
    BY <1>1, <1>3, PickQueues DEF Fresh
  <2>2. Head(inbox[r]).order # p
    BY <1>1, <1>3, PickQueues DEF Fresh
  <2>3. \A q \in Robots : job'[q] # p
    BY <1>1, <1>3, <2>2 DEF Pick, TypeOK, Fresh
  <2>4. QED
    BY <1>1, <1>3, <2>1, <2>3 DEF Pick, Fresh, Active, NoEffect
<1>4. CASE CountReport(r)
  <2>1. job[r] # p /\ job[r] \in Orders
    BY <1>1, <1>4 DEF CountReport, Fresh, TypeOK
  <2>2. \A q \in Robots : job'[q] # p
    BY <1>1, <1>2, <1>4 DEF CountReport, Release, TypeOK, Fresh
  <2>3. count'[p] = 0 /\ reported'[p] = reported[p]
    BY <1>1, <1>4, <2>1 DEF CountReport, TypeOK, Fresh
  <2>4. QED
    BY <1>1, <1>4, <2>2, <2>3 DEF CountReport, Fresh, Queued, Active, NoEffect
<1>5. CASE ClaimOrder(r)
  <2>1. job[r] # p /\ job[r] \in Orders
    BY <1>1, <1>5 DEF ClaimOrder, Fresh, TypeOK
  <2>2. \A q \in Robots : job'[q] # p
    BY <1>1, <1>2, <1>5 DEF ClaimOrder, Release, TypeOK, Fresh
  <2>3. marker'[p] = marker[p] /\ stage'[p] = stage[p]
    BY <1>5, <2>1 DEF ClaimOrder, TypeOK
  <2>4. QED
    BY <1>1, <1>5, <2>2, <2>3 DEF ClaimOrder, Fresh, Queued, Active, NoEffect
<1>6. CASE LoseReport(r) \/ FailClaim(r)
  BY <1>1, <1>2, <1>6 DEF LoseReport, FailClaim, Release, TypeOK, Fresh, Queued, Active, NoEffect
<1>7. CASE RobotCrash(r)
  <2>1. \A q \in Robots : ~Queued(p, q)'
    BY <1>1, <1>7 DEF RobotCrash, TypeOK, Fresh, Queued
  <2>2. QED
    BY <1>1, <1>2, <1>7, <2>1 DEF RobotCrash, Release, TypeOK, Fresh, Active, NoEffect
<1>8. QED
  BY <1>3, <1>4, <1>5, <1>6, <1>7 DEF Work

\* A finalizer works on the order it was started for.
LEMMA FreshFinalizer ==
    ASSUME TypeOK, FreshInv, NEW o \in Orders, NEW s \in Slots, Finalize(o, s)
    PROVE  FreshInv'
<1> SUFFICES ASSUME NEW p \in Orders, dispatches'[p] = 0
             PROVE  Fresh(p)'
  BY DEF FreshInv
<1>1. UNCHANGED <<handlers, robots, picked, reported>>
  BY DEF Finalize, LoadItems, Bill, UpsertLine, PushMetrics, PostWebhook, DeleteOrderData
<1>2. dispatches[p] = 0 /\ Fresh(p)
  BY <1>1 DEF FreshInv
<1>3. Active(o, s)
  BY LinesAssumption DEF Finalize, LoadItems, Bill, UpsertLine, PushMetrics, PostWebhook,
        DeleteOrderData, Active, Idle, LoadStage, BillStage, PushStage, PostStage
<1>4. p # o
  BY <1>2, <1>3 DEF Fresh
<1>5. stage'[p] = stage[p] /\ effects'[p] = effects[p]
  BY <1>4 DEF Finalize, LoadItems, Bill, UpsertLine, PushMetrics, PostWebhook, DeleteOrderData,
        Done, Skipped, TypeOK
<1>6. items'[p] = items[p] /\ marker'[p] = marker[p] /\ count'[p] = count[p]
  BY <1>4 DEF Finalize, LoadItems, Bill, UpsertLine, PushMetrics, PostWebhook, DeleteOrderData,
        TypeOK
<1>7. QED
  BY <1>1, <1>2, <1>5, <1>6 DEF Fresh, Queued, Active, NoEffect

\* A failure leaves nothing behind where nothing was.
LEMMA FreshFailure ==
    ASSUME TypeOK, FreshInv,
           \/ InventoryCrash
           \/ RedisRestart
           \/ \E o \in Orders : ExpireItems(o) \/ ExpireMarker(o)
    PROVE  FreshInv'
<1> SUFFICES ASSUME NEW p \in Orders, dispatches'[p] = 0
             PROVE  Fresh(p)'
  BY DEF FreshInv
<1>1. dispatches[p] = 0 /\ Fresh(p)
  BY DEF InventoryCrash, RedisRestart, ExpireItems, ExpireMarker, FreshInv
<1>2. CASE InventoryCrash
  BY <1>1, <1>2, OrdersAssumption DEF InventoryCrash, TypeOK, Fresh, Queued, Active, NoEffect
<1>3. CASE RedisRestart
  BY <1>1, <1>3 DEF RedisRestart, TypeOK, Fresh, Queued, Active, NoEffect
<1>4. ASSUME NEW o \in Orders, ExpireItems(o) \/ ExpireMarker(o)
      PROVE  Fresh(p)'
  <2>1. CASE ExpireItems(o)
    BY <1>1, <2>1 DEF ExpireItems, TypeOK, Fresh, Queued, Active, NoEffect
  <2>2. CASE ExpireMarker(o)
    BY <1>1, <2>2 DEF ExpireMarker, TypeOK, Fresh, Queued, Active, NoEffect
  <2>3. QED
    BY <1>4, <2>1, <2>2
<1>5. QED
  BY <1>2, <1>3, <1>4

\* The four kinds of step together.
LEMMA FreshStep == TypeOK /\ FreshInv /\ [Next]_vars => FreshInv'
<1>1. CASE UNCHANGED vars
  BY <1>1 DEF FreshInv, Fresh, Queued, Active, NoEffect
<1>2. QED
  BY <1>1, FreshDispatch, FreshRobot, FreshFinalizer, FreshFailure DEF Next

\* Orders that were never handed over leave no key, message, job or effect.
THEOREM FreshOrders == Spec => []FreshInv
BY FreshInit, FreshStep, TypeCorrect, PTL DEF Spec

-----------------------------------------------------------------------------
(* An order handed over once is finalized at most once.                    *)

OnceOrder(o) == Single(o) => Guarded(o) /\ Finalizing(o)

\* OnceOrder depends on these fields of the order only.
LEMMA OnceFrame ==
    ASSUME NEW o \in Orders, OnceOrder(o),
           dispatches'[o] = dispatches[o], items'[o] = items[o], marker'[o] = marker[o],
           outlived'[o] = outlived[o], stage'[o] = stage[o], effects'[o] = effects[o]
    PROVE  OnceOrder(o)'
BY DEF OnceOrder, Single, Guarded, Finalizing, Active, NoEffect

\* No finalizer runs in the initial state.
LEMMA OnceInit == Init => OnceInv
BY DEF Init, OnceInv, Single, Guarded, Finalizing, Active, NoEffect, Idle, LoadStage

\* A first hand-over finds no trace of the order; a later one ends the promise.
LEMMA OnceDispatch ==
    ASSUME TypeOK, FreshInv, OnceInv, NEW o \in Orders, SaveItems(o) \/ Broadcast(o)
    PROVE  OnceInv'
<1> SUFFICES ASSUME NEW p \in Orders
             PROVE  OnceOrder(p)'
  BY DEF OnceInv, OnceOrder
<1>1. OnceOrder(p)
  BY DEF OnceInv, OnceOrder
<1>2. CASE Broadcast(o)
  BY <1>1, <1>2, OnceFrame DEF Broadcast
<1>3. CASE SaveItems(o) /\ p # o
  BY <1>1, <1>3, OnceFrame DEF SaveItems, TypeOK
<1>4. CASE SaveItems(o) /\ p = o
  <2>1. SUFFICES ASSUME Single(o)'
                 PROVE  (Guarded(o) /\ Finalizing(o))'
    BY <1>4 DEF OnceOrder
  <2>2. dispatches[o] = 0
    BY <1>4, <2>1 DEF SaveItems, Single, TypeOK
  <2>3. Fresh(o)
    BY <2>2 DEF FreshInv
  <2>4. items'[o] /\ ~marker'[o] /\ ~outlived'[o] /\ stage' = stage /\ effects' = effects
    BY <1>4, <2>3 DEF SaveItems, TypeOK, Fresh
  <2>5. \A s \in Slots : ~Active(o, s)' /\ stage'[o][s] = -1
    BY <2>3, <2>4 DEF Fresh, Active, Idle
  <2>6. NoEffect(o)'
    BY <2>3, <2>4 DEF Fresh, NoEffect
  <2>7. QED
    BY <2>4, <2>5, <2>6 DEF Guarded, Finalizing, NoEffect, LoadStage
<1>5. QED
  BY <1>2, <1>3, <1>4

\* Of the robots' steps only a claim touches the markers and the finalizers.
LEMMA OnceRobot ==
    ASSUME TypeOK, OnceInv, NEW r \in Robots,
           Work(r) \/ LoseReport(r) \/ FailClaim(r) \/ RobotCrash(r)
    PROVE  OnceInv'
<1> SUFFICES ASSUME NEW p \in Orders
             PROVE  OnceOrder(p)'
  BY DEF OnceInv, OnceOrder
<1>1. OnceOrder(p)
  BY DEF OnceInv, OnceOrder
<1>2. CASE Pick(r) \/ CountReport(r) \/ LoseReport(r) \/ FailClaim(r) \/ RobotCrash(r)
  BY <1>1, <1>2, OnceFrame DEF Pick, CountReport, LoseReport, FailClaim, RobotCrash
<1>3. CASE ClaimOrder(r)
  <2>1. job[r] \in Orders /\ UNCHANGED <<dispatches, items, outlived, effects>>
    BY <1>3 DEF ClaimOrder, TypeOK
  <2>2. CASE p # job[r] \/ marker[p]
    <3>1. marker'[p] = marker[p] /\ stage'[p] = stage[p]
      BY <1>3, <2>1, <2>2 DEF ClaimOrder, TypeOK
    <3>2. QED
      BY <1>1, <2>1, <3>1, OnceFrame
  <2>3. CASE p = job[r] /\ ~marker[p]
    <3>1. PICK s \in Slots : /\ stage[p][s] = Idle
                             /\ stage' = [stage EXCEPT ![p][s] = LoadStage]
                             /\ marker' = [marker EXCEPT ![p] = TRUE]
      BY <1>3, <2>3 DEF ClaimOrder
    <3>2. stage'[p][s] = LoadStage /\ \A t \in Slots : t # s => stage'[p][t] = stage[p][t]
      BY <3>1 DEF TypeOK
    <3>3. marker'[p]
      BY <3>1 DEF TypeOK
    <3>4. SUFFICES ASSUME Single(p)
                   PROVE  (Guarded(p) /\ Finalizing(p))'
      BY <2>1 DEF OnceOrder, Single
    <3>5. Guarded(p) /\ Finalizing(p)
      BY <1>1, <3>4 DEF OnceOrder
    <3>6. Guarded(p)'
      BY <2>1, <2>3, <3>2, <3>3, <3>5 DEF Guarded, Active, NoEffect
    <3>7. Finalizing(p)'
      BY <2>1, <3>2, <3>5 DEF Finalizing, LoadStage
    <3>8. QED
      BY <3>6, <3>7
  <2>4. QED
    BY <2>2, <2>3
<1>4. QED
  BY <1>2, <1>3 DEF Work

\* A finalizer past its load moves on alone: it does step k for the first time.
LEMMA OnceAdvance ==
    ASSUME TypeOK, OnceInv, NEW o \in Orders, NEW s \in Slots, NEW k \in Stages,
           k > LoadStage, stage[o][s] = k,
           stage' = [stage EXCEPT ![o][s] = k + 1],
           effects' = [effects EXCEPT ![o][k] = @ + 1] \/ effects' = effects,
           UNCHANGED <<dispatches, items, marker, outlived>>
    PROVE  OnceInv'
<1> SUFFICES ASSUME NEW p \in Orders
             PROVE  OnceOrder(p)'
  BY DEF OnceInv, OnceOrder
<1>1. OnceOrder(p)
  BY DEF OnceInv, OnceOrder
<1>2. CASE p # o
  <2>1. stage'[p] = stage[p] /\ effects'[p] = effects[p]
    BY <1>2 DEF TypeOK
  <2>2. QED
    BY <1>1, <2>1, OnceFrame
<1>3. CASE p = o
  <2> SUFFICES ASSUME Single(o)
               PROVE  (Guarded(o) /\ Finalizing(o))'
    BY <1>3 DEF OnceOrder, Single
  <2>1. Guarded(o) /\ Finalizing(o)
    BY DEF OnceInv
  <2>2. k \in Nat /\ k # 0 /\ k + 1 \in Nat
    BY LinesAssumption DEF Stages, LoadStage
  <2>3. stage'[o][s] = k + 1 /\ \A t \in Slots : t # s => stage'[o][t] = stage[o][t]
    BY DEF TypeOK
  <2>4. \A t \in Slots : stage[o][t] \in Int
    BY LinesAssumption DEF TypeOK, Idle
  <2>5. \A j \in Stages : effects[o][j] \in Nat /\ j \in Int
    BY LinesAssumption DEF TypeOK, Stages
  <2>6. \A j \in Stages : j # k => effects'[o][j] = effects[o][j]
    BY DEF TypeOK
  <2>7. effects[o][k] = 0
    BY <2>1, <2>2 DEF Finalizing, LoadStage
  <2>8. effects'[o][k] = 1 \/ effects'[o][k] = 0
    BY <2>5, <2>7 DEF TypeOK
  <2>9. \A t \in Slots : Active(o, t)' => Active(o, t)
    BY <2>2, <2>3 DEF Active, Idle
  <2>10. items[o] => marker[o] /\ \A t \in Slots : stage[o][t] # LoadStage
    <3>1. Active(o, s)
      BY <2>2 DEF Active, Idle
    <3>2. QED
      BY <2>1, <2>2, <2>4, <3>1 DEF Guarded, Active, Idle, LoadStage
  <2>11. Guarded(o)'
    BY <2>1, <2>2, <2>3, <2>9, <2>10 DEF Guarded, LoadStage
  <2>12. \A t \in Slots : t # s => ~(stage[o][t] > LoadStage)
    BY <2>1, <2>2 DEF Finalizing, LoadStage
  <2>13. Finalizing(o)'
    <3>1. \A t, u \in Slots :
             stage'[o][t] > LoadStage /\ stage'[o][u] > LoadStage => t = u
      BY <2>3, <2>12
    <3>2. \A t \in Slots : stage'[o][t] > LoadStage => t = s
      BY <2>3, <2>12
    <3>3. effects'[o][LoadStage] = 1
      BY <2>1, <2>2, <2>6, StageRange DEF Finalizing, LoadStage
    <3>4. \A j \in Stages : j >= k + 1 => effects'[o][j] = 0
      BY <2>1, <2>2, <2>5, <2>6 DEF Finalizing, LoadStage
    <3>5. \A j \in Stages : effects'[o][j] <= 1
      BY <2>1, <2>6, <2>8 DEF Finalizing
    <3>6. QED
      BY <2>3, <3>1, <3>2, <3>3, <3>4, <3>5 DEF Finalizing
  <2>14. QED
    BY <2>11, <2>13
<1>4. QED
  BY <1>2, <1>3

\* A finalizer that ends leaves what it did.
LEMMA OnceEnd ==
    ASSUME TypeOK, OnceInv, NEW o \in Orders, NEW s \in Slots,
           stage' = [stage EXCEPT ![o][s] = Idle], UNCHANGED <<dispatches, effects>>,
           \/ UNCHANGED <<items, marker, outlived>>
           \/ /\ items' = [items EXCEPT ![o] = FALSE]
              /\ marker' = [marker EXCEPT ![o] = FALSE]
              /\ outlived' = [outlived EXCEPT ![o] = FALSE]
    PROVE  OnceInv'
<1> SUFFICES ASSUME NEW p \in Orders
             PROVE  OnceOrder(p)'
  BY DEF OnceInv, OnceOrder
<1>1. OnceOrder(p)
  BY DEF OnceInv, OnceOrder
<1>2. CASE p # o
  <2>1. /\ stage'[p] = stage[p] /\ items'[p] = items[p]
        /\ marker'[p] = marker[p] /\ outlived'[p] = outlived[p]
    BY <1>2 DEF TypeOK
  <2>2. QED
    BY <1>1, <2>1, OnceFrame
<1>3. CASE p = o
  <2> SUFFICES ASSUME Single(o)
               PROVE  (Guarded(o) /\ Finalizing(o))'
    BY <1>3 DEF OnceOrder, Single
  <2>1. Guarded(o) /\ Finalizing(o)
    BY DEF OnceInv
  <2>2. stage'[o][s] = Idle /\ \A t \in Slots : t # s => stage'[o][t] = stage[o][t]
    BY DEF TypeOK
  <2>3. \A t \in Slots : Active(o, t)' => Active(o, t) /\ stage'[o][t] = stage[o][t]
    BY <2>2 DEF Active
  <2>4. /\ ~outlived'[o]
        /\ items'[o] => items[o] /\ marker'[o] = marker[o]
    BY <2>1 DEF TypeOK, Guarded
  <2>5. Guarded(o)'
    BY <2>1, <2>3, <2>4 DEF Guarded, Active, NoEffect, LoadStage, Idle
  <2>6. \A t \in Slots : stage'[o][t] > LoadStage => stage'[o][t] = stage[o][t]
    BY <2>2 DEF LoadStage, Idle
  <2>7. Finalizing(o)'
    BY <2>1, <2>6 DEF Finalizing
  <2>8. QED
    BY <2>5, <2>7
<1>4. QED
  BY <1>2, <1>3

\* A finalizer that finds the items is the first and only one.
LEMMA OnceLoad ==
    ASSUME TypeOK, OnceInv, NEW o \in Orders, NEW s \in Slots,
           items[o], stage[o][s] = LoadStage, Done(o, s, LoadStage),
           UNCHANGED <<dispatches, items, marker, outlived>>
    PROVE  OnceInv'
<1> SUFFICES ASSUME NEW p \in Orders
             PROVE  OnceOrder(p)'
  BY DEF OnceInv, OnceOrder
<1>1. OnceOrder(p)
  BY DEF OnceInv, OnceOrder
<1>2. CASE p # o
  <2>1. stage'[p] = stage[p] /\ effects'[p] = effects[p]
    BY <1>2 DEF Done, TypeOK
  <2>2. QED
    BY <1>1, <2>1, OnceFrame
<1>3. CASE p = o
  <2> SUFFICES ASSUME Single(o)
               PROVE  (Guarded(o) /\ Finalizing(o))'
    BY <1>3 DEF OnceOrder, Single
  <2>1. Guarded(o) /\ NoEffect(o) /\ \A t \in Slots : Active(o, t) => t = s
    BY DEF OnceInv, Guarded, Active, LoadStage, Idle
  <2>2. stage'[o][s] = 1 /\ \A t \in Slots : t # s => stage'[o][t] = Idle
    <3>1. stage'[o][s] = 1 /\ \A t \in Slots : t # s => stage'[o][t] = stage[o][t]
      BY DEF Done, TypeOK, LoadStage
    <3>2. QED
      BY <2>1, <3>1 DEF Active
  <2>3. effects'[o][LoadStage] = 1 /\ \A k \in Stages : k # LoadStage => effects'[o][k] = 0
    <3>1. effects[o] \in [Stages -> Nat] /\ LoadStage \in Stages
      BY StageRange DEF TypeOK
    <3>2. effects'[o] = [effects[o] EXCEPT ![LoadStage] = @ + 1]
      BY DEF Done, TypeOK
    <3>3. QED
      BY <2>1, <3>1, <3>2 DEF NoEffect
  <2>4. marker[o]
    BY <2>1 DEF Guarded, Active, LoadStage, Idle
  <2>5. Guarded(o)'
    BY <2>1, <2>2, <2>4 DEF Guarded, Active, LoadStage, Idle
  <2>6. Finalizing(o)'
    BY <2>2, <2>3 DEF Finalizing, LoadStage, Idle
  <2>7. QED
    BY <2>5, <2>6
<1>4. QED
  BY <1>2, <1>3

\* Every step of a finalizer.
LEMMA OnceFinalizer ==
    ASSUME TypeOK, OnceInv, NEW o \in Orders, NEW s \in Slots, Finalize(o, s)
    PROVE  OnceInv'
<1>1. ASSUME NEW k \in Stages, k > LoadStage, stage[o][s] = k, Done(o, s, k) \/ Skipped(o, s, k),
             UNCHANGED <<redis, handlers>>
      PROVE  OnceInv'
  BY <1>1, OnceAdvance DEF Done, Skipped
<1>2. CASE LoadItems(o, s)
  BY <1>2, OnceLoad, OnceEnd DEF LoadItems
<1>3. CASE Bill(o, s)
  BY <1>1, <1>3, StageRange DEF Bill, BillStage, LoadStage
<1>4. CASE UpsertLine(o, s)
  BY <1>1, <1>4, StageRange, LinesAssumption DEF UpsertLine, LoadStage
<1>5. CASE PushMetrics(o, s)
  <2>1. PushStage \in Stages /\ PushStage > LoadStage /\ stage[o][s] = PushStage
    BY <1>5, StageRange, LinesAssumption DEF PushMetrics, PushStage, LoadStage
  <2>2. CASE Done(o, s, PushStage) \/ Skipped(o, s, PushStage)
    BY <1>1, <1>5, <2>1, <2>2 DEF PushMetrics
  <2>3. CASE stage' = [stage EXCEPT ![o][s] = PushStage + 1] /\ UNCHANGED effects
    BY <1>5, <2>1, <2>3, OnceAdvance DEF PushMetrics
  <2>4. QED
    BY <1>5, <2>2, <2>3 DEF PushMetrics
<1>6. CASE PostWebhook(o, s)
  BY <1>1, <1>6, StageRange, LinesAssumption DEF PostWebhook, PostStage, LoadStage
<1>7. CASE DeleteOrderData(o, s)
  BY <1>7, OnceEnd DEF DeleteOrderData
<1>8. QED
  BY <1>2, <1>3, <1>4, <1>5, <1>6, <1>7 DEF Finalize

\* No failure brings the items back, and the items expire before the marker.
LEMMA OnceFailure ==
    ASSUME TypeOK, OnceInv,
           \/ InventoryCrash
           \/ RedisRestart
           \/ \E o \in Orders : ExpireItems(o) \/ ExpireMarker(o)
    PROVE  OnceInv'
<1> SUFFICES ASSUME NEW p \in Orders
             PROVE  OnceOrder(p)'
  BY DEF OnceInv, OnceOrder
<1>1. OnceOrder(p)
  BY DEF OnceInv, OnceOrder
<1>2. CASE InventoryCrash
  <2>1. \A s \in Slots : stage'[p][s] = -1
    BY <1>2 DEF InventoryCrash, Idle
  <2>2. dispatches' = dispatches /\ UNCHANGED <<items, marker, outlived, effects>>
    BY <1>2 DEF InventoryCrash
  <2>3. QED
    BY <1>1, <2>1, <2>2
    DEF OnceOrder, Single, Guarded, Finalizing, Active, NoEffect, LoadStage, Idle
<1>3. CASE RedisRestart
  <2>1. ~items'[p] /\ ~outlived'[p] /\ UNCHANGED <<dispatches, stage, effects>>
    BY <1>3 DEF RedisRestart
  <2>2. QED
    BY <1>1, <2>1 DEF OnceOrder, Single, Guarded, Finalizing
<1>4. ASSUME NEW o \in Orders, ExpireItems(o)
      PROVE  OnceOrder(p)'
  <2>1. UNCHANGED <<dispatches, marker, outlived, stage, effects>>
    BY <1>4 DEF ExpireItems
  <2>2. items'[p] = items[p] \/ ~items'[p]
    BY <1>4 DEF ExpireItems, TypeOK
  <2>3. QED
    BY <1>1, <2>1, <2>2 DEF OnceOrder, Single, Guarded, Finalizing, Active, NoEffect
<1>5. ASSUME NEW o \in Orders, ExpireMarker(o)
      PROVE  OnceOrder(p)'
  <2>1. UNCHANGED <<dispatches, items, stage, effects>>
    BY <1>5 DEF ExpireMarker
  <2>2. CASE p # o
    <3>1. marker'[p] = marker[p] /\ outlived'[p] = outlived[p]
      BY <1>5, <2>2 DEF ExpireMarker, TypeOK
    <3>2. QED
      BY <1>1, <2>1, <3>1, OnceFrame
  <2>3. CASE p = o
    <3>1. ~outlived'[p]
      BY <1>5, <2>3 DEF ExpireMarker, TypeOK
    <3>2. Single(p) => ~items[p]
      BY <1>1, <1>5, <2>3 DEF ExpireMarker, OnceOrder, Guarded
    <3>3. QED
      BY <1>1, <2>1, <3>1, <3>2 DEF OnceOrder, Single, Guarded, Finalizing
  <2>4. QED
    BY <2>2, <2>3
<1>6. QED
  BY <1>2, <1>3, <1>4, <1>5

\* The four kinds of step together.
LEMMA OnceStep == TypeOK /\ FreshInv /\ OnceInv /\ [Next]_vars => OnceInv'
<1>1. CASE UNCHANGED vars
  BY <1>1 DEF OnceInv, Single, Guarded, Finalizing, Active, NoEffect
<1>2. QED
  BY <1>1, OnceDispatch, OnceRobot, OnceFinalizer, OnceFailure DEF Next

\* SETNX, the single DEL and the equal TTLs of items and marker make OnceInv
\* inductive.
THEOREM OnceInvariant == Spec => []OnceInv
BY OnceInit, OnceStep, TypeCorrect, FreshOrders, PTL DEF Spec

\* The guard of ReportJobStatus works for every order handed over once, whatever
\* the number of robots, the threshold, the slots and the failures.
THEOREM FinalizedOnce == Spec => []FinalizedAtMostOnce
<1>1. OnceInv => FinalizedAtMostOnce
  BY DEF OnceInv, Finalizing, FinalizedAtMostOnce
<1>2. QED
  BY <1>1, OnceInvariant, PTL

-----------------------------------------------------------------------------
(* An order handed over once is finalized after all reports.               *)

Counted(o) == Single(o) => CountInv(o)

\* The robots' part of CountInv survives emptying queues and ending jobs.
LEMMA ReportsFrame ==
    ASSUME TypeOK, NEW o \in Orders, NEW r \in Robots, ReportsOnce(o, r),
           inbox'[r] = inbox[r] \/ inbox'[r] = << >>,
           (job'[r] = job[r] /\ pc'[r] = pc[r]) \/ job'[r] = NoOrder,
           unsent'[o] = unsent[o] \/ unsent'[o] = 0,
           r \in reported'[o] => r \in reported[o]
    PROVE  ReportsOnce(o, r)'
<1>1. o # NoOrder
  BY OrdersAssumption
<1>2. CASE inbox'[r] = inbox[r]
  BY <1>1, <1>2 DEF ReportsOnce, Queued
<1>3. CASE inbox'[r] = << >>
  BY <1>1, <1>3 DEF ReportsOnce, Queued
<1>4. QED
  BY <1>2, <1>3

\* CountInv survives as long as no report is counted and no claim made.
LEMMA CountFrame ==
    ASSUME TypeOK, NEW o \in Orders, Counted(o), dispatches'[o] = dispatches[o],
           unsent'[o] = unsent[o] \/ unsent'[o] = 0,
           count'[o] = count[o] \/ count'[o] = 0,
           reported'[o] = reported[o],
           Claimed(o)' => Claimed(o),
           \A r \in Robots : ReportsOnce(o, r) => ReportsOnce(o, r)'
    PROVE  Counted(o)'
<1>1. Cardinality(reported[o]) \in Nat
  BY RobotsAssumption, FS_Subset, FS_CardinalityType DEF TypeOK
<1>2. QED
  BY <1>1 DEF Counted, Single, CountInv, TypeOK

\* An order without a trace satisfies CountInv, before and after its hand-over.
LEMMA FreshCounted ==
    ASSUME TypeOK, NEW o \in Orders, Fresh(o)
    PROVE  /\ reported[o] = {}
           /\ Cardinality(reported[o]) = 0
           /\ ~Claimed(o)
<1>1. reported[o] = {}
  BY DEF TypeOK, Fresh
<1>2. ~Claimed(o)
  BY StageRange DEF Fresh, Claimed, NoEffect
<1>3. QED
  BY <1>1, <1>2, FS_EmptySet

\* No report has been counted in the initial state.
LEMMA CountInit == Init => ReportInv
<1> SUFFICES ASSUME Init, NEW o \in Orders
             PROVE  CountInv(o)
  BY DEF ReportInv
<1>1. TypeOK /\ Fresh(o)
  BY TypeInit, FreshInit DEF Init, FreshInv
<1>2. \A r \in Robots : ReportsOnce(o, r)
  BY <1>1 DEF Fresh, ReportsOnce, Queued
<1>3. QED
  BY <1>1, <1>2, FreshCounted DEF CountInv, Fresh

\* The broadcast of an order handed over once reaches robots that never heard
\* of it.
LEMMA CountDispatch ==
    ASSUME TypeOK, FreshInv, NEW o \in Orders, SaveItems(o) \/ Broadcast(o),
           NEW p \in Orders, Counted(p)
    PROVE  Counted(p)'
<1>1. CASE SaveItems(o) /\ p # o
  <2>1. UNCHANGED <<inbox, pc, job, reported, marker, count, stage, effects>>
    BY <1>1 DEF SaveItems
  <2>2. dispatches'[p] = dispatches[p] /\ unsent'[p] = unsent[p]
    BY <1>1 DEF SaveItems, TypeOK
  <2>3. \A r \in Robots : ReportsOnce(p, r) => ReportsOnce(p, r)'
    BY <2>1, <2>2 DEF ReportsOnce, Queued
  <2>4. Claimed(p)' => Claimed(p)
    BY <2>1 DEF Claimed, Active
  <2>5. QED
    BY <2>1, <2>2, <2>3, <2>4, CountFrame
<1>2. CASE SaveItems(o) /\ p = o
  <2> SUFFICES ASSUME Single(o)'
               PROVE  CountInv(o)'
    BY <1>2 DEF Counted
  <2>1. dispatches[o] = 0
    BY <1>2 DEF SaveItems, Single, TypeOK
  <2>2. Fresh(o)
    BY <2>1 DEF FreshInv
  <2>3. UNCHANGED <<inbox, pc, job, reported, marker, count, stage, effects>> /\ unsent'[o] = 1
    BY <1>2, <2>2 DEF SaveItems, TypeOK, Fresh
  <2>4. \A r \in Robots : ReportsOnce(o, r)'
    BY <2>2, <2>3 DEF Fresh, ReportsOnce, Queued
  <2>5. ~Claimed(o)'
    BY <2>2, <2>3, FreshCounted DEF Claimed, Active
  <2>6. QED
    BY <2>2, <2>3, <2>4, <2>5, FreshCounted DEF CountInv, Fresh
<1>3. CASE Broadcast(o)
  <2>1. UNCHANGED <<pc, job, reported, marker, count, dispatches, stage, effects>>
    BY <1>3 DEF Broadcast
  <2>2. Claimed(p)' => Claimed(p)
    BY <2>1 DEF Claimed, Active
  <2>3. CASE p # o
    <3>1. unsent'[p] = unsent[p]
      BY <1>3, <2>3 DEF Broadcast, TypeOK
    <3>2. ASSUME NEW r \in Robots, ReportsOnce(p, r)
          PROVE  ReportsOnce(p, r)'
      <4>1. Queued(p, r)' => Queued(p, r)
        BY <1>3, <2>3, BroadcastQueues
      <4>2. \A i \in DOMAIN inbox'[r] : inbox'[r][i].order = p =>
               i \in DOMAIN inbox[r] /\ inbox[r][i].order = p
        BY <1>3, <2>3, BroadcastPositions
      <4>3. QED
        BY <2>1, <3>1, <3>2, <4>1, <4>2 DEF ReportsOnce
    <3>3. QED
      BY <2>1, <2>2, <3>1, <3>2, CountFrame
  <2>4. CASE p = o
    <3> SUFFICES ASSUME Single(o)
                 PROVE  CountInv(o)'
      BY <2>1, <2>4 DEF Counted, Single
    <3>1. CountInv(o)
      BY <2>4 DEF Counted
    <3>2. unsent[o] = 1 /\ unsent'[o] = 0
      BY <1>3, <3>1 DEF Broadcast, CountInv, TypeOK
    <3>3. ASSUME NEW r \in Robots
          PROVE  ReportsOnce(o, r)'
      <4>1. ~Queued(o, r) /\ job[r] # o /\ r \notin reported[o]
        BY <3>1, <3>2 DEF CountInv, ReportsOnce
      <4>2. \A i \in DOMAIN inbox'[r] : inbox'[r][i].order = o => i = Len(inbox[r]) + 1
        BY <1>3, <4>1, BroadcastPositions DEF Queued
      <4>3. QED
        BY <2>1, <3>2, <4>1, <4>2 DEF ReportsOnce
    <3>4. QED
      BY <2>1, <2>2, <2>4, <3>1, <3>2, <3>3 DEF CountInv
  <2>5. QED
    BY <2>3, <2>4
<1>4. QED
  BY <1>1, <1>2, <1>3

\* A robot takes the one broadcast it has of the order.
LEMMA CountPick ==
    ASSUME TypeOK, NEW r \in Robots, Pick(r), NEW p \in Orders, Counted(p)
    PROVE  Counted(p)'
<1>1. UNCHANGED <<dispatches, unsent, marker, count, reported, stage, effects>>
  BY DEF Pick
<1>2. /\ job'[r] = Head(inbox[r]).order /\ pc'[r] = "reporting"
      /\ \A q \in Robots : q # r => job'[q] = job[q] /\ pc'[q] = pc[q]
  BY DEF Pick, TypeOK
<1>3. Claimed(p)' => Claimed(p)
  BY <1>1, <1>2 DEF Claimed, Active
<1>4. ASSUME NEW q \in Robots, ReportsOnce(p, q)
      PROVE  ReportsOnce(p, q)'
  <2>1. CASE q # r
    BY <1>1, <1>2, <1>4, <2>1, PickPositions DEF ReportsOnce, Queued
  <2>2. CASE q = r /\ Head(inbox[r]).order = p
    <3>1. Queued(p, r) /\ r \notin reported[p]
      BY <1>4, <2>2, PickPositions DEF Queued, ReportsOnce
    <3>2. ~Queued(p, r)'
      <4>1. ASSUME NEW i \in DOMAIN inbox'[r], inbox'[r][i].order = p
            PROVE  FALSE
        <5>1. i + 1 \in DOMAIN inbox[r] /\ inbox[r][i + 1].order = p /\ i + 1 # 1
          BY <4>1, PickPositions
        <5>2. 1 \in DOMAIN inbox[r] /\ inbox[r][1].order = p
          BY <2>2, PickPositions
        <5>3. QED
          BY <1>4, <2>2, <5>1, <5>2 DEF ReportsOnce
      <4>2. QED
        BY <4>1 DEF Queued
    <3>3. ~(unsent[p] > 0)
      BY <1>4, <2>2, <3>1 DEF ReportsOnce
    <3>4. QED
      BY <1>1, <2>2, <3>1, <3>2, <3>3 DEF ReportsOnce, Queued
  <2>3. CASE q = r /\ Head(inbox[r]).order # p
    <3>1. Queued(p, r)' => Queued(p, r)
      BY PickQueues
    <3>2. ASSUME NEW i \in DOMAIN inbox'[r], NEW j \in DOMAIN inbox'[r],
                 inbox'[r][i].order = p, inbox'[r][j].order = p
          PROVE  i = j
      <4>1. /\ i \in Nat /\ i + 1 \in DOMAIN inbox[r] /\ inbox[r][i + 1].order = p
            /\ j \in Nat /\ j + 1 \in DOMAIN inbox[r] /\ inbox[r][j + 1].order = p
        BY <3>2, PickPositions
      <4>2. i + 1 = j + 1
        BY <1>4, <2>3, <4>1 DEF ReportsOnce
      <4>3. QED
        BY <4>1, <4>2
    <3>3. job'[r] # p
      BY <1>2, <2>3
    <3>4. QED
      BY <1>1, <1>4, <2>3, <3>1, <3>2, <3>3 DEF ReportsOnce
  <2>4. QED
    BY <2>1, <2>2, <2>3
<1>5. QED
  BY <1>1, <1>3, <1>4, CountFrame

\* A report is counted for a robot that had not reported; the count that reaches
\* the threshold means that every robot has.
LEMMA CountReported ==
    ASSUME Cardinality(Robots) = Threshold, TypeOK, NEW r \in Robots, CountReport(r),
           NEW p \in Orders, Counted(p)
    PROVE  Counted(p)'
<1>0. PICK o \in Orders : job[r] = o
  BY DEF CountReport, TypeOK
<1>1. job[r] = o /\ o # NoOrder /\ pc[r] = "reporting"
  BY <1>0, OrdersAssumption DEF CountReport
<1>2. UNCHANGED <<dispatches, unsent, inbox, marker, stage, effects>>
  BY DEF CountReport
<1>3. \/ Reached(count[o] + 1) /\ pc' = [pc EXCEPT ![r] = "counted"] /\ job' = job
      \/ ~Reached(count[o] + 1) /\ pc' = [pc EXCEPT ![r] = "idle"]
                                /\ job' = [job EXCEPT ![r] = NoOrder]
  BY <1>0 DEF CountReport, Release
<1>4. \A q \in Robots : q # r => job'[q] = job[q] /\ pc'[q] = pc[q]
  BY <1>3 DEF TypeOK
<1>5. (job'[r] = o /\ pc'[r] = "counted") \/ job'[r] = NoOrder
  BY <1>0, <1>3 DEF TypeOK
<1>6. CASE p # o
  <2>1. count'[p] = count[p] /\ reported'[p] = reported[p]
    BY <1>1, <1>6 DEF CountReport, TypeOK
  <2>2. Claimed(p)' => Claimed(p)
    <3>1. p # NoOrder
      BY OrdersAssumption
    <3>2. QED
      BY <1>2, <1>4, <1>5, <1>6, <3>1 DEF Claimed, Active
  <2>3. \A q \in Robots : ReportsOnce(p, q) => ReportsOnce(p, q)'
    <3>1. p # NoOrder
      BY OrdersAssumption
    <3>2. QED
      BY <1>2, <1>4, <1>5, <1>6, <2>1, <3>1 DEF ReportsOnce, Queued
  <2>4. QED
    BY <1>2, <2>1, <2>2, <2>3, CountFrame
<1>7. CASE p = o
  <2> SUFFICES ASSUME Single(o)
               PROVE  CountInv(o)'
    BY <1>2, <1>7 DEF Counted, Single
  <2>1. CountInv(o)
    BY <1>7 DEF Counted
  <2>2. count'[o] = count[o] + 1 /\ reported'[o] = reported[o] \cup {r}
    BY <1>1 DEF CountReport, TypeOK
  <2>3. r \notin reported[o] /\ ~Queued(o, r) /\ ~(unsent[o] > 0)
    BY <1>1, <2>1 DEF CountInv, ReportsOnce
  <2>4. \A q \in Robots : ReportsOnce(o, q)'
    <3>1. ASSUME NEW q \in Robots
          PROVE  ReportsOnce(o, q)'
      <4>1. ReportsOnce(o, q)
        BY <2>1 DEF CountInv
      <4>2. CASE q = r
        BY <1>1, <1>2, <1>5, <2>3, <4>1, <4>2 DEF ReportsOnce, Queued
      <4>3. CASE q # r
        BY <1>2, <1>4, <2>2, <2>3, <4>1, <4>3 DEF ReportsOnce, Queued
      <4>4. QED
        BY <4>2, <4>3
    <3>2. QED
      BY <3>1
  <2>5. /\ IsFiniteSet(reported[o]) /\ IsFiniteSet(reported'[o]) /\ reported'[o] \subseteq Robots
        /\ Cardinality(reported[o]) \in Nat
        /\ Cardinality(reported'[o]) = Cardinality(reported[o]) + 1
    BY <1>1, <2>2, <2>3, RobotsAssumption, FS_Subset, FS_AddElement, FS_CardinalityType DEF TypeOK
  <2>6. count'[o] <= Cardinality(reported'[o])
    BY <1>1, <2>1, <2>2, <2>5 DEF CountInv, TypeOK
  <2>7. Claimed(o)' => reported'[o] = Robots
    <3>1. CASE Reached(count[o] + 1)
      <4>1. Threshold <= Cardinality(reported'[o])
        BY <1>1, <2>2, <2>5, <2>6, <3>1, ThresholdAssumption DEF Reached, TypeOK
      <4>2. Cardinality(reported'[o]) <= Cardinality(Robots)
        BY <2>5, RobotsAssumption, FS_Subset
      <4>3. Cardinality(reported'[o]) = Cardinality(Robots)
        BY <2>5, <4>1, <4>2, ThresholdAssumption
      <4>4. QED
        BY <2>5, <4>3, RobotsAssumption, FS_Subset
    <3>2. CASE ~Reached(count[o] + 1)
      <4>1. Claimed(o)' => Claimed(o)
        BY <1>1, <1>2, <1>3, <1>4, <1>5, <3>2 DEF Claimed, Active, TypeOK
      <4>2. QED
        BY <2>1, <2>2, <4>1 DEF CountInv
    <3>3. QED
      BY <3>1, <3>2
  <2>8. QED
    BY <1>2, <2>1, <2>4, <2>6, <2>7 DEF CountInv
<1>8. QED
  BY <1>6, <1>7

\* A claim is made by a handler that found the threshold reached.
LEMMA CountClaim ==
    ASSUME TypeOK, NEW r \in Robots, ClaimOrder(r), NEW p \in Orders, Counted(p)
    PROVE  Counted(p)'
<1>1. /\ job[r] \in Orders /\ pc[r] = "counted"
      /\ UNCHANGED <<dispatches, unsent, inbox, count, reported, effects>>
  BY DEF ClaimOrder, TypeOK
<1>2. /\ job'[r] = NoOrder /\ pc'[r] = "idle"
      /\ \A q \in Robots : q # r => job'[q] = job[q] /\ pc'[q] = pc[q]
  BY DEF ClaimOrder, Release, TypeOK
<1>3. p # NoOrder
  BY OrdersAssumption
<1>4. \A q \in Robots : ReportsOnce(p, q) => ReportsOnce(p, q)'
  BY <1>1, <1>2, <1>3 DEF ReportsOnce, Queued
<1>5. Claimed(p)' => Claimed(p)
  <2>1. CASE p = job[r]
    BY <1>1, <2>1 DEF Claimed
  <2>2. CASE p # job[r]
    <3>1. marker'[p] = marker[p] /\ stage'[p] = stage[p]
      BY <1>1, <2>2 DEF ClaimOrder, TypeOK
    <3>2. QED
      BY <1>1, <1>2, <1>3, <3>1 DEF Claimed, Active
  <2>3. QED
    BY <2>1, <2>2
<1>6. QED
  BY <1>1, <1>4, <1>5, CountFrame

\* Giving up a report or dying counts nothing.
LEMMA CountGiveUp ==
    ASSUME TypeOK, NEW r \in Robots, LoseReport(r) \/ FailClaim(r) \/ RobotCrash(r),
           NEW p \in Orders, Counted(p)
    PROVE  Counted(p)'
<1>1. UNCHANGED <<dispatches, unsent, marker, count, reported, stage, effects>>
  BY DEF LoseReport, FailClaim, RobotCrash
<1>2. /\ job'[r] = NoOrder /\ pc'[r] = "idle"
      /\ \A q \in Robots : q # r => job'[q] = job[q] /\ pc'[q] = pc[q]
  BY DEF LoseReport, FailClaim, RobotCrash, Release, TypeOK
<1>3. \A q \in Robots : inbox'[q] = inbox[q] \/ inbox'[q] = << >>
  BY DEF LoseReport, FailClaim, RobotCrash, TypeOK
<1>4. \A q \in Robots : ReportsOnce(p, q) => ReportsOnce(p, q)'
  BY <1>1, <1>2, <1>3, ReportsFrame
<1>5. Claimed(p)' => Claimed(p)
  BY <1>1, <1>2, OrdersAssumption DEF Claimed, Active
<1>6. QED
  BY <1>1, <1>4, <1>5, CountFrame

\* A finalizer makes no new claim.
LEMMA CountFinalizer ==
    ASSUME TypeOK, NEW o \in Orders, NEW s \in Slots, Finalize(o, s),
           NEW p \in Orders, Counted(p)
    PROVE  Counted(p)'
<1>1. UNCHANGED <<dispatches, unsent, inbox, pc, job, reported>>
  BY DEF Finalize, LoadItems, Bill, UpsertLine, PushMetrics, PostWebhook, DeleteOrderData
<1>2. count'[p] = count[p] \/ count'[p] = 0
  BY DEF Finalize, LoadItems, Bill, UpsertLine, PushMetrics, PostWebhook, DeleteOrderData, TypeOK
<1>3. \A q \in Robots : ReportsOnce(p, q) => ReportsOnce(p, q)'
  BY <1>1 DEF ReportsOnce, Queued
<1>4. Claimed(p)' => Claimed(p)
  <2>1. CASE p = o
    <3>1. Active(o, s)
      BY LinesAssumption DEF Finalize, LoadItems, Bill, UpsertLine, PushMetrics, PostWebhook,
            DeleteOrderData, Active, Idle, LoadStage, BillStage, PushStage, PostStage
    <3>2. QED
      BY <2>1, <3>1 DEF Claimed
  <2>2. CASE p # o
    <3>1. stage'[p] = stage[p] /\ effects'[p] = effects[p]
      BY <2>2 DEF Finalize, LoadItems, Bill, UpsertLine, PushMetrics, PostWebhook,
            DeleteOrderData, Done, Skipped, TypeOK
    <3>2. marker'[p] = marker[p]
      BY <2>2 DEF Finalize, LoadItems, Bill, UpsertLine, PushMetrics, PostWebhook,
            DeleteOrderData, TypeOK
    <3>3. QED
      BY <1>1, <3>1, <3>2 DEF Claimed, Active
  <2>3. QED
    BY <2>1, <2>2
<1>5. QED
  BY <1>1, <1>2, <1>3, <1>4, CountFrame

\* No failure counts a report or claims an order.
LEMMA CountFailure ==
    ASSUME TypeOK,
           \/ InventoryCrash
           \/ RedisRestart
           \/ \E o \in Orders : ExpireItems(o) \/ ExpireMarker(o),
           NEW p \in Orders, Counted(p)
    PROVE  Counted(p)'
<1>1. CASE InventoryCrash
  <2>1. UNCHANGED <<dispatches, inbox, marker, count, reported, effects>> /\ unsent'[p] = 0
    BY <1>1 DEF InventoryCrash
  <2>2. \A q \in Robots : (job'[q] = job[q] /\ pc'[q] = pc[q]) \/ job'[q] = NoOrder
    BY <1>1 DEF InventoryCrash, TypeOK
  <2>3. \A q \in Robots : ReportsOnce(p, q) => ReportsOnce(p, q)'
    BY <2>1, <2>2, ReportsFrame
  <2>4. \A s \in Slots : ~Active(p, s)'
    BY <1>1 DEF InventoryCrash, Active
  <2>5. Claimed(p)' => Claimed(p)
    BY <2>1, <2>2, <2>4, OrdersAssumption DEF Claimed
  <2>6. QED
    BY <2>1, <2>3, <2>5, CountFrame
<1>2. CASE RedisRestart
  <2>1. /\ UNCHANGED <<dispatches, unsent, inbox, pc, job, reported, stage, effects>>
        /\ count'[p] = 0 /\ ~marker'[p]
    BY <1>2 DEF RedisRestart
  <2>2. \A q \in Robots : ReportsOnce(p, q) => ReportsOnce(p, q)'
    BY <2>1 DEF ReportsOnce, Queued
  <2>3. Claimed(p)' => Claimed(p)
    BY <2>1 DEF Claimed, Active
  <2>4. QED
    BY <2>1, <2>2, <2>3, CountFrame
<1>3. ASSUME NEW o \in Orders, ExpireItems(o) \/ ExpireMarker(o)
      PROVE  Counted(p)'
  <2>1. /\ UNCHANGED <<dispatches, unsent, inbox, pc, job, reported, stage, effects, count>>
    BY <1>3 DEF ExpireItems, ExpireMarker
  <2>2. marker'[p] = marker[p] \/ ~marker'[p]
    BY <1>3 DEF ExpireItems, ExpireMarker, TypeOK
  <2>3. \A q \in Robots : ReportsOnce(p, q) => ReportsOnce(p, q)'
    BY <2>1 DEF ReportsOnce, Queued
  <2>4. Claimed(p)' => Claimed(p)
    BY <2>1, <2>2 DEF Claimed, Active
  <2>5. QED
    BY <2>1, <2>3, <2>4, CountFrame
<1>4. QED
  BY <1>1, <1>2, <1>3

\* All kinds of step together.
LEMMA CountStep == TypeOK /\ FreshInv /\ ReportInv /\ [Next]_vars => ReportInv'
<1> SUFFICES ASSUME TypeOK, FreshInv, ReportInv, [Next]_vars, Cardinality(Robots) = Threshold,
                    NEW p \in Orders
             PROVE  Counted(p)'
  BY DEF ReportInv, Counted
<1>1. Counted(p)
  BY DEF ReportInv, Counted
<1>2. CASE UNCHANGED vars
  BY <1>1, <1>2 DEF Counted, Single, CountInv, ReportsOnce, Queued, Claimed, Active
<1>3. CASE Next
  BY <1>1, <1>3, CountDispatch, CountPick, CountReported, CountClaim, CountGiveUp,
     CountFinalizer, CountFailure DEF Next, Work
<1>4. QED
  BY <1>2, <1>3

\* With as many robots as the threshold, a claim means that all robots reported.
THEOREM ReportInvariant == Spec => []ReportInv
BY CountInit, CountStep, TypeCorrect, FreshOrders, PTL DEF Spec

-----------------------------------------------------------------------------
(* Every robot that reported an order picked its share of it.              *)

\* The robots' steps keep what was picked.
LEMMA PickedRobot ==
    ASSUME TypeOK, PickedInv, "lookup" \notin Faults, NEW r \in Robots,
           Work(r) \/ LoseReport(r) \/ FailClaim(r) \/ RobotCrash(r)
    PROVE  PickedInv'
<1> SUFFICES ASSUME NEW p \in Orders, NEW q \in Robots
             PROVE  /\ \A i \in DOMAIN inbox'[q] : inbox'[q][i].order = p =>
                          inbox'[q][i].work = WorkFor[p]
                    /\ job'[q] = p \/ q \in reported'[p] =>
                          (q \in WorkFor[p] => q \in picked'[p])
  BY DEF PickedInv
<1>1. /\ \A i \in DOMAIN inbox[q] : inbox[q][i].order = p => inbox[q][i].work = WorkFor[p]
      /\ job[q] = p \/ q \in reported[p] => (q \in WorkFor[p] => q \in picked[p])
  BY DEF PickedInv
<1>2. p # NoOrder
  BY OrdersAssumption
<1>3. CASE Pick(r)
  <2>1. /\ job'[r] = Head(inbox[r]).order /\ reported' = reported
        /\ \A t \in Robots : t # r => job'[t] = job[t]
    BY <1>3 DEF Pick, TypeOK
  <2>2. Head(inbox[r]) \in Message /\ Head(inbox[r]).order \in Orders
    BY <1>3, PickPositions DEF Message
  <2>3. picked[p] \subseteq picked'[p]
    BY <1>3 DEF Pick, TypeOK
  <2>4. \A i \in DOMAIN inbox'[q] : inbox'[q][i].order = p => inbox'[q][i].work = WorkFor[p]
    BY <1>1, <1>3, PickPositions
  <2>5. q = r /\ Head(inbox[r]).order = p /\ r \in WorkFor[p] => r \in picked'[p]
    <3>1. SUFFICES ASSUME q = r, Head(inbox[r]).order = p, r \in WorkFor[p]
                   PROVE  r \in picked'[p]
      OBVIOUS
    <3>2. Head(inbox[r]).work = WorkFor[p]
      BY <1>1, <1>3, <3>1, PickPositions
    <3>3. picked' = [picked EXCEPT ![p] = picked[p] \cup {r}]
      BY <1>3, <3>1, <3>2 DEF Pick
    <3>4. QED
      BY <3>3 DEF TypeOK
  <2>6. QED
    BY <1>1, <2>1, <2>3, <2>4, <2>5
<1>4. CASE CountReport(r)
  <2>1. /\ inbox' = inbox /\ picked' = picked
        /\ job'[q] = job[q] \/ job'[q] = NoOrder
    BY <1>4 DEF CountReport, Release, TypeOK
  <2>2. q \in reported'[p] => q \in reported[p] \/ job[q] = p
    BY <1>4 DEF CountReport, TypeOK
  <2>3. QED
    BY <1>1, <1>2, <2>1, <2>2
<1>5. CASE ClaimOrder(r) \/ LoseReport(r) \/ FailClaim(r) \/ RobotCrash(r)
  <2>1. /\ picked' = picked /\ reported' = reported
        /\ job'[q] = job[q] \/ job'[q] = NoOrder
    BY <1>5 DEF ClaimOrder, LoseReport, FailClaim, RobotCrash, Release, TypeOK
  <2>2. inbox'[q] = inbox[q] \/ inbox'[q] = << >>
    BY <1>5 DEF ClaimOrder, LoseReport, FailClaim, RobotCrash, TypeOK
  <2>3. \A i \in DOMAIN inbox'[q] : inbox'[q][i].order = p => inbox'[q][i].work = WorkFor[p]
    BY <1>1, <2>2
  <2>4. QED
    BY <1>1, <1>2, <2>1, <2>3
<1>6. QED
  BY <1>3, <1>4, <1>5 DEF Work

\* All kinds of step together.
LEMMA PickedStep == TypeOK /\ PickedInv /\ [Next]_vars => PickedInv'
<1> SUFFICES ASSUME TypeOK, PickedInv, [Next]_vars, "lookup" \notin Faults
             PROVE  PickedInv'
  BY DEF PickedInv
<1>1. ASSUME UNCHANGED <<inbox, job, reported, picked>>
      PROVE  PickedInv'
  BY <1>1 DEF PickedInv
<1>2. ASSUME NEW o \in Orders, Broadcast(o)
      PROVE  PickedInv'
  <2>1. UNCHANGED <<job, reported, picked>>
    BY <1>2 DEF Broadcast
  <2>2. Routings(o) = {WorkFor[o]}
    BY DEF Routings
  <2>3. ASSUME NEW p \in Orders, NEW r \in Robots, NEW i \in DOMAIN inbox'[r],
               inbox'[r][i].order = p
        PROVE  inbox'[r][i].work = WorkFor[p]
    BY <1>2, <2>2, <2>3, BroadcastPositions DEF PickedInv
  <2>4. QED
    BY <2>1, <2>3 DEF PickedInv
<1>3. CASE InventoryCrash
  <2>1. /\ UNCHANGED <<inbox, reported, picked>>
        /\ \A r \in Robots : job'[r] = job[r] \/ job'[r] = NoOrder
    BY <1>3 DEF InventoryCrash
  <2>2. QED
    BY <2>1, OrdersAssumption DEF PickedInv
<1>4. ASSUME NEW o \in Orders, NEW s \in Slots, Finalize(o, s)
      PROVE  PickedInv'
  BY <1>1, <1>4 DEF Finalize, LoadItems, Bill, UpsertLine, PushMetrics, PostWebhook,
     DeleteOrderData
<1>5. ASSUME NEW o \in Orders, SaveItems(o) \/ ExpireItems(o) \/ ExpireMarker(o)
      PROVE  PickedInv'
  BY <1>1, <1>5 DEF SaveItems, ExpireItems, ExpireMarker
<1>6. CASE RedisRestart
  BY <1>1, <1>6 DEF RedisRestart
<1>7. CASE UNCHANGED vars
  BY <1>1, <1>7
<1>8. QED
  BY <1>2, <1>3, <1>4, <1>5, <1>6, <1>7, PickedRobot DEF Next

\* What a robot has taken or reported, it has picked, as long as the aisle lookup
\* works.
THEOREM PickedInvariant == Spec => []PickedInv
<1>1. Init => PickedInv
  BY OrdersAssumption DEF Init, PickedInv
<1>2. QED
  BY <1>1, PickedStep, TypeCorrect, PTL DEF Spec

\* With one robot per expected report, an order handed over once is finalized
\* after all its aisles were picked and reported.
THEOREM AllReportsFirst == Spec => []FinalizedAfterAllReports
<1>1. ReportInv /\ PickedInv => FinalizedAfterAllReports
  BY WorkAssumption DEF ReportInv, CountInv, Claimed, PickedInv, FinalizedAfterAllReports
<1>2. QED
  BY <1>1, ReportInvariant, PickedInvariant, PTL

-----------------------------------------------------------------------------
(* Without failures, an order handed over once leaves no key in Redis.     *)

Keyed(o) == Single(o) /\ dispatches[o] > 0 => KeysOrder(o)

\* KeysOrder survives what neither touches the order nor takes a robot off it.
LEMMA KeysFrame ==
    ASSUME TypeOK, NEW o \in Orders, Keyed(o),
           dispatches'[o] = dispatches[o], unsent'[o] = unsent[o], items'[o] = items[o],
           marker'[o] = marker[o], count'[o] = count[o], reported'[o] = reported[o],
           stage'[o] = stage[o], effects'[o] = effects[o],
           \A r \in Robots : (Coming(o, r) => Coming(o, r)') /\ (Claims(o, r)' <=> Claims(o, r))
    PROVE  Keyed(o)'
<1> SUFFICES ASSUME Single(o) /\ dispatches[o] > 0
             PROVE  KeysOrder(o)'
  BY DEF Keyed, Single
<1>1. KeysOrder(o)
  BY DEF Keyed
<1>2. \A s \in Slots : Active(o, s)' <=> Active(o, s)
  BY DEF Active
<1>3. QED
  BY <1>1, <1>2 DEF KeysOrder

\* What a broadcast leaves in a queue and, without failures, adds to each.
LEMMA BroadcastReaches ==
    ASSUME TypeOK, Faults = {}, NEW o \in Orders, Broadcast(o), NEW r \in Robots
    PROVE  /\ Queued(o, r)'
           /\ \A p \in Orders : Queued(p, r) => Queued(p, r)'
<1>1. PICK work \in Routings(o) :
         inbox' = [q \in Robots |-> Append(inbox[q], [order |-> o, work |-> work])]
  BY DEF Broadcast, Audiences
<1>2. [order |-> o, work |-> work] \in Message /\ inbox[r] \in Seq(Message)
  BY WorkAssumption DEF Routings, Message, TypeOK
<1> DEFINE q == Append(inbox[r], [order |-> o, work |-> work])
<1>3. inbox'[r] = q
  BY <1>1
<1>4. /\ Len(inbox[r]) + 1 \in DOMAIN q
      /\ q[Len(inbox[r]) + 1] = [order |-> o, work |-> work]
      /\ \A i \in DOMAIN inbox[r] : i \in DOMAIN q /\ q[i] = inbox[r][i]
  BY <1>2
<1>5. QED
  BY <1>3, <1>4 DEF Queued

\* A hand-over and its broadcast bring the order to every robot.
LEMMA KeysDispatch ==
    ASSUME Cardinality(Robots) = Threshold, Faults = {}, TypeOK, FreshInv,
           NEW o \in Orders, SaveItems(o) \/ Broadcast(o),
           NEW p \in Orders, Counted(p), Keyed(p)
    PROVE  Keyed(p)'
<1>1. CASE SaveItems(o) /\ p # o
  <2>1. /\ UNCHANGED <<inbox, pc, job, reported, marker, count, stage, effects>>
        /\ dispatches'[p] = dispatches[p] /\ unsent'[p] = unsent[p] /\ items'[p] = items[p]
    BY <1>1 DEF SaveItems, TypeOK
  <2>2. QED
    BY <2>1, KeysFrame DEF Coming, Claims, Queued
<1>2. CASE SaveItems(o) /\ p = o
  <2> SUFFICES ASSUME Single(o)'
               PROVE  KeysOrder(o)'
    BY <1>2 DEF Keyed
  <2>1. dispatches[o] = 0
    BY <1>2 DEF SaveItems, Single, TypeOK
  <2>2. Fresh(o)
    BY <2>1 DEF FreshInv
  <2>3. /\ UNCHANGED <<inbox, pc, job, reported, marker, count, stage, effects>>
        /\ unsent'[o] = 1 /\ items'[o]
    BY <1>2, <2>2 DEF SaveItems, TypeOK, Fresh
  <2>4. reported[o] = {} /\ Cardinality(reported[o]) = 0 /\ Robots # {}
    BY <2>2, FreshCounted, FS_EmptySet, ThresholdAssumption
  <2>5. effects[o][LoadStage] = 0 /\ count[o] = 0 /\ ~marker[o]
        /\ \A s \in Slots : ~Active(o, s)
    BY <2>2, StageRange DEF Fresh, NoEffect
  <2>6. \A r \in Robots : ~Claims(o, r)'
    BY <2>2, <2>3 DEF Claims, Fresh
  <2>7. \A s \in Slots : stage[o][s] # LoadStage
    BY <2>5 DEF Active, Idle, LoadStage
  <2>8. QED
    BY <2>3, <2>4, <2>5, <2>6, <2>7 DEF KeysOrder, Active
<1>3. CASE Broadcast(o)
  <2>1. UNCHANGED <<pc, job, reported, items, marker, count, dispatches, stage, effects>>
    BY <1>3 DEF Broadcast
  <2>2. \A r \in Robots : (Coming(p, r) => Coming(p, r)') /\ (Claims(p, r)' <=> Claims(p, r))
    BY <1>3, <2>1, BroadcastReaches DEF Coming, Claims
  <2>3. CASE p # o
    <3>1. unsent'[p] = unsent[p]
      BY <1>3, <2>3 DEF Broadcast, TypeOK
    <3>2. QED
      BY <2>1, <2>2, <3>1, KeysFrame
  <2>4. CASE p = o
    <3> SUFFICES ASSUME Single(o), dispatches[o] > 0
                 PROVE  KeysOrder(o)'
      BY <2>1, <2>4 DEF Keyed, Single
    <3>1. KeysOrder(o)
      BY <2>4 DEF Keyed
    <3>2. \A r \in Robots : Coming(o, r)'
      BY <1>3, BroadcastReaches DEF Coming
    <3>3. \A s \in Slots : Active(o, s)' <=> Active(o, s)
      BY <2>1 DEF Active
    <3>4. QED
      BY <2>1, <2>2, <2>4, <3>1, <3>2, <3>3 DEF KeysOrder
  <2>5. QED
    BY <2>3, <2>4
<1>4. QED
  BY <1>1, <1>2, <1>3

\* A robot that takes a broadcast still has its report ahead.
LEMMA KeysPick ==
    ASSUME TypeOK, NEW r \in Robots, Pick(r), NEW p \in Orders, Keyed(p)
    PROVE  Keyed(p)'
<1>1. UNCHANGED <<dispatches, unsent, items, marker, count, reported, stage, effects>>
  BY DEF Pick
<1>2. /\ job'[r] = Head(inbox[r]).order /\ pc'[r] = "reporting" /\ pc[r] = "idle"
      /\ \A q \in Robots : q # r => job'[q] = job[q] /\ pc'[q] = pc[q]
  BY DEF Pick, TypeOK
<1>3. \A q \in Robots : Claims(p, q)' <=> Claims(p, q)
  BY <1>2 DEF Claims
<1>4. inbox[r] \in Seq(Message) /\ inbox[r] # << >> /\ inbox'[r] = Tail(inbox[r])
  BY DEF Pick, TypeOK
<1>5. ASSUME NEW q \in Robots, Coming(p, q)
      PROVE  Coming(p, q)'
  <2>1. CASE q # r
    BY <1>2, <1>5, <2>1, PickPositions DEF Coming, Queued
  <2>2. CASE q = r
    <3>1. PICK i \in DOMAIN inbox[r] : inbox[r][i].order = p
      BY <1>2, <1>5, <2>2 DEF Coming, Queued
    <3>2. CASE i = 1
      BY <1>2, <2>2, <3>1, <3>2, PickPositions DEF Coming
    <3>3. CASE i # 1
      <4>1. i - 1 \in DOMAIN Tail(inbox[r]) /\ Tail(inbox[r])[i - 1] = inbox[r][i]
        BY <1>4, <3>1, <3>3
      <4>2. QED
        BY <1>4, <2>2, <3>1, <4>1 DEF Coming, Queued
    <3>4. QED
      BY <3>2, <3>3
  <2>3. QED
    BY <2>1, <2>2
<1>6. QED
  BY <1>1, <1>3, <1>5, KeysFrame

\* The last report of an order finds the threshold reached, and no other does.
LEMMA KeysReport ==
    ASSUME Cardinality(Robots) = Threshold, TypeOK, FreshInv, NEW r \in Robots, CountReport(r),
           NEW p \in Orders, Counted(p), Keyed(p)
    PROVE  Keyed(p)'
<1>0. PICK o \in Orders : job[r] = o
  BY DEF CountReport, TypeOK
<1>1. job[r] = o /\ o # NoOrder /\ p # NoOrder /\ pc[r] = "reporting"
  BY <1>0, OrdersAssumption DEF CountReport
<1>2. UNCHANGED <<dispatches, unsent, inbox, items, marker, stage, effects>>
  BY DEF CountReport
<1>3. \/ Reached(count[o] + 1) /\ pc' = [pc EXCEPT ![r] = "counted"] /\ job' = job
      \/ ~Reached(count[o] + 1) /\ pc' = [pc EXCEPT ![r] = "idle"]
                                /\ job' = [job EXCEPT ![r] = NoOrder]
  BY <1>0 DEF CountReport, Release
<1>4. \A q \in Robots : q # r => job'[q] = job[q] /\ pc'[q] = pc[q]
  BY <1>3 DEF TypeOK
<1>5. ASSUME NEW q \in Robots, q # r
      PROVE  (Coming(p, q) => Coming(p, q)') /\ (Claims(p, q)' <=> Claims(p, q))
  BY <1>2, <1>4, <1>5 DEF Coming, Claims, Queued
<1>6. CASE p # o
  <2>1. count'[p] = count[p] /\ reported'[p] = reported[p]
    BY <1>1, <1>6 DEF CountReport, TypeOK
  <2>2. (job'[r] = o /\ pc'[r] = "counted") \/ job'[r] = NoOrder
    BY <1>0, <1>3 DEF TypeOK
  <2>3. (Coming(p, r) => Coming(p, r)') /\ (Claims(p, r)' <=> Claims(p, r))
    BY <1>1, <1>2, <1>6, <2>2 DEF Coming, Claims, Queued
  <2>4. QED
    BY <1>2, <1>5, <2>1, <2>3, KeysFrame
<1>7. CASE p = o
  <2> SUFFICES ASSUME Single(o), dispatches[o] > 0
               PROVE  KeysOrder(o)'
    BY <1>2, <1>7 DEF Keyed, Single
  <2>1. CountInv(o) /\ KeysOrder(o)
    BY <1>7 DEF Counted, Keyed
  <2>2. count'[o] = count[o] + 1 /\ reported'[o] = reported[o] \cup {r}
    BY <1>1 DEF CountReport, TypeOK
  <2>3. r \notin reported[o] /\ ~Claimed(o)
    BY <1>1, <2>1 DEF CountInv, ReportsOnce
  <2>4. /\ effects[o][LoadStage] = 0 /\ ~marker[o]
        /\ \A s \in Slots : ~Active(o, s)
        /\ \A q \in Robots : ~Claims(o, q)
    <3>1. effects[o][LoadStage] \in Nat
      BY StageRange DEF TypeOK
    <3>2. QED
      BY <2>3, <3>1 DEF Claimed, Claims
  <2>5. /\ IsFiniteSet(reported[o]) /\ Cardinality(reported[o]) \in Nat
        /\ Cardinality(reported'[o]) = Cardinality(reported[o]) + 1
    <3>1. IsFiniteSet(reported[o])
      BY RobotsAssumption, FS_Subset DEF TypeOK
    <3>2. QED
      BY <2>2, <2>3, <3>1, FS_AddElement, FS_CardinalityType
  <2>6. items[o] /\ count'[o] = Cardinality(reported'[o])
    BY <2>1, <2>2, <2>4, <2>5 DEF KeysOrder
  <2>7. \A q \in Robots : Claims(o, q)' => q = r
    BY <1>5, <1>7, <2>4
  <2>8. reported'[o] = Robots => Claims(o, r)'
    <3>1. ASSUME reported'[o] = Robots
          PROVE  Claims(o, r)'
      <4>0. count'[o] = Threshold
        BY <2>6, <3>1
      <4>1. Reached(count[o] + 1)
        BY <2>2, <4>0, ThresholdAssumption DEF Reached
      <4>2. QED
        BY <1>1, <1>3, <4>1 DEF Claims, TypeOK
    <3>2. QED
      BY <3>1
  <2>9. unsent[o] = 0 => \A q \in Robots : q \in reported'[o] \/ Coming(o, q)'
    BY <1>5, <1>7, <2>1, <2>2 DEF KeysOrder
  <2>10. \A s \in Slots : ~Active(o, s)' /\ stage'[o][s] # LoadStage
    BY <1>2, <2>4 DEF Active, LoadStage, Idle
  <2>11. QED
    BY <1>2, <2>4, <2>6, <2>7, <2>8, <2>9, <2>10 DEF KeysOrder
<1>8. QED
  BY <1>6, <1>7

\* The only claim of an order starts its only finalizer.
LEMMA KeysClaim ==
    ASSUME TypeOK, NEW r \in Robots, ClaimOrder(r), NEW p \in Orders, Keyed(p)
    PROVE  Keyed(p)'
<1>1. /\ job[r] \in Orders /\ pc[r] = "counted"
      /\ UNCHANGED <<dispatches, unsent, inbox, items, count, reported, effects>>
  BY DEF ClaimOrder, TypeOK
<1>2. /\ job'[r] = NoOrder /\ p # NoOrder
      /\ \A q \in Robots : q # r => job'[q] = job[q] /\ pc'[q] = pc[q]
  BY OrdersAssumption DEF ClaimOrder, Release, TypeOK
<1>3. \A q \in Robots : Coming(p, q) => Coming(p, q)'
  BY <1>1, <1>2 DEF Coming, Queued
<1>4. CASE p # job[r]
  <2>1. marker'[p] = marker[p] /\ stage'[p] = stage[p]
    BY <1>1, <1>4 DEF ClaimOrder, TypeOK
  <2>2. \A q \in Robots : Claims(p, q)' <=> Claims(p, q)
    BY <1>1, <1>2, <1>4 DEF Claims
  <2>3. QED
    BY <1>1, <1>3, <2>1, <2>2, KeysFrame
<1>5. CASE p = job[r]
  <2> SUFFICES ASSUME Single(p), dispatches[p] > 0
               PROVE  KeysOrder(p)'
    BY <1>1 DEF Keyed, Single
  <2>1. KeysOrder(p)
    BY DEF Keyed
  <2>2. Claims(p, r)
    BY <1>1, <1>5 DEF Claims
  <2>3. /\ effects[p][LoadStage] = 0 /\ \A s \in Slots : stage[p][s] = Idle
        /\ \A q \in Robots : Claims(p, q) => q = r
    BY <2>1, <2>2 DEF KeysOrder, Active
  <2>4. ~marker[p]
    BY <2>1, <2>3 DEF KeysOrder, Active
  <2>5. PICK s \in Slots : stage' = [stage EXCEPT ![p][s] = LoadStage]
    BY <1>5, <2>4 DEF ClaimOrder
  <2>6. stage'[p][s] = LoadStage /\ \A t \in Slots : t # s => stage'[p][t] = Idle
    BY <2>3, <2>5 DEF TypeOK
  <2>7. \A q \in Robots : ~Claims(p, q)'
    BY <1>2, <2>3 DEF Claims
  <2>8. \A t \in Slots : Active(p, t)' <=> t = s
    BY <2>6 DEF Active, LoadStage, Idle
  <2>9. \A t \in Slots : stage'[p][t] = LoadStage <=> t = s
    BY <2>6 DEF LoadStage, Idle
  <2>10. QED
    BY <1>1, <1>3, <2>1, <2>3, <2>7, <2>8, <2>9 DEF KeysOrder
<1>6. QED
  BY <1>4, <1>5

\* The finalizer loads the items, goes through its steps and deletes the keys.
LEMMA KeysFinalizer ==
    ASSUME Faults = {}, TypeOK, OnceInv, NEW o \in Orders, NEW s \in Slots, Finalize(o, s),
           NEW p \in Orders, Keyed(p)
    PROVE  Keyed(p)'
<1>1. UNCHANGED <<dispatches, unsent, inbox, pc, job, reported>>
  BY DEF Finalize, LoadItems, Bill, UpsertLine, PushMetrics, PostWebhook, DeleteOrderData
<1>2. \A q \in Robots : (Coming(p, q)' <=> Coming(p, q)) /\ (Claims(p, q)' <=> Claims(p, q))
  BY <1>1 DEF Coming, Claims, Queued
<1>3. CASE p # o
  <2>1. /\ items'[p] = items[p] /\ marker'[p] = marker[p] /\ count'[p] = count[p]
        /\ stage'[p] = stage[p] /\ effects'[p] = effects[p]
    BY <1>3 DEF Finalize, LoadItems, Bill, UpsertLine, PushMetrics, PostWebhook, DeleteOrderData,
       Done, Skipped, TypeOK
  <2>2. QED
    BY <1>1, <1>2, <2>1, KeysFrame
<1>4. CASE p = o
  <2> SUFFICES ASSUME Single(o), dispatches[o] > 0
               PROVE  KeysOrder(o)'
    BY <1>1, <1>4 DEF Keyed, Single
  <2>1. KeysOrder(o) /\ Finalizing(o)
    BY <1>4 DEF Keyed, OnceInv
  <2> DEFINE Moves == /\ items'[o] = items[o] /\ marker'[o] = marker[o] /\ count'[o] = count[o]
                      /\ Active(o, s)
                      /\ stage'[o][s] \in 1 .. (Lines + 3)
                      /\ \A t \in Slots : t # s => stage'[o][t] = stage[o][t]
                      /\ effects'[o][LoadStage] = 1
  <2>2. Moves => KeysOrder(o)'
    <3> SUFFICES ASSUME Moves
                 PROVE  KeysOrder(o)'
      OBVIOUS
    <3>1. Active(o, s)' /\ stage'[o][s] # LoadStage
      BY LinesAssumption DEF Active, Idle, LoadStage
    <3>2. \A t \in Slots : Active(o, t)' <=> Active(o, t)
      BY <3>1 DEF Active
    <3>3. \A t \in Slots : stage'[o][t] # LoadStage
      BY <2>1, <3>1 DEF KeysOrder, Active, LoadStage, Idle
    <3>4. \A q \in Robots : ~Claims(o, q)
      BY <2>1 DEF KeysOrder
    <3>5. QED
      BY <1>1, <1>2, <1>4, <2>1, <3>1, <3>2, <3>3, <3>4 DEF KeysOrder
  <2> HIDE DEF Moves
  <2>3. CASE LoadItems(o, s)
    <3>1. Active(o, s) /\ effects[o][LoadStage] = 0 /\ items[o]
      BY <2>1, <2>3 DEF LoadItems, KeysOrder
    <3>2. Done(o, s, LoadStage) /\ UNCHANGED <<items, marker, count>>
      BY <2>3, <3>1 DEF LoadItems
    <3>3. effects'[o][LoadStage] = 1
      BY <3>1, <3>2, StageRange DEF Done, TypeOK
    <3>4. stage'[o][s] = 1 /\ \A t \in Slots : t # s => stage'[o][t] = stage[o][t]
      BY <3>2, StageRange DEF Done, LoadStage, TypeOK
    <3>5. Moves
      <4>1. 1 \in 1 .. (Lines + 3)
        BY LinesAssumption
      <4>2. items'[o] = items[o] /\ marker'[o] = marker[o] /\ count'[o] = count[o]
        BY <3>2
      <4>3. QED
        BY <3>1, <3>3, <3>4, <4>1, <4>2 DEF Moves
    <3>6. QED
      BY <2>2, <3>5
  <2>4. ASSUME NEW k \in Stages, k > LoadStage, stage[o][s] = k, Done(o, s, k) \/ Skipped(o, s, k),
               UNCHANGED <<items, marker, count>>
        PROVE  KeysOrder(o)'
    <3>1. Active(o, s) /\ effects[o][LoadStage] = 1
      BY <2>1, <2>4, LinesAssumption DEF Finalizing, Active, Idle, LoadStage, Stages
    <3>2. effects'[o][LoadStage] = 1
      BY <2>4, <3>1, StageRange DEF Done, Skipped, TypeOK
    <3>3. stage' = [stage EXCEPT ![o][s] = k + 1] /\ k + 1 \in 1 .. (Lines + 3)
      BY <2>4, LinesAssumption DEF Done, Skipped, Stages, LoadStage
    <3>4. stage'[o][s] = k + 1 /\ \A t \in Slots : t # s => stage'[o][t] = stage[o][t]
      BY <3>3 DEF TypeOK
    <3>5. Moves
      BY <2>4, <3>1, <3>2, <3>3, <3>4 DEF Moves
    <3>6. QED
      BY <2>2, <3>5
  <2>5. CASE Bill(o, s)
    BY <2>4, <2>5, StageRange DEF Bill, BillStage, LoadStage
  <2>6. CASE UpsertLine(o, s)
    BY <2>4, <2>6, StageRange, LinesAssumption DEF UpsertLine, LoadStage
  <2>7. CASE PushMetrics(o, s)
    <3>1. PushStage > LoadStage /\ PushStage + 1 \in 1 .. (Lines + 3)
      BY LinesAssumption DEF PushStage, LoadStage
    <3>2. CASE Done(o, s, PushStage) \/ Skipped(o, s, PushStage)
      BY <2>4, <2>7, <3>1, <3>2, StageRange DEF PushMetrics
    <3>3. CASE stage' = [stage EXCEPT ![o][s] = PushStage + 1] /\ UNCHANGED effects
      <4>1. Active(o, s) /\ effects[o][LoadStage] = 1
        BY <2>1, <2>7, <3>1 DEF PushMetrics, Finalizing, Active, Idle, LoadStage
      <4>2. /\ stage'[o][s] = PushStage + 1
            /\ \A t \in Slots : t # s => stage'[o][t] = stage[o][t]
        BY <3>3 DEF TypeOK
      <4>3. Moves
        BY <2>7, <3>1, <3>3, <4>1, <4>2 DEF PushMetrics, Moves
      <4>4. QED
        BY <2>2, <4>3
    <3>4. QED
      BY <2>7, <3>2, <3>3 DEF PushMetrics
  <2>8. CASE PostWebhook(o, s)
    <3>1. PostStage(o) > LoadStage
      BY LinesAssumption DEF PostStage, LoadStage
    <3>2. QED
      BY <2>4, <2>8, <3>1, StageRange DEF PostWebhook
  <2>9. CASE DeleteOrderData(o, s)
    <3>1. ~items'[o] /\ ~marker'[o] /\ count'[o] = 0 /\ effects' = effects
      BY <2>9 DEF DeleteOrderData, TypeOK
    <3>2. stage[o][s] > LoadStage /\ Active(o, s)
      BY <2>9, LinesAssumption DEF DeleteOrderData, PostStage, LoadStage, Active, Idle
    <3>3. effects[o][LoadStage] = 1
      BY <2>1, <3>2 DEF Finalizing
    <3>4. \A t \in Slots : ~Active(o, t)'
      BY <2>1, <2>9, <3>2 DEF DeleteOrderData, KeysOrder, Active, TypeOK
    <3>5. \A t \in Slots : stage'[o][t] # LoadStage
      BY <3>4 DEF Active, LoadStage, Idle
    <3>6. \A q \in Robots : ~Claims(o, q)
      BY <2>1, <3>2 DEF KeysOrder
    <3>7. QED
      BY <1>1, <1>2, <1>4, <2>1, <3>1, <3>3, <3>4, <3>5, <3>6 DEF KeysOrder
  <2>10. QED
    BY <1>4, <2>3, <2>5, <2>6, <2>7, <2>8, <2>9 DEF Finalize
<1>5. QED
  BY <1>3, <1>4

\* Every step keeps KeysInv: without failures, only the four kinds above happen.
LEMMA KeysStep == TypeOK /\ FreshInv /\ OnceInv /\ ReportInv /\ KeysInv /\ [Next]_vars => KeysInv'
<1> SUFFICES ASSUME TypeOK, FreshInv, OnceInv, ReportInv, KeysInv, [Next]_vars,
                    Cardinality(Robots) = Threshold, Faults = {}, NEW p \in Orders
             PROVE  Keyed(p)'
  BY DEF KeysInv, Keyed
<1>1. Keyed(p) /\ Counted(p)
  BY DEF KeysInv, Keyed, ReportInv, Counted
<1>2. CASE UNCHANGED vars
  BY <1>1, <1>2, KeysFrame DEF Coming, Claims, Queued
<1>3. ASSUME NEW r \in Robots, Work(r)
      PROVE  Keyed(p)'
  BY <1>1, <1>3, KeysPick, KeysReport, KeysClaim DEF Work
<1>4. ~InventoryCrash /\ ~RedisRestart
  BY DEF InventoryCrash, RedisRestart
<1>5. \A r \in Robots : ~LoseReport(r) /\ ~FailClaim(r) /\ ~RobotCrash(r)
  BY DEF LoseReport, FailClaim, RobotCrash
<1>6. \A o \in Orders : ~ExpireItems(o) /\ ~ExpireMarker(o)
  BY DEF ExpireItems, ExpireMarker
<1>7. QED
  BY <1>1, <1>2, <1>3, <1>4, <1>5, <1>6, KeysDispatch, KeysFinalizer DEF Next

\* Without failures, an order that was handed over once to as many robots as the
\* threshold leaves neither items, nor marker, nor a count without a TTL.
THEOREM KeysDeleted == Spec => []NoKeyLeftBehind
<1>1. Init => KeysInv
  BY DEF Init, KeysInv
<1>2. ASSUME TypeOK, FreshInv, KeysInv
      PROVE  NoKeyLeftBehind
  <2> SUFFICES ASSUME Cardinality(Robots) = Threshold, Faults = {},
                      NEW o \in Orders, Single(o), Quiet(o)
               PROVE  ~items[o] /\ ~marker[o] /\ count[o] = 0
    BY DEF NoKeyLeftBehind
  <2>1. CASE dispatches[o] = 0
    BY <1>2, <2>1 DEF FreshInv, Fresh
  <2>2. CASE dispatches[o] > 0
    <3>1. KeysOrder(o)
      BY <1>2, <2>2 DEF KeysInv
    <3>2. \A s \in Slots : ~Active(o, s)
      BY DEF Quiet, Active
    <3>3. \A r \in Robots : ~Claims(o, r) /\ ~Coming(o, r)
      BY DEF Quiet, Claims, Coming, Queued
    <3>4. reported[o] = Robots
      BY <1>2, <3>1, <3>3 DEF KeysOrder, Quiet, TypeOK
    <3>5. effects[o][LoadStage] > 0
      BY <1>2, <3>1, <3>2, <3>3, <3>4, StageRange DEF KeysOrder, TypeOK
    <3>6. QED
      BY <3>1, <3>2, <3>5 DEF KeysOrder
  <2>3. QED
    BY <1>2, <2>1, <2>2 DEF TypeOK
<1>3. QED
  BY <1>1, <1>2, KeysStep, TypeCorrect, FreshOrders, OnceInvariant, ReportInvariant, PTL DEF Spec

-----------------------------------------------------------------------------
(* The workflow implements OnceCompletion.                                 *)

\* Only SaveItems hands an order over, and it checks the limit.
LEMMA DispatchInvariant == Spec => []DispatchInv
<1>1. Init => DispatchInv
  BY ThresholdAssumption DEF Init, DispatchInv, DispatchLimit
<1>2. TypeOK /\ DispatchInv /\ [Next]_vars => DispatchInv'
  <2> SUFFICES ASSUME TypeOK, DispatchInv, [Next]_vars
               PROVE  DispatchInv'
    OBVIOUS
  <2>1. ASSUME NEW o \in Orders, SaveItems(o)
        PROVE  DispatchInv'
    BY <2>1, ThresholdAssumption DEF SaveItems, DispatchInv, DispatchLimit, TypeOK
  <2>2. CASE UNCHANGED dispatches
    BY <2>2 DEF DispatchInv, DispatchLimit
  <2>3. CASE Next
    <3>1. UNCHANGED dispatches \/ \E o \in Orders : SaveItems(o)
      BY <2>3 DEF Next, Broadcast, Work, Pick, CountReport, ClaimOrder, LoseReport, FailClaim,
         RobotCrash, Finalize, LoadItems, Bill, UpsertLine, PushMetrics, PostWebhook,
         DeleteOrderData, ExpireItems, ExpireMarker, InventoryCrash, RedisRestart
    <3>2. QED
      BY <2>1, <2>2, <3>1
  <2>4. QED
    BY <2>2, <2>3
<1>3. QED
  BY <1>1, <1>2, TypeCorrect, PTL DEF Spec

OnceVars == <<dispatches, reported, effects>>

\* Steps that touch none of the mapped fields stutter.
LEMMA Stutter ==
    ASSUME UNCHANGED OnceVars
    PROVE  UNCHANGED Once!vars
BY DEF OnceVars, Once!vars

\* The initial states correspond.
LEMMA OnceRefInit == Init => Once!Init
BY StageRange DEF Init, Once!Init

\* Handing an order over for the first time accepts it.
LEMMA AcceptStep ==
    ASSUME TypeOK, NEW o \in Orders, SaveItems(o), Single(o)'
    PROVE  Once!Accept(o)
<1>1. dispatches[o] = 0 /\ dispatches'[o] = 1
  BY DEF SaveItems, Single, TypeOK
<1>2. \A p \in Orders : p # o => dispatches'[p] = dispatches[p]
  BY DEF SaveItems, TypeOK
<1>3. UNCHANGED <<reported, effects>>
  BY DEF SaveItems
<1>4. {p \in Orders : dispatches'[p] > 0} = {p \in Orders : dispatches[p] > 0} \cup {o}
  BY <1>1, <1>2
<1>5. o \notin {p \in Orders : dispatches[p] > 0}
  BY <1>1
<1>6. QED
  BY <1>3, <1>4, <1>5 DEF Once!Accept

\* Counting a report is a first report of an accepted order.
LEMMA ReportStep ==
    ASSUME TypeOK, FreshInv, NEW r \in Robots, CountReport(r), Single(job[r]), Counted(job[r])
    PROVE  \E o \in Orders : Once!Report(o, r)
<1>1. PICK o \in Orders : job[r] = o
  BY DEF CountReport, TypeOK
<1>2. dispatches[o] > 0
  BY <1>1 DEF FreshInv, Fresh, TypeOK
<1>3. r \notin reported[o]
  BY <1>1 DEF Counted, CountInv, ReportsOnce, CountReport
<1>4. reported' = [reported EXCEPT ![o] = @ \cup {r}] /\ UNCHANGED <<dispatches, effects>>
  BY <1>1 DEF CountReport
<1>5. Once!Report(o, r)
  BY <1>2, <1>3, <1>4 DEF Once!Report
<1>6. QED
  BY <1>5

\* Loading the items settles the order, once and after all reports.
LEMMA SettleStep ==
    ASSUME TypeOK, OnceInv, NEW o \in Orders, NEW s \in Slots, Single(o), Counted(o),
           items[o], stage[o][s] = LoadStage, Done(o, s, LoadStage),
           UNCHANGED <<dispatches, reported>>
    PROVE  Once!Settle(o)
<1>1. reported[o] = Robots
  BY DEF Counted, CountInv, Claimed, Active, LoadStage, Idle
<1>2. effects[o][LoadStage] = 0
  BY StageRange DEF OnceInv, Guarded, NoEffect
<1>3. effects'[o][LoadStage] = 1 /\ \A p \in Orders : p # o => effects'[p] = effects[p]
  BY <1>2, StageRange DEF Done, TypeOK
<1>4. \A p \in Orders : effects'[p][PostStage(p)] = effects[p][PostStage(p)]
  BY <1>3, LinesAssumption DEF Done, TypeOK, PostStage, LoadStage
<1>5. [p \in Orders |-> effects'[p][LoadStage]] =
        [[p \in Orders |-> effects[p][LoadStage]] EXCEPT ![o] = 1]
  BY <1>3
<1>6. [p \in Orders |-> effects'[p][PostStage(p)]] = [p \in Orders |-> effects[p][PostStage(p)]]
  BY <1>4
<1>7. QED
  BY <1>1, <1>2, <1>5, <1>6 DEF Once!Settle

\* The applied webhook completes the order, once and after it was settled.
LEMMA CompleteStep ==
    ASSUME TypeOK, OnceInv, NEW o \in Orders, NEW s \in Slots, Single(o),
           stage[o][s] = PostStage(o), Done(o, s, PostStage(o)),
           UNCHANGED <<dispatches, reported>>
    PROVE  Once!Complete(o)
<1>1. PostStage(o) \in Stages /\ PostStage(o) > LoadStage
  BY StageRange, LinesAssumption DEF PostStage, LoadStage
<1>2. effects[o][LoadStage] = 1 /\ effects[o][PostStage(o)] = 0
  BY <1>1, LinesAssumption DEF OnceInv, Finalizing, Stages
<1>3. effects'[o][PostStage(o)] = 1 /\ \A p \in Orders : p # o => effects'[p] = effects[p]
  BY <1>1, <1>2 DEF Done, TypeOK
<1>4. \A p \in Orders : effects'[p][LoadStage] = effects[p][LoadStage]
  BY <1>1, <1>3 DEF Done, TypeOK, LoadStage
<1>5. [p \in Orders |-> effects'[p][PostStage(p)]] =
        [[p \in Orders |-> effects[p][PostStage(p)]] EXCEPT ![o] = 1]
  BY <1>3
<1>6. [p \in Orders |-> effects'[p][LoadStage]] = [p \in Orders |-> effects[p][LoadStage]]
  BY <1>4
<1>7. QED
  BY <1>2, <1>5, <1>6 DEF Once!Complete

\* The steps between loading and posting are invisible.
LEMMA InnerStep ==
    ASSUME TypeOK, NEW o \in Orders, NEW k \in Stages, k # LoadStage, k # PostStage(o),
           effects' = [effects EXCEPT ![o][k] = @ + 1],
           UNCHANGED <<dispatches, reported>>
    PROVE  UNCHANGED Once!vars
<1>1. \A p \in Orders : /\ effects'[p][LoadStage] = effects[p][LoadStage]
                        /\ effects'[p][PostStage(p)] = effects[p][PostStage(p)]
  BY StageRange DEF TypeOK
<1>2. [p \in Orders |-> effects'[p][LoadStage]] = [p \in Orders |-> effects[p][LoadStage]]
  BY <1>1
<1>3. [p \in Orders |-> effects'[p][PostStage(p)]] = [p \in Orders |-> effects[p][PostStage(p)]]
  BY <1>1
<1>4. QED
  BY <1>2, <1>3 DEF Once!vars

\* Every step of a finalizer settles, completes or is invisible.
LEMMA FinalizerRefines ==
    ASSUME TypeOK, OnceInv, NEW o \in Orders, NEW s \in Slots, Finalize(o, s),
           Single(o), Counted(o)
    PROVE  Once!Settle(o) \/ Once!Complete(o) \/ UNCHANGED Once!vars
<1>1. UNCHANGED <<dispatches, reported>>
  BY DEF Finalize, LoadItems, Bill, UpsertLine, PushMetrics, PostWebhook, DeleteOrderData
<1>2. CASE UNCHANGED effects
  BY <1>1, <1>2, Stutter DEF OnceVars
<1>3. CASE LoadItems(o, s) /\ ~UNCHANGED effects
  BY <1>1, <1>3, SettleStep DEF LoadItems
<1>4. CASE Bill(o, s) /\ ~UNCHANGED effects
  BY <1>1, <1>4, InnerStep, StageRange
  DEF Bill, Done, Skipped, BillStage, LoadStage, PostStage
<1>5. CASE UpsertLine(o, s) /\ ~UNCHANGED effects
  BY <1>1, <1>5, InnerStep, StageRange, LinesAssumption
  DEF UpsertLine, Done, Skipped, LoadStage, PostStage
<1>6. CASE PushMetrics(o, s) /\ ~UNCHANGED effects
  BY <1>1, <1>6, InnerStep, StageRange, LinesAssumption
  DEF PushMetrics, Done, Skipped, PushStage, LoadStage, PostStage
<1>7. CASE PostWebhook(o, s) /\ ~UNCHANGED effects
  BY <1>1, <1>7, CompleteStep DEF PostWebhook, Skipped
<1>8. CASE DeleteOrderData(o, s)
  BY <1>2, <1>8 DEF DeleteOrderData
<1>9. QED
  BY <1>2, <1>3, <1>4, <1>5, <1>6, <1>7, <1>8 DEF Finalize

\* Every step of the workflow is a step of OnceCompletion or a stutter.
LEMMA OnceRefStep ==
    ASSUME Cardinality(Robots) = Threshold, MaxDispatch = 1
    PROVE  /\ TypeOK /\ FreshInv /\ OnceInv /\ ReportInv /\ DispatchInv /\ DispatchInv'
           /\ [Next]_vars
           => [Once!Next]_(Once!vars)
<1> SUFFICES ASSUME TypeOK, FreshInv, OnceInv, ReportInv, DispatchInv, DispatchInv', [Next]_vars
             PROVE  Once!Next \/ UNCHANGED Once!vars
  OBVIOUS
<1>1. \A o \in Orders : Single(o) /\ Single(o)' /\ Counted(o)
  BY DEF DispatchInv, DispatchLimit, Single, ReportInv, Counted, TypeOK
<1>2. CASE UNCHANGED OnceVars
  BY <1>2, Stutter
<1>3. ASSUME NEW o \in Orders, SaveItems(o)
      PROVE  Once!Next
  BY <1>1, <1>3, AcceptStep DEF Once!Next
<1>4. ASSUME NEW r \in Robots, CountReport(r)
      PROVE  Once!Next
  <2>1. job[r] \in Orders
    BY <1>4 DEF CountReport, TypeOK
  <2>2. QED
    BY <1>1, <1>4, <2>1, ReportStep DEF Once!Next
<1>5. ASSUME NEW o \in Orders, NEW s \in Slots, Finalize(o, s)
      PROVE  Once!Next \/ UNCHANGED Once!vars
  BY <1>1, <1>5, FinalizerRefines DEF Once!Next
<1>6. ASSUME NEW o \in Orders, Broadcast(o) \/ ExpireItems(o) \/ ExpireMarker(o)
      PROVE  UNCHANGED OnceVars
  BY <1>6 DEF Broadcast, ExpireItems, ExpireMarker, OnceVars
<1>7. ASSUME NEW r \in Robots,
             Pick(r) \/ ClaimOrder(r) \/ LoseReport(r) \/ FailClaim(r) \/ RobotCrash(r)
      PROVE  UNCHANGED OnceVars
  BY <1>7 DEF Pick, ClaimOrder, LoseReport, FailClaim, RobotCrash, OnceVars
<1>8. CASE InventoryCrash \/ RedisRestart
  BY <1>2, <1>8 DEF InventoryCrash, RedisRestart, OnceVars
<1>9. CASE UNCHANGED vars
  BY <1>2, <1>9 DEF OnceVars
<1>10. QED
  BY <1>2, <1>3, <1>4, <1>5, <1>6, <1>7, <1>8, <1>9 DEF Next, Work

\* One robot per expected report and one hand-over per order: the whole workflow,
\* with every failure that is modelled, implements OnceCompletion.
THEOREM Implementation ==
    ASSUME Cardinality(Robots) = Threshold, MaxDispatch = 1
    PROVE  Spec => ImplementsOnce
<1>1. Init => Once!Init
  BY OnceRefInit
<1>2. /\ TypeOK /\ FreshInv /\ OnceInv /\ ReportInv /\ DispatchInv /\ DispatchInv'
      /\ [Next]_vars
      => [Once!Next]_(Once!vars)
  BY OnceRefStep
<1>3. QED
  BY <1>1, <1>2, TypeCorrect, FreshOrders, OnceInvariant, ReportInvariant, DispatchInvariant, PTL
  DEF Spec, ImplementsOnce, Once!Spec
=============================================================================
