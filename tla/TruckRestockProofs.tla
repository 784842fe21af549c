------------------------- MODULE TruckRestockProofs --------------------------
(***************************************************************************)
(* Theorems about TruckRestock, for any restocks, robots, threshold,       *)
(* manifest length, customer metrics and failures.                         *)
(***************************************************************************)
EXTENDS TruckRestockInv, FulfilmentProofs

USE DEF redis, handlers, robots, vars, logvars, trucking, truckvars

-----------------------------------------------------------------------------
(* The workflow inside of the composition.                                 *)

\* The steps of ordering and of the log that leave the workflow alone.
OrderingOnly ==
    \/ \E o \in Orders :
          Submit(o) \/ CreateRestockOrder(o) \/ FailCall(o) \/ Accept(o) \/ Publish(o)
    \/ \E m \in Metrics \ Orders : PublishCustomer(m)
    \/ OrderingCrash
    \/ Restart
    \/ Logging(AnalyticsNext)

\* The steps of the workflow that leave ordering and the log alone.
WorkflowOnly ==
    /\ UNCHANGED <<logvars, trucking>>
    /\ \/ \E o \in Orders, s \in Slots :
             LoadItems(o, s) \/ UpsertLine(o, s) \/ PushMetrics(o, s) \/ DeleteOrderData(o, s)
       \/ \E o \in Orders : Broadcast(o) \/ ExpireItems(o) \/ ExpireMarker(o)
       \/ \E r \in Robots : Work(r) \/ LoseReport(r) \/ FailClaim(r) \/ RobotCrash(r)
       \/ RedisRestart

\* Every step is one of ordering and the log, one of the workflow, or one of the
\* four that they take together.
LEMMA Split ==
    ASSUME TruckNext
    PROVE  \/ OrderingOnly
           \/ WorkflowOnly
           \/ \E o \in Orders : CallInventory(o)
           \/ \E o \in Orders, s \in Slots : Post(o, s) \/ MissPost(o, s)
           \/ Interrupt
BY DEF TruckNext, OrderingOnly, WorkflowOnly, Settle, Alone, Restocking

\* Ordering and the log on their own do not touch the workflow.
LEMMA OrderingFrame ==
    ASSUME OrderingOnly
    PROVE  UNCHANGED vars
BY DEF OrderingOnly, Submit, CreateRestockOrder, FailCall, Accept, Publish, PublishCustomer,
   OrderingCrash, Restart, Logging

\* A webhook that nobody receives only moves its finalizer on.
LEMMA MissPostKeeps ==
    ASSUME TypeOK, FreshInv, OnceInv, NEW o \in Orders, NEW s \in Slots, MissPost(o, s)
    PROVE  TypeOK' /\ FreshInv' /\ OnceInv'
<1>1. PostStage(o) + 1 \in Idle .. (Lines + 3) /\ PostStage(o) \in Stages /\ PostStage(o) > LoadStage
  BY StageRange, LinesAssumption DEF PostStage, LoadStage
<1>2. /\ stage[o][s] = PostStage(o)
      /\ stage' = [stage EXCEPT ![o][s] = PostStage(o) + 1]
      /\ UNCHANGED <<items, marker, count, outlived, dispatches, unsent, inbox, pc, job,
                     effects, picked, reported>>
  BY DEF MissPost, TypeOK
<1>3. stage' \in [Orders -> [Slots -> Idle .. (Lines + 3)]]
  BY <1>1, <1>2, StageUpdate
<1>4. TypeOK'
  BY <1>2, <1>3 DEF TypeOK
<1>5. FreshInv'
  <2>1. dispatches[o] # 0
    BY <1>1, <1>2 DEF FreshInv, Fresh, Active, LoadStage, Idle
  <2>2. \A p \in Orders : p # o => stage'[p] = stage[p]
    BY <1>2 DEF TypeOK
  <2>3. QED
    BY <1>2, <2>1, <2>2 DEF FreshInv, Fresh, Queued, Active, NoEffect
<1>6. OnceInv'
  BY <1>1, <1>2, OnceAdvance
<1>7. QED
  BY <1>4, <1>5, <1>6

\* The workflow's invariants, which hold inside of the composition too.
WorkflowInv == TypeOK /\ FreshInv /\ OnceInv

\* Every step of the composition keeps them.
LEMMA WorkflowStep ==
    ASSUME WorkflowInv, [TruckNext]_truckvars
    PROVE  WorkflowInv'
<1> USE DEF WorkflowInv
<1>1. ASSUME [Next]_vars
      PROVE  WorkflowInv'
  BY <1>1, TypeStep, FreshStep, OnceStep
<1>2. CASE UNCHANGED truckvars \/ OrderingOnly
  BY <1>1, <1>2, OrderingFrame
<1>3. CASE WorkflowOnly
  BY <1>1, <1>3 DEF WorkflowOnly, Next, Finalize
<1>4. ASSUME NEW o \in Orders, CallInventory(o)
      PROVE  WorkflowInv'
  BY <1>1, <1>4 DEF CallInventory, Next
<1>5. ASSUME NEW o \in Orders, NEW s \in Slots, Post(o, s)
      PROVE  WorkflowInv'
  BY <1>1, <1>5 DEF Post, Next, Finalize
<1>6. ASSUME NEW o \in Orders, NEW s \in Slots, MissPost(o, s)
      PROVE  WorkflowInv'
  BY <1>6, MissPostKeeps
<1>7. CASE Interrupt
  BY <1>1, <1>7 DEF Interrupt, Next
<1>8. QED
  BY <1>2, <1>3, <1>4, <1>5, <1>6, <1>7, Split

\* A step that is not a lost webhook is a step of the workflow, or none: either way
\* the workflow's types are kept without its other invariants.
LEMMA WorkflowTypeStep ==
    ASSUME TypeOK, [TruckNext]_truckvars
    PROVE  TypeOK'
<1>1. ASSUME [Next]_vars
      PROVE  TypeOK'
  BY <1>1, TypeStep
<1>2. ASSUME NEW o \in Orders, NEW s \in Slots, MissPost(o, s)
      PROVE  TypeOK'
  <2>1. PostStage(o) + 1 \in Idle .. (Lines + 3)
    BY StageRange
  <2>2. stage' = [stage EXCEPT ![o][s] = PostStage(o) + 1]
    BY <1>2 DEF MissPost, TypeOK
  <2>3. QED
    BY <1>2, <2>1, <2>2, StageUpdate DEF MissPost, TypeOK
<1>3. CASE UNCHANGED truckvars \/ OrderingOnly
  BY <1>1, <1>3, OrderingFrame
<1>4. QED
  BY <1>1, <1>2, <1>3, Split
  DEF WorkflowOnly, CallInventory, Post, Interrupt, Next, Finalize

-----------------------------------------------------------------------------
(* Every variable keeps its type.                                          *)

\* The part of the type invariant that is about ordering's own variables.
TruckTypes ==
    /\ restock \in [Orders -> {"absent", "PROCESSING", "COMPLETED"}]
    /\ at \in [Orders -> Steps \cup Answers]
    /\ publishing \in [Orders -> Nat]
    /\ up \in BOOLEAN

\* The initial state is well typed.
LEMMA TruckTypeInit == TruckInit => TruckTypeOK
BY TypeInit DEF TruckInit, AnalyticsInit, TruckTypeOK, AnalyticsTypeOK, Steps, Answers

\* What a published metric does to the socket.
LEMMA ReceiveTypes ==
    ASSUME AnalyticsTypeOK, NEW m \in Metrics, Receive(m)
    PROVE  AnalyticsTypeOK'
BY DEF Receive, AnalyticsTypeOK

\* The steps of the log keep its types.
LEMMA AnalyticsTypes ==
    ASSUME AnalyticsTypeOK, AnalyticsNext
    PROVE  AnalyticsTypeOK'
<1>1. CASE StartAnalytics \/ AnalyticsCrash
  <2>1. << >> \in Seq(Metrics)
    OBVIOUS
  <2>2. CASE StartAnalytics
    BY <2>2 DEF StartAnalytics, AnalyticsTypeOK
  <2>3. CASE AnalyticsCrash
    BY <2>1, <2>3 DEF AnalyticsCrash, AnalyticsTypeOK
  <2>4. QED
    BY <1>1, <2>2, <2>3
<1>2. CASE Record \/ RecordNothing
  <2>1. Tail(feed) \in Seq(Metrics) /\ Head(feed) \in Metrics
    BY <1>2 DEF Record, RecordNothing, AnalyticsTypeOK
  <2>2. Append(csv, Header) \in Seq(Metrics \cup {Header})
    BY DEF AnalyticsTypeOK
  <2>3. \A q \in Seq(Metrics \cup {Header}) : q \o <<Head(feed)>> \in Seq(Metrics \cup {Header})
    BY <2>1
  <2>4. QED
    BY <1>2, <2>1, <2>2, <2>3 DEF Record, RecordNothing, AnalyticsTypeOK
<1>3. QED
  BY <1>1, <1>2 DEF AnalyticsNext

\* Every step keeps the types of the log.
LEMMA LogTypes ==
    ASSUME AnalyticsTypeOK, [TruckNext]_truckvars
    PROVE  AnalyticsTypeOK'
<1>1. CASE UNCHANGED logvars
  BY <1>1 DEF AnalyticsTypeOK
<1>2. ASSUME NEW o \in Orders, Publish(o)
      PROVE  AnalyticsTypeOK'
  BY <1>1, <1>2, ReceiveTypes, TrucksAssumption DEF Publish
<1>3. ASSUME NEW m \in Metrics \ Orders, PublishCustomer(m)
      PROVE  AnalyticsTypeOK'
  BY <1>3, ReceiveTypes DEF PublishCustomer
<1>4. CASE Logging(AnalyticsNext)
  BY <1>4, AnalyticsTypes DEF Logging
<1>5. CASE OrderingOnly
  BY <1>1, <1>2, <1>3, <1>4, <1>5
  DEF OrderingOnly, Submit, CreateRestockOrder, FailCall, Accept, OrderingCrash, Restart
<1>6. QED
  BY <1>1, <1>5, Split DEF WorkflowOnly, CallInventory, Post, MissPost, Interrupt

\* Every step keeps the types of ordering's variables.
LEMMA OrderingTypes ==
    ASSUME TruckTypes, [TruckNext]_truckvars
    PROVE  TruckTypes'
<1> USE DEF TruckTypes, Steps, Answers, Goto
<1>1. CASE UNCHANGED trucking
  BY <1>1
<1>2. ASSUME NEW o \in Orders, Submit(o) \/ FailCall(o) \/ Accept(o) \/ CallInventory(o)
      PROVE  TruckTypes'
  BY <1>2 DEF Submit, FailCall, Accept, CallInventory
<1>3. ASSUME NEW o \in Orders, CreateRestockOrder(o)
      PROVE  TruckTypes'
  BY <1>3 DEF CreateRestockOrder
<1>4. ASSUME NEW o \in Orders, Publish(o)
      PROVE  TruckTypes'
  BY <1>4 DEF Publish
<1>5. ASSUME NEW o \in Orders, NEW s \in Slots, Post(o, s) \/ MissPost(o, s)
      PROVE  TruckTypes'
  BY <1>5 DEF Post, ReceiveWebhook, MissPost
<1>6. CASE OrderingCrash \/ Restart \/ Interrupt
  <2>1. CASE OrderingCrash
    BY <2>1 DEF OrderingCrash
  <2>2. CASE Interrupt
    BY <2>2 DEF Interrupt
  <2>3. CASE Restart
    BY <2>3 DEF Restart
  <2>4. QED
    BY <1>6, <2>1, <2>2, <2>3
<1>7. CASE OrderingOnly
  BY <1>1, <1>2, <1>3, <1>4, <1>6, <1>7 DEF OrderingOnly, PublishCustomer, Logging
<1>8. QED
  BY <1>1, <1>2, <1>5, <1>6, <1>7, Split DEF WorkflowOnly

\* Type correctness of the composition, with the workflow's invariants, which the
\* other proofs need.
THEOREM TruckTypeCorrect == TruckSpec => [](TruckTypeOK /\ WorkflowInv)
<1>1. TruckInit => TruckTypeOK /\ WorkflowInv
  BY TruckTypeInit, TypeInit, FreshInit, OnceInit DEF TruckInit, WorkflowInv
<1>2. TruckTypeOK /\ WorkflowInv /\ [TruckNext]_truckvars => (TruckTypeOK /\ WorkflowInv)'
  BY WorkflowStep, LogTypes, OrderingTypes DEF TruckTypeOK, TruckTypes, WorkflowInv
<1>3. QED
  BY <1>1, <1>2, PTL DEF TruckSpec

\* The guard of ReportJobStatus works inside of the composition too: no step of
\* finalizing a restock takes effect twice.
THEOREM RestockFinalizedOnce == TruckSpec => []FinalizedAtMostOnce
<1>1. WorkflowInv => FinalizedAtMostOnce
  BY DEF WorkflowInv, OnceInv, Finalizing, FinalizedAtMostOnce
<1>2. QED
  BY <1>1, TruckTypeCorrect, PTL

-----------------------------------------------------------------------------
(* No robot works on a restock that ordering refused or does not know.     *)

\* Only the hand-over counts as one.
LEMMA Dispatches ==
    ASSUME TypeOK, [TruckNext]_truckvars, ~ \E o \in Orders : CallInventory(o)
    PROVE  dispatches' = dispatches
<1>1. CASE OrderingOnly
  BY <1>1, OrderingFrame
<1>2. CASE WorkflowOnly
  BY <1>2 DEF WorkflowOnly, LoadItems, UpsertLine, PushMetrics, DeleteOrderData, Broadcast,
     ExpireItems, ExpireMarker, Work, Pick, CountReport, ClaimOrder, LoseReport, FailClaim,
     RobotCrash, RedisRestart
<1>3. QED
  BY <1>1, <1>2, Split DEF Post, PostWebhook, MissPost, Interrupt, InventoryCrash

\* Nothing was handed over yet.
LEMMA RecordedInit == TruckInit => RecordedInv
BY DEF TruckInit, Init, RecordedInv, RecordedOrder

\* No handler of o moved, and its row did not go.
LEMMA RecordedFrame ==
    ASSUME NEW o \in Orders, RecordedOrder(o),
           at'[o] = at[o], dispatches'[o] = dispatches[o],
           restock[o] # "absent" => restock'[o] # "absent"
    PROVE  RecordedOrder(o)'
BY DEF RecordedOrder

\* The steps of one handler.
LEMMA RecordedHandler ==
    ASSUME TruckTypeOK, RecordedInv, NEW o \in Orders, Submit(o) \/ Restocking(o)
    PROVE  RecordedInv'
<1> SUFFICES ASSUME NEW p \in Orders
             PROVE  RecordedOrder(p)'
  BY DEF RecordedInv
<1>1. RecordedOrder(p)
  BY DEF RecordedInv
<1>2. TypeOK /\ TruckTypes
  BY DEF TruckTypeOK, TruckTypes
<1>3. CASE p # o
  <2>1. at'[p] = at[p] /\ restock'[p] = restock[p]
    BY <1>2, <1>3
    DEF Submit, Restocking, CreateRestockOrder, CallInventory, FailCall, Accept, Goto, TruckTypes
  <2>2. dispatches'[p] = dispatches[p]
    BY <1>2, <1>3
    DEF Submit, Restocking, CreateRestockOrder, CallInventory, SaveItems, FailCall, Accept, TypeOK
  <2>3. QED
    BY <1>1, <2>1, <2>2, RecordedFrame
<1>4. CASE p = o
  <2>1. CASE Submit(o)
    BY <1>1, <1>2, <1>4, <2>1 DEF Submit, Goto, TruckTypes, RecordedOrder
  <2>2. CASE CreateRestockOrder(o)
    BY <1>1, <1>2, <1>4, <2>2 DEF CreateRestockOrder, Goto, TruckTypes, RecordedOrder
  <2>3. CASE CallInventory(o)
    <3>1. dispatches[o] = 0 /\ dispatches'[o] = 1
      BY <1>1, <1>2, <1>4, <2>3 DEF CallInventory, SaveItems, RecordedOrder, TypeOK
    <3>2. at'[o] = "waiting" /\ restock' = restock /\ at[o] = "call"
      BY <1>2, <2>3 DEF CallInventory, Goto, TruckTypes
    <3>3. QED
      BY <1>1, <1>4, <3>1, <3>2 DEF RecordedOrder
  <2>4. CASE FailCall(o)
    BY <1>1, <1>2, <1>4, <2>4 DEF FailCall, Goto, TruckTypes, RecordedOrder
  <2>5. CASE Accept(o)
    BY <1>1, <1>2, <1>4, <2>5 DEF Accept, Goto, TruckTypes, RecordedOrder
  <2>6. QED
    BY <2>1, <2>2, <2>3, <2>4, <2>5 DEF Restocking
<1>5. QED
  BY <1>3, <1>4

\* Every step keeps RecordedInv.
LEMMA RecordedStep == TruckTypeOK /\ RecordedInv /\ [TruckNext]_truckvars => RecordedInv'
<1> SUFFICES ASSUME TruckTypeOK, RecordedInv, [TruckNext]_truckvars
             PROVE  RecordedInv'
  OBVIOUS
<1>1. TypeOK /\ TruckTypes
  BY DEF TruckTypeOK, TruckTypes
<1>2. CASE \E o \in Orders : Submit(o) \/ Restocking(o)
  BY <1>2, RecordedHandler
<1>3. CASE OrderingCrash \/ Interrupt
  <2> SUFFICES ASSUME NEW p \in Orders
               PROVE  RecordedOrder(p)'
    BY DEF RecordedInv
  <2>1. RecordedOrder(p)
    BY DEF RecordedInv
  <2>2. dispatches' = dispatches /\ restock' = restock
    BY <1>3 DEF OrderingCrash, Interrupt, InventoryCrash
  <2>3. \/ at'[p] = at[p]
        \/ at'[p] = "broken" /\ at[p] \in {"create", "call", "waiting"}
        \/ at'[p] = "unassigned" /\ at[p] = "waiting" /\ "crash" \in Faults
    BY <1>1, <1>3 DEF OrderingCrash, Interrupt, InventoryCrash, TruckTypes, Steps
  <2>4. QED
    BY <2>1, <2>2, <2>3 DEF RecordedOrder
<1>4. CASE /\ ~ (\E o \in Orders : Submit(o) \/ Restocking(o))
           /\ ~ (OrderingCrash \/ Interrupt)
  <2>1. dispatches' = dispatches
    BY <1>1, <1>4, Dispatches DEF Restocking
  <2>2. at' = at
    BY <1>4, Split DEF OrderingOnly, WorkflowOnly, Restocking, Publish, PublishCustomer,
       Restart, Logging, Post, MissPost
  <2>3. \A p \in Orders : restock[p] # "absent" => restock'[p] # "absent"
    BY <1>1, <1>4, Split DEF OrderingOnly, WorkflowOnly, Restocking, Publish, PublishCustomer,
       Restart, Logging, Post, ReceiveWebhook, MissPost, TruckTypes
  <2>4. QED
    BY <2>1, <2>2, <2>3, RecordedFrame DEF RecordedInv
<1>5. QED
  BY <1>2, <1>3, <1>4

\* No robot works on a restock whose row is missing or whose driver was refused,
\* for any manifests and failures: persist first, dispatch afterwards.
THEOREM WorkRecorded == TruckSpec => []WorkIsRecorded
<1>1. RecordedInv => WorkIsRecorded
  BY DEF RecordedInv, RecordedOrder, WorkIsRecorded
<1>2. TruckSpec => []RecordedInv
  BY RecordedInit, RecordedStep, TruckTypeCorrect, PTL DEF TruckSpec
<1>3. QED
  BY <1>1, <1>2, PTL

-----------------------------------------------------------------------------
(* A completed restock is in stock, line by line.                          *)

\* No finalizer of o moved forward past the first line.
LEMMA StoredFrame ==
    ASSUME TypeOK, NEW o \in Orders, StoredOrder(o), effects'[o] = effects[o],
           restock'[o] = "COMPLETED" => restock[o] = "COMPLETED",
           \A s \in Slots : stage'[o][s] \in {stage[o][s], Idle, LoadStage}
    PROVE  StoredOrder(o)'
BY DEF StoredOrder, Idle, LoadStage

\* A finalizer of o moved forward, and either its step took effect or it was behind
\* the lines.
LEMMA StoredAdvance ==
    ASSUME TypeOK, StoredInv, "service" \notin Faults,
           NEW o \in Orders, NEW s \in Slots, NEW k \in Stages, stage[o][s] = k,
           stage' = [stage EXCEPT ![o][s] = k + 1],
           \/ effects' = [effects EXCEPT ![o][k] = @ + 1]
           \/ effects' = effects /\ k > Lines,
           \A p \in Orders : restock'[p] = "COMPLETED" =>
              \/ restock[p] = "COMPLETED"
              \/ p = o /\ k = PostStage(o) /\ effects' # effects
    PROVE  StoredInv'
<1> SUFFICES ASSUME NEW p \in Orders
             PROVE  StoredOrder(p)'
  BY DEF StoredInv
<1>1. StoredOrder(p)
  BY DEF StoredInv
<1>2. CASE p # o
  <2>1. stage'[p] = stage[p] /\ effects'[p] = effects[p]
    BY <1>2 DEF TypeOK
  <2>2. restock'[p] = "COMPLETED" => restock[p] = "COMPLETED"
    BY <1>2
  <2>3. QED
    BY <1>1, <2>1, <2>2, StoredFrame
<1>3. CASE p = o
  <2>1. stage'[o][s] = k + 1 /\ \A t \in Slots : t # s => stage'[o][t] = stage[o][t]
    BY DEF TypeOK
  <2>2. \A j \in Stages : effects[o][j] \in Nat /\ effects'[o][j] \in Nat
    <3>1. effects \in [Orders -> [Stages -> Nat]]
      BY DEF TypeOK
    <3>2. effects' \in [Orders -> [Stages -> Nat]]
      BY <3>1, EffectUpdate
    <3>3. QED
      BY <3>1, <3>2
  <2>3. \A j \in Stages : effects'[o][j] >= effects[o][j]
    <3>1. CASE effects' = effects
      BY <2>2, <3>1
    <3>2. CASE effects' = [effects EXCEPT ![o][k] = @ + 1]
      BY <2>2, <3>2 DEF TypeOK
    <3>3. QED
      BY <3>1, <3>2
  <2>4. \/ k > Lines /\ effects' = effects
        \/ effects'[o][k] > 0
    BY <2>2 DEF TypeOK
  <2>5. k \in Int /\ Lines \in Int /\ PostStage(o) \in Stages /\ 1 .. Lines \subseteq Stages
    BY StageRange, LinesAssumption DEF Stages
  <2>6. ASSUME NEW t \in Slots, NEW i \in 1 .. Lines, stage'[o][t] > i
        PROVE  effects'[o][i] > 0
    <3>1. i \in Stages /\ i \in Int
      BY <2>5
    <3>2. CASE stage[o][t] > i
      <4>1. effects[o][i] > 0
        BY <1>1, <1>3, <3>2 DEF StoredOrder
      <4>2. QED
        BY <2>2, <2>3, <3>1, <4>1
    <3>3. CASE ~ (stage[o][t] > i)
      <4>1. t = s /\ k = i
        BY <2>1, <2>5, <2>6, <3>1, <3>3
      <4>2. QED
        BY <2>4, <2>5, <3>1, <4>1
    <3>4. QED
      BY <3>2, <3>3
  <2>7. effects'[o][PostStage(o)] > 0 => \A i \in 1 .. Lines : effects'[o][i] > 0
    <3>1. CASE effects[o][PostStage(o)] > 0
      <4>1. \A i \in 1 .. Lines : effects[o][i] > 0
        BY <1>1, <1>3, <3>1 DEF StoredOrder
      <4>2. QED
        BY <2>2, <2>3, <2>5, <4>1
    <3>2. CASE k = PostStage(o)
      <4>1. \A i \in 1 .. Lines : stage'[o][s] > i
        BY <2>1, <3>2, LinesAssumption, TrucksAssumption DEF PostStage
      <4>2. QED
        BY <2>6, <4>1
    <3>3. CASE k # PostStage(o) /\ ~ (effects[o][PostStage(o)] > 0)
      <4>1. effects'[o][PostStage(o)] = effects[o][PostStage(o)]
        BY <2>5, <3>3 DEF TypeOK
      <4>2. QED
        BY <3>3, <4>1
    <3>4. QED
      BY <3>1, <3>2, <3>3
  <2>8. restock'[o] = "COMPLETED" => effects'[o][PostStage(o)] > 0
    <3>1. CASE restock[o] = "COMPLETED"
      <4>1. effects[o][PostStage(o)] > 0
        BY <1>1, <1>3, <3>1 DEF StoredOrder
      <4>2. QED
        BY <2>2, <2>3, <2>5, <4>1
    <3>2. CASE k = PostStage(o) /\ effects' # effects
      BY <2>4, <3>2
    <3>3. QED
      BY <3>1, <3>2
  <2>9. QED
    BY <1>3, <2>6, <2>7, <2>8 DEF StoredOrder
<1>4. QED
  BY <1>2, <1>3

\* Without failing services a finalizer skips nothing but an empty push.
LEMMA StoredFinalizer ==
    ASSUME TypeOK, TruckTypes, StoredInv, "service" \notin Faults,
           NEW o \in Orders, NEW s \in Slots, Settle(o, s)
    PROVE  StoredInv'
<1>1. CASE LoadItems(o, s) /\ restock' = restock
  <2>1. CASE Done(o, s, LoadStage) /\ stage[o][s] = LoadStage
    BY <1>1, <2>1, StoredAdvance, StageRange DEF Done
  <2>2. CASE effects' = effects /\ stage' = [stage EXCEPT ![o][s] = Idle]
    <3>1. \A p \in Orders, t \in Slots : stage'[p][t] \in {stage[p][t], Idle}
      BY <2>2 DEF TypeOK
    <3>2. QED
      BY <1>1, <2>2, <3>1, StoredFrame DEF StoredInv
  <2>3. QED
    BY <1>1, <2>1, <2>2 DEF LoadItems
<1>2. CASE UpsertLine(o, s) /\ restock' = restock
  <2>1. stage[o][s] \in Stages /\ Done(o, s, stage[o][s])
    BY <1>2, StageRange DEF UpsertLine, Skipped
  <2>2. QED
    BY <1>2, <2>1, StoredAdvance DEF Done
<1>3. CASE PushMetrics(o, s) /\ restock' = restock
  <2>1. stage[o][s] = PushStage /\ PushStage \in Stages /\ PushStage > Lines
    BY <1>3, StageRange, LinesAssumption DEF PushMetrics, PushStage
  <2>2. /\ stage' = [stage EXCEPT ![o][s] = PushStage + 1]
        /\ effects' = effects \/ effects' = [effects EXCEPT ![o][PushStage] = @ + 1]
    BY <1>3 DEF PushMetrics, Done, Skipped
  <2>3. QED
    BY <1>3, <2>1, <2>2, StoredAdvance
<1>4. CASE DeleteOrderData(o, s) /\ restock' = restock
  <2>1. effects' = effects /\ \A p \in Orders, t \in Slots : stage'[p][t] \in {stage[p][t], Idle}
    BY <1>4 DEF DeleteOrderData, TypeOK
  <2>2. QED
    BY <1>4, <2>1, StoredFrame DEF StoredInv
<1>5. PostStage(o) \in Stages /\ PostStage(o) > Lines
  BY StageRange, LinesAssumption, TrucksAssumption DEF PostStage
<1>6. CASE Post(o, s)
  <2>1. stage[o][s] = PostStage(o) /\ Done(o, s, PostStage(o))
    BY <1>6 DEF Post, PostWebhook, Skipped
  <2>2. effects' # effects
    <3>1. effects[o][PostStage(o)] \in Nat
      BY <1>5 DEF TypeOK
    <3>2. effects'[o][PostStage(o)] = effects[o][PostStage(o)] + 1
      BY <1>5, <2>1 DEF Done, TypeOK
    <3>3. QED
      BY <3>1, <3>2
  <2>3. \A p \in Orders : p # o => (restock'[p] = "COMPLETED" => restock[p] = "COMPLETED")
    BY <1>6, <2>2 DEF Post, ReceiveWebhook, TruckTypes
  <2>4. QED
    BY <1>5, <2>1, <2>2, <2>3, StoredAdvance DEF Done
<1>7. CASE MissPost(o, s)
  <2>1. stage[o][s] = PostStage(o) /\ stage' = [stage EXCEPT ![o][s] = PostStage(o) + 1]
    BY <1>7 DEF MissPost, TypeOK
  <2>2. effects' = effects /\ restock' = restock
    BY <1>7 DEF MissPost
  <2>3. QED
    BY <1>5, <2>1, <2>2, StoredAdvance
<1>8. QED
  BY <1>1, <1>2, <1>3, <1>4, <1>6, <1>7 DEF Settle, Alone

\* Every step keeps StoredInv.
LEMMA StoredStep ==
    TruckTypeOK /\ StoredInv /\ [TruckNext]_truckvars => StoredInv'
<1> SUFFICES ASSUME TruckTypeOK, StoredInv, "service" \notin Faults, [TruckNext]_truckvars
             PROVE  StoredInv'
  BY DEF StoredInv
<1>1. TypeOK /\ TruckTypes
  BY DEF TruckTypeOK, TruckTypes
<1>2. CASE \E o \in Orders, s \in Slots : Settle(o, s)
  BY <1>1, <1>2, StoredFinalizer
<1>3. CASE ~ \E o \in Orders, s \in Slots : Settle(o, s)
  <2>1. effects' = effects
    BY <1>1, <1>3 DEF TruckNext, Settle, Alone, Logging, Submit, Restocking, CreateRestockOrder,
       CallInventory, SaveItems, FailCall, Accept, Publish, PublishCustomer, Broadcast,
       ExpireItems, ExpireMarker, Work, Pick, CountReport, ClaimOrder, LoseReport, FailClaim,
       RobotCrash, RedisRestart, Interrupt, InventoryCrash, OrderingCrash, Restart
  <2>2. \A p \in Orders : restock'[p] = "COMPLETED" => restock[p] = "COMPLETED"
    BY <1>1, <1>3 DEF TruckNext, Settle, Alone, Logging, Submit, Restocking, CreateRestockOrder,
       CallInventory, FailCall, Accept, Publish, PublishCustomer, Interrupt, OrderingCrash,
       Restart, TruckTypes
  <2>3. \A p \in Orders, t \in Slots : stage'[p][t] \in {stage[p][t], Idle, LoadStage}
    <3>1. ASSUME NEW r \in Robots, Work(r)
          PROVE  \A p \in Orders, t \in Slots : stage'[p][t] \in {stage[p][t], Idle, LoadStage}
      <4>1. CASE stage' = stage
        BY <4>1
      <4>2. CASE stage' # stage
        <5>1. ClaimOrder(r) /\ job[r] \in Orders
          BY <1>1, <3>1, <4>2 DEF Work, Pick, CountReport, ClaimOrder, TypeOK
        <5>2. PICK s \in Slots : stage' = [stage EXCEPT ![job[r]][s] = LoadStage]
          BY <4>2, <5>1 DEF ClaimOrder
        <5>3. stage \in [Orders -> [Slots -> Idle .. (Lines + 3)]]
          BY <1>1 DEF TypeOK
        <5>4. QED
          BY <5>1, <5>2, <5>3
      <4>3. QED
        BY <4>1, <4>2
    <3>2. CASE Interrupt
      BY <3>2 DEF Interrupt, InventoryCrash
    <3>3. CASE ~ (\E r \in Robots : Work(r)) /\ ~ Interrupt
      BY <1>3, <3>3 DEF TruckNext, Settle, Alone, Logging, Submit, Restocking, CreateRestockOrder,
         CallInventory, SaveItems, FailCall, Accept, Publish, PublishCustomer, Broadcast,
         ExpireItems, ExpireMarker, LoseReport, FailClaim, RobotCrash, RedisRestart,
         OrderingCrash, Restart
    <3>4. QED
      BY <3>1, <3>2, <3>3
  <2>4. QED
    BY <1>1, <2>1, <2>2, <2>3, StoredFrame DEF StoredInv
<1>4. QED
  BY <1>2, <1>3

\* A restock that the terminal shows as COMPLETED is in stock line by line, each line
\* once, for any manifest, robots and threshold and whatever dies or expires, as
\* long as the stock statements succeed.
THEOREM RestockStocked == TruckSpec => []CompletedIsStocked
<1>1. TruckInit => StoredInv
  <2>1. ASSUME TruckInit
        PROVE  \A o \in Orders : StoredOrder(o)
    BY <2>1, StageRange DEF TruckInit, Init, StoredOrder, Idle
  <2>2. QED
    BY <2>1 DEF StoredInv
<1>2. TruckTypeOK /\ WorkflowInv /\ RecordedInv /\ StoredInv => CompletedIsStocked
  <2> SUFFICES ASSUME TruckTypeOK, WorkflowInv, RecordedInv, StoredInv, "service" \notin Faults,
                      NEW o \in Orders, restock[o] = "COMPLETED", NEW i \in 1 .. Lines
               PROVE  effects[o][i] = 1
    BY DEF CompletedIsStocked
  <2>1. i \in Stages /\ effects[o][i] \in Nat
    BY StageRange DEF TruckTypeOK, TypeOK
  <2>2. effects[o][i] > 0
    BY DEF StoredInv, StoredOrder
  <2>3. effects[o][i] <= 1
    BY <2>1 DEF WorkflowInv, OnceInv, Finalizing, Single, RecordedInv, RecordedOrder
  <2>4. QED
    BY <2>1, <2>2, <2>3
<1>3. TruckSpec => []StoredInv
  BY <1>1, StoredStep, TruckTypeCorrect, PTL DEF TruckSpec
<1>4. TruckSpec => []RecordedInv
  BY RecordedInit, RecordedStep, TruckTypeCorrect, PTL DEF TruckSpec
<1>5. QED
  BY <1>2, <1>3, <1>4, TruckTypeCorrect, PTL

-----------------------------------------------------------------------------
(* The log has a restock once, and only when it is completed.              *)

\* A sequence n that is q with m appended, by position.
LEMMA Appended ==
    ASSUME NEW S, NEW q \in Seq(S), NEW m \in S, NEW n, n = Append(q, m)
    PROVE  \A i \in DOMAIN n : \/ i = Len(q) + 1 /\ n[i] = m
                               \/ i \in DOMAIN q /\ n[i] = q[i]
<1>1. \A i \in DOMAIN Append(q, m) : \/ i = Len(q) + 1 /\ Append(q, m)[i] = m
                                     \/ i \in DOMAIN q /\ Append(q, m)[i] = q[i]
  BY AppendPositions
<1>2. QED
  BY <1>1, Zenon

\* The same when it was written with a concatenation.
LEMMA Lined ==
    ASSUME NEW S, NEW q \in Seq(S), NEW m \in S, NEW n, n = q \o <<m>>
    PROVE  \A i \in DOMAIN n : \/ i \in DOMAIN q /\ n[i] = q[i]
                               \/ i = Len(n) /\ n[i] = m
<1>1. \A i \in DOMAIN (q \o <<m>>) : \/ i \in DOMAIN q /\ (q \o <<m>>)[i] = q[i]
                                     \/ i = Len(q \o <<m>>) /\ (q \o <<m>>)[i] = m
  OBVIOUS
<1>2. QED
  BY <1>1, Zenon

\* No step takes an effect back.
LEMMA EffectsGrow ==
    ASSUME TypeOK, [TruckNext]_truckvars, NEW o \in Orders, NEW k \in Stages
    PROVE  effects'[o][k] >= effects[o][k]
<1>1. effects[o][k] \in Nat
  BY DEF TypeOK
<1>2. CASE effects' = effects
  BY <1>1, <1>2
<1>3. CASE effects' # effects
  <2>1. PICK p \in Orders, s \in Slots : Settle(p, s)
    BY <1>3 DEF TruckNext, Alone, Logging, Submit, Restocking, CreateRestockOrder,
       CallInventory, SaveItems, FailCall, Accept, Publish, PublishCustomer, Broadcast,
       ExpireItems, ExpireMarker, Work, Pick, CountReport, ClaimOrder, LoseReport, FailClaim,
       RobotCrash, RedisRestart, Interrupt, InventoryCrash, OrderingCrash, Restart
  <2>2. \E j \in Stages : effects' = [effects EXCEPT ![p][j] = @ + 1]
    BY <1>3, <2>1, StageRange
    DEF Settle, Alone, LoadItems, UpsertLine, PushMetrics, DeleteOrderData, Post, PostWebhook,
        MissPost, Done, Skipped
  <2>3. QED
    BY <1>1, <2>2 DEF TypeOK
<1>4. QED
  BY <1>2, <1>3

\* Nothing was added to the goroutines, the queue or the log.
LEMMA LoggedFrame ==
    ASSUME TruckTypeOK, [TruckNext]_truckvars, NEW o \in Orders, LoggedOrder(o),
           publishing'[o] \in {publishing[o], 0}, csv' = csv, feed' = feed \/ feed' = << >>,
           restock[o] = "COMPLETED" => restock'[o] = "COMPLETED"
    PROVE  LoggedOrder(o)'
<1>1. TypeOK /\ TruckTypes
  BY DEF TruckTypeOK, TruckTypes
<1>2. /\ PostStage(o) \in Stages
      /\ effects[o][PostStage(o)] \in Nat
      /\ effects'[o][PostStage(o)] >= effects[o][PostStage(o)]
  BY <1>1, EffectsGrow, StageRange DEF TypeOK
<1>3. publishing[o] \in Nat
  BY <1>1 DEF TruckTypes
<1>4. (InLog(o)' => InLog(o)) /\ (InFeed(o)' => InFeed(o))
  BY DEF InLog, InFeed
<1>5. effects'[o][PostStage(o)] \in Nat
  BY <1>1, <1>2, WorkflowTypeStep DEF TypeOK
<1>6. QED
  BY <1>2, <1>3, <1>4, <1>5 DEF LoggedOrder

\* A webhook of o: its finalizer is the only one that posts, and posts for the first
\* time.
LEMMA LoggedPost ==
    ASSUME TruckTypeOK, WorkflowInv, RecordedInv, LoggedInv, [TruckNext]_truckvars,
           NEW o \in Orders, NEW s \in Slots, Post(o, s)
    PROVE  LoggedInv'
<1> SUFFICES ASSUME NEW p \in Orders
             PROVE  LoggedOrder(p)'
  BY DEF LoggedInv
<1>1. TypeOK /\ TruckTypes /\ LoggedOrder(p)
  BY DEF TruckTypeOK, TruckTypes, LoggedInv
<1>2. UNCHANGED logvars
  BY DEF Post
<1>3. restock[p] = "COMPLETED" => restock'[p] = "COMPLETED"
  BY <1>1 DEF Post, ReceiveWebhook, TruckTypes
<1>4. CASE publishing'[p] = publishing[p]
  BY <1>1, <1>2, <1>3, <1>4, LoggedFrame
<1>5. CASE publishing'[p] # publishing[p]
  <2>1. /\ p = o /\ publishing'[p] = publishing[p] + 1 /\ restock'[p] = "COMPLETED"
        /\ effects' # effects
    BY <1>1, <1>5 DEF Post, ReceiveWebhook, TruckTypes
  <2>2. PostStage(o) \in Stages /\ PostStage(o) > LoadStage /\ stage[o][s] = PostStage(o)
    BY StageRange, LinesAssumption DEF Post, PostWebhook, PostStage, LoadStage
  <2>3. Finalizing(o)
    BY DEF WorkflowInv, OnceInv, Single, RecordedInv, RecordedOrder
  <2>4. effects[o][PostStage(o)] = 0
    BY <2>2, <2>3, LinesAssumption DEF Finalizing, Stages
  <2>5. publishing[p] = 0 /\ ~InFeed(p) /\ ~InLog(p)
    BY <1>1, <2>1, <2>4 DEF LoggedOrder, TruckTypes
  <2>6. effects'[p][PostStage(p)] > 0
    <3>1. effects' = [effects EXCEPT ![o][PostStage(o)] = @ + 1]
      BY <2>1 DEF Post, PostWebhook, Done, Skipped
    <3>2. QED
      BY <1>1, <2>1, <2>2, <2>4, <3>1 DEF TypeOK
  <2>7. QED
    BY <1>1, <1>2, <2>1, <2>5, <2>6 DEF LoggedOrder, InFeed, InLog
<1>6. QED
  BY <1>4, <1>5

\* A goroutine that publishes hands its metric on.
LEMMA LoggedPublish ==
    ASSUME TruckTypeOK, LoggedInv, [TruckNext]_truckvars, NEW o \in Orders, Publish(o)
    PROVE  LoggedInv'
<1> SUFFICES ASSUME NEW p \in Orders
             PROVE  LoggedOrder(p)'
  BY DEF LoggedInv
<1>1. TypeOK /\ TruckTypes /\ AnalyticsTypeOK /\ LoggedOrder(p) /\ LoggedOrder(o)
  BY DEF TruckTypeOK, TruckTypes, LoggedInv
<1>2. UNCHANGED <<effects, restock, csv>> /\ publishing[o] = 1 /\ publishing'[o] = 0
  BY <1>1 DEF Publish, Receive, LoggedOrder, TruckTypes
<1>3. feed' = feed \/ feed' = Append(feed, o)
  BY DEF Publish, Receive
<1>4. p # o => publishing'[p] = publishing[p]
  BY <1>1 DEF Publish, TruckTypes
<1>5. CASE feed' = feed
  BY <1>1, <1>2, <1>4, <1>5, LoggedFrame
<1>6. CASE feed' = Append(feed, o)
  <2>1. feed \in Seq(Metrics) /\ o \in Metrics
    BY <1>1, TrucksAssumption DEF AnalyticsTypeOK
  <2>2. \A i \in DOMAIN feed' : \/ i = Len(feed) + 1 /\ feed'[i] = o
                                \/ i \in DOMAIN feed /\ feed'[i] = feed[i]
    BY <1>6, <2>1, Appended
  <2>3. CASE p # o
    <3>1. InFeed(p)' => InFeed(p)
      BY <2>2, <2>3 DEF InFeed
    <3>2. \A i, j \in DOMAIN feed' : feed'[i] = p /\ feed'[j] = p => i = j
      BY <1>1, <2>2, <2>3 DEF LoggedOrder
    <3>3. InLog(p)' = InLog(p)
      BY <1>2 DEF InLog
    <3>4. QED
      BY <1>1, <1>2, <1>4, <2>3, <3>1, <3>2, <3>3 DEF LoggedOrder
  <2>4. CASE p = o
    <3>1. ~InFeed(o) /\ ~InLog(o) /\ effects[o][PostStage(o)] > 0 /\ restock[o] = "COMPLETED"
      BY <1>1, <1>2 DEF LoggedOrder
    <3>2. \A i, j \in DOMAIN feed' : feed'[i] = o /\ feed'[j] = o => i = j
      BY <2>2, <3>1 DEF InFeed
    <3>3. QED
      BY <1>1, <1>2, <2>4, <3>1, <3>2 DEF LoggedOrder, InLog
  <2>5. QED
    BY <2>3, <2>4
<1>7. QED
  BY <1>3, <1>5, <1>6

\* The metric of a customer order says nothing of a restock.
LEMMA LoggedCustomer ==
    ASSUME TruckTypeOK, LoggedInv, NEW m \in Metrics \ Orders, PublishCustomer(m)
    PROVE  LoggedInv'
<1> SUFFICES ASSUME NEW p \in Orders
             PROVE  LoggedOrder(p)'
  BY DEF LoggedInv
<1>1. UNCHANGED <<effects, restock, csv, publishing>> /\ (feed' = feed \/ feed' = Append(feed, m))
  BY DEF PublishCustomer, Receive
<1>2. feed \in Seq(Metrics)
  BY DEF TruckTypeOK, AnalyticsTypeOK
<1>3. \A i \in DOMAIN feed' : \/ feed'[i] = m
                              \/ i \in DOMAIN feed /\ feed'[i] = feed[i]
  BY <1>1, <1>2, Appended
<1>4. InFeed(p)' => InFeed(p)
  BY <1>3 DEF InFeed
<1>5. InLog(p)' = InLog(p)
  BY <1>1 DEF InLog
<1>6. \A i, j \in DOMAIN feed' : feed'[i] = p /\ feed'[j] = p => i = j
  BY <1>3 DEF LoggedInv, LoggedOrder
<1>7. QED
  BY <1>1, <1>4, <1>5, <1>6 DEF LoggedInv, LoggedOrder

\* What a line adds to the log, by position.
LEMMA RecordPositions ==
    ASSUME AnalyticsTypeOK, Record, csv' # csv
    PROVE  \A i \in DOMAIN csv' : \/ i \in DOMAIN csv /\ csv'[i] = csv[i]
                                  \/ csv'[i] = Header
                                  \/ i = Len(csv') /\ csv'[i] = Head(feed)
<1>1. Head(feed) \in Metrics \cup {Header} /\ csv \in Seq(Metrics \cup {Header})
  BY DEF Record, AnalyticsTypeOK
<1>2. \/ csv' = Append(csv, Header) \o <<Head(feed)>>
      \/ csv' = csv \o <<Head(feed)>>
  BY DEF Record
<1>3. CASE csv' = csv \o <<Head(feed)>>
  BY <1>1, <1>3, Lined
<1>4. CASE csv' = Append(csv, Header) \o <<Head(feed)>>
  <2> DEFINE headed == Append(csv, Header)
  <2>1. headed \in Seq(Metrics \cup {Header}) /\ csv' = headed \o <<Head(feed)>>
    BY <1>1, <1>4
  <2>2. \A i \in DOMAIN headed : \/ i = Len(csv) + 1 /\ headed[i] = Header
                                 \/ i \in DOMAIN csv /\ headed[i] = csv[i]
    BY <1>1, Appended
  <2>3. \A i \in DOMAIN csv' : \/ i \in DOMAIN headed /\ csv'[i] = headed[i]
                               \/ i = Len(csv') /\ csv'[i] = Head(feed)
    <3> HIDE DEF headed
    <3>1. QED
      BY <1>1, <2>1, Lined
  <2>4. QED
    BY <2>2, <2>3
<1>5. QED
  BY <1>2, <1>3, <1>4

\* A metric that is taken leaves the queue, and is logged or lost.
LEMMA LoggedRecord ==
    ASSUME TruckTypeOK, LoggedInv, Logging(Record \/ RecordNothing)
    PROVE  LoggedInv'
<1> SUFFICES ASSUME NEW p \in Orders
             PROVE  LoggedOrder(p)'
  BY DEF LoggedInv
<1>1. AnalyticsTypeOK /\ LoggedOrder(p)
  BY DEF TruckTypeOK, LoggedInv
<1>2. UNCHANGED <<effects, restock, publishing>> /\ feed # << >> /\ feed' = Tail(feed)
  BY DEF Logging, Record, RecordNothing
<1>3. /\ 1 \in DOMAIN feed /\ Head(feed) = feed[1]
      /\ \A i \in DOMAIN feed' :
            i \in Nat /\ i # 0 /\ i + 1 \in DOMAIN feed /\ feed'[i] = feed[i + 1]
  BY <1>1, <1>2, TailPositions DEF AnalyticsTypeOK
<1>4. \A i \in DOMAIN csv' : csv'[i] = p =>
         \/ i \in DOMAIN csv /\ csv[i] = p
         \/ i = Len(csv') /\ p = Head(feed)
  <2>1. p # Header
    BY MetricsAssumption, TrucksAssumption
  <2>2. CASE csv' # csv
    BY <1>1, <2>1, <2>2, RecordPositions DEF Logging, RecordNothing
  <2>3. CASE csv' = csv
    BY <2>3
  <2>4. QED
    BY <2>2, <2>3
<1>5. InFeed(p)' => InFeed(p) /\ p # Head(feed)
  <2>1. ASSUME InFeed(p)'
        PROVE  InFeed(p) /\ p # Head(feed)
    <3>1. PICK i \in DOMAIN feed' : feed'[i] = p
      BY <2>1 DEF InFeed
    <3>2. i \in Nat /\ i # 0 /\ i + 1 \in DOMAIN feed /\ feed[i + 1] = p
      BY <1>3, <3>1
    <3>3. i + 1 # 1
      BY <3>2
    <3>4. QED
      BY <1>1, <1>3, <3>2, <3>3 DEF LoggedOrder, InFeed
  <2>2. QED
    BY <2>1
<1>6. InLog(p)' => InLog(p) \/ (InFeed(p) /\ p = Head(feed))
  BY <1>3, <1>4 DEF InLog, InFeed
<1>7. \A i, j \in DOMAIN feed' : feed'[i] = p /\ feed'[j] = p => i = j
  <2>1. ASSUME NEW i \in DOMAIN feed', NEW j \in DOMAIN feed', feed'[i] = p, feed'[j] = p
        PROVE  i + 1 = j + 1 /\ i \in Nat /\ j \in Nat
    BY <1>1, <1>3, <2>1 DEF LoggedOrder
  <2>2. QED
    BY <2>1
<1>8. \A i, j \in DOMAIN csv' : csv'[i] = p /\ csv'[j] = p => i = j
  <2>1. CASE InLog(p)
    <3>1. p # Head(feed)
      BY <1>1, <1>3, <2>1 DEF LoggedOrder, InFeed
    <3>2. QED
      BY <1>1, <1>4, <3>1 DEF LoggedOrder
  <2>2. CASE ~InLog(p)
    BY <1>4, <2>2 DEF InLog
  <2>3. QED
    BY <2>1, <2>2
<1>9. QED
  BY <1>1, <1>2, <1>5, <1>6, <1>7, <1>8 DEF LoggedOrder

\* Every step keeps LoggedInv.
LEMMA LoggedStep ==
    TruckTypeOK /\ WorkflowInv /\ RecordedInv /\ LoggedInv /\ [TruckNext]_truckvars => LoggedInv'
<1> SUFFICES ASSUME TruckTypeOK, WorkflowInv, RecordedInv, LoggedInv, [TruckNext]_truckvars
             PROVE  LoggedInv'
  OBVIOUS
<1>1. ASSUME \A p \in Orders : publishing'[p] \in {publishing[p], 0}, csv' = csv,
             feed' = feed \/ feed' = << >>,
             \A p \in Orders : restock[p] = "COMPLETED" => restock'[p] = "COMPLETED"
      PROVE  LoggedInv'
  BY <1>1, LoggedFrame DEF LoggedInv
<1>2. CASE UNCHANGED <<restock, publishing, logvars>>
  BY <1>1, <1>2
<1>3. ASSUME NEW o \in Orders, CreateRestockOrder(o)
      PROVE  LoggedInv'
  <2>1. dispatches[o] = 0 /\ effects[o][PostStage(o)] = 0
    BY <1>3, StageRange
    DEF CreateRestockOrder, RecordedInv, RecordedOrder, WorkflowInv, FreshInv, Fresh, NoEffect
  <2>2. UNCHANGED <<publishing, feed, csv, effects>> /\ \A p \in Orders : p # o => restock'[p] = restock[p]
    BY <1>3 DEF CreateRestockOrder, TruckTypeOK
  <2>3. \A p \in Orders : p # o => LoggedOrder(p)'
    BY <2>2 DEF LoggedInv, LoggedOrder, InFeed, InLog
  <2>4. LoggedOrder(o)'
    BY <2>1, <2>2 DEF LoggedInv, LoggedOrder, InFeed, InLog
  <2>5. QED
    BY <2>3, <2>4 DEF LoggedInv
<1>4. CASE OrderingCrash
  BY <1>1, <1>4 DEF OrderingCrash
<1>5. CASE Logging(StartAnalytics \/ AnalyticsCrash)
  BY <1>1, <1>5 DEF Logging, StartAnalytics, AnalyticsCrash
<1>6. ASSUME NEW o \in Orders, Submit(o) \/ FailCall(o) \/ Accept(o) \/ CallInventory(o)
      PROVE  LoggedInv'
  BY <1>2, <1>6 DEF Submit, FailCall, Accept, CallInventory
<1>7. CASE OrderingOnly
  BY <1>3, <1>4, <1>5, <1>6, <1>7, <1>2, LoggedPublish, LoggedCustomer, LoggedRecord
  DEF OrderingOnly, Restart, Logging, AnalyticsNext
<1>8. CASE WorkflowOnly \/ Interrupt \/ \E o \in Orders, s \in Slots : MissPost(o, s)
  BY <1>2, <1>8 DEF WorkflowOnly, Interrupt, MissPost
<1>9. QED
  BY <1>2, <1>6, <1>7, <1>8, LoggedPost, Split

\* From the robots' reports to the CSV file a restock is announced at most once, and
\* only when ordering knows it as COMPLETED, whichever processes die on the way.
THEOREM RestockLoggedOnce == TruckSpec => []LoggedOnce
<1>1. TruckInit => LoggedInv
  BY DEF TruckInit, AnalyticsInit, LoggedInv, LoggedOrder, InFeed, InLog
<1>2. LoggedInv => LoggedOnce
  BY DEF LoggedInv, LoggedOrder, InLog, LoggedOnce
<1>3. TruckSpec => []RecordedInv
  BY RecordedInit, RecordedStep, TruckTypeCorrect, PTL DEF TruckSpec
<1>4. TruckSpec => []LoggedInv
  BY <1>1, <1>3, LoggedStep, TruckTypeCorrect, PTL DEF TruckSpec
<1>5. QED
  BY <1>2, <1>4, PTL

-----------------------------------------------------------------------------
(* The file's header.                                                      *)

\* A header and a line on an empty file.
LEMMA TwoLines ==
    ASSUME NEW S, NEW h \in S, NEW m \in S, NEW q, NEW n, q = << >>, n = Append(q, h) \o <<m>>
    PROVE  Len(n) = 2 /\ n[1] = h /\ n[2] = m
<1>1. Append(q, h) = <<h>>
  OBVIOUS
<1>2. QED
  BY <1>1

\* Every step keeps HeaderInv.
LEMMA HeaderStep == AnalyticsTypeOK /\ HeaderInv /\ [TruckNext]_truckvars => HeaderInv'
<1> SUFFICES ASSUME AnalyticsTypeOK, HeaderInv, [TruckNext]_truckvars
             PROVE  HeaderInv'
  OBVIOUS
<1> USE DEF HeaderInv, OneHeader
<1>1. CASE UNCHANGED <<stream, csv>>
  BY <1>1
<1>2. CASE Logging(StartAnalytics \/ AnalyticsCrash)
  BY <1>2 DEF Logging, StartAnalytics, AnalyticsCrash
<1>3. CASE Logging(Record)
  <2>1. Head(feed) \in Metrics /\ Head(feed) # Header /\ csv \in Seq(Metrics \cup {Header})
    BY <1>3, MetricsAssumption DEF Logging, Record, AnalyticsTypeOK
  <2>2. CASE csv' = csv
    BY <1>3, <2>2 DEF Logging, Record
  <2>3. CASE stream = "header" /\ csv' = Append(csv, Header) \o <<Head(feed)>> /\ stream' = "open"
    <3>1. csv = << >>
      BY <2>3
    <3>2. Len(csv') = 2 /\ csv'[1] = Header /\ csv'[2] = Head(feed)
      BY <2>1, <2>3, <3>1, TwoLines
    <3>3. QED
      BY <2>1, <2>3, <3>2
  <2>4. CASE stream = "open" /\ csv' = csv \o <<Head(feed)>> /\ stream' = "open"
    <3>1. csv # << >> /\ Len(csv) \in Nat /\ 1 <= Len(csv)
      BY <2>1, <2>4
    <3>2. /\ Len(csv') = Len(csv) + 1 /\ csv'[Len(csv) + 1] = Head(feed)
          /\ \A i \in 1 .. Len(csv) : csv'[i] = csv[i]
      BY <2>1, <2>4
    <3>3. csv'[1] = Header /\ csv' # << >>
      BY <3>1, <3>2
    <3>4. \A i \in 2 .. Len(csv') : csv'[i] # Header
      BY <2>1, <3>1, <3>2
    <3>5. QED
      BY <2>4, <3>3, <3>4
  <2>5. QED
    BY <1>3, <2>2, <2>3, <2>4 DEF Logging, Record
<1>4. CASE ~Logging(StartAnalytics \/ AnalyticsCrash) /\ ~Logging(Record)
  BY <1>1, <1>4, Split
  DEF OrderingOnly, WorkflowOnly, Submit, CreateRestockOrder, FailCall, Accept, Publish,
      PublishCustomer, Receive, OrderingCrash, Restart, Logging, AnalyticsNext, RecordNothing,
      CallInventory, Post, MissPost, Interrupt
<1>5. QED
  BY <1>2, <1>3, <1>4

\* However often the subscriber dies, the file has one header, and it comes first.
THEOREM HeaderOnce == TruckSpec => []OneHeader
<1>1. TruckInit => HeaderInv
  BY DEF TruckInit, AnalyticsInit, HeaderInv, OneHeader
<1>2. TruckTypeOK => AnalyticsTypeOK
  BY DEF TruckTypeOK
<1>3. TruckSpec => []HeaderInv
  BY <1>1, <1>2, HeaderStep, TruckTypeCorrect, PTL DEF TruckSpec
<1>4. QED
  BY <1>3, PTL DEF HeaderInv
=============================================================================
