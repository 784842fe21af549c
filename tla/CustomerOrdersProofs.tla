------------------------ MODULE CustomerOrdersProofs ------------------------
(***************************************************************************)
(* Proofs about CustomerOrders, for any orders, robots, requests and       *)
(* failures: type correctness and, for clients that wait for each answer,  *)
(* that an order is handed over at most once and that its two writers do   *)
(* not take its status back; that a reservation is released once if its    *)
(* order is cancelled once; without failures, that stock is held for the   *)
(* rows, and that one order, or several that nobody cancels, keep to       *)
(* OrderLifecycle and are never left behind PROCESSING.                    *)
(***************************************************************************)
EXTENDS CustomerOrdersInv, FulfilmentProofs

USE DEF redis, handlers, robots, vars, requests, ordering, allvars

-----------------------------------------------------------------------------
(* The workflow inside of the composition.                                 *)

\* The steps of ordering that leave the workflow alone.
OrderingOnly ==
    \/ \E o \in Orders : Preview(o) \/ CreateOrder(o) \/ Announce(o)
    \/ \E o \in Orders, k \in Confirms : StartConfirm(k, o)
    \/ \E o \in Orders, x \in Cancels : StartCancel(x, o)
    \/ \E k \in Confirms :
          ReadItems(k) \/ SetProcessing(k) \/ FailConfirm(k) \/ FailCall(k) \/ Reply(k) \/ FailDispatch(k)
    \/ \E x \in Cancels : Cancel(x)
    \/ OrderingCrash
    \/ Restart

\* The steps of the workflow that leave ordering alone.
WorkflowOnly ==
    /\ UNCHANGED ordering
    /\ \/ \E o \in Orders, s \in Slots : LoadItems(o, s) \/ Bill(o, s) \/ DeleteOrderData(o, s)
       \/ \E o \in Orders : Broadcast(o) \/ ExpireItems(o) \/ ExpireMarker(o)
       \/ \E r \in Robots : Work(r) \/ LoseReport(r) \/ FailClaim(r) \/ RobotCrash(r)
       \/ RedisRestart

\* Every step is one of ordering, one of the workflow, or one of the four that
\* they take together.
LEMMA Split ==
    ASSUME OrdersNext
    PROVE  \/ OrderingOnly
           \/ WorkflowOnly
           \/ \E k \in Confirms : CallInventory(k)
           \/ \E o \in Orders, s \in Slots : Post(o, s) \/ MissPost(o, s)
           \/ Interrupt
BY DEF OrdersNext, OrderingOnly, WorkflowOnly, Settle, Alone, Confirm

\* Ordering on its own does not touch the workflow.
LEMMA OrderingFrame ==
    ASSUME OrderingOnly
    PROVE  UNCHANGED vars
BY DEF OrderingOnly, Preview, CreateOrder, Announce, Die, StartConfirm, StartCancel, Ask,
   ReadItems, SetProcessing, FailConfirm, FailCall, Reply, FailDispatch, Cancel, ReadCart,
   ReleaseCart, DeleteOrder, OrderingCrash, Restart

\* A webhook that nobody receives only moves its finalizer on.
LEMMA MissPostKeeps ==
    ASSUME TypeOK, NEW o \in Orders, NEW s \in Slots, MissPost(o, s)
    PROVE  TypeOK' /\ (FreshInv => FreshInv')
<1>1. PostStage(o) + 1 \in Idle .. (Lines + 3)
  BY StageRange
<1>2. /\ stage[o][s] = PostStage(o)
      /\ stage' = [stage EXCEPT ![o][s] = PostStage(o) + 1]
      /\ UNCHANGED <<items, marker, count, outlived, dispatches, unsent, inbox, pc, job,
                     effects, picked, reported>>
  BY DEF MissPost, TypeOK
<1>3. stage' \in [Orders -> [Slots -> Idle .. (Lines + 3)]]
  BY <1>1, <1>2, StageUpdate
<1>4. TypeOK'
  BY <1>2, <1>3 DEF TypeOK
<1>5. ASSUME FreshInv
      PROVE  FreshInv'
  <2>1. dispatches[o] # 0
    BY <1>2, <1>5, StageRange, LinesAssumption
    DEF FreshInv, Fresh, Active, PostStage, Idle
  <2>2. \A p \in Orders : p # o => stage'[p] = stage[p]
    BY <1>2 DEF TypeOK
  <2>3. QED
    BY <1>2, <1>5, <2>1, <2>2 DEF FreshInv, Fresh, Queued, Active, NoEffect
<1>6. QED
  BY <1>4, <1>5

\* The workflow's own invariants hold inside of the composition.
LEMMA WorkflowStep ==
    ASSUME OrdersTypeOK, FreshInv, [OrdersNext]_allvars
    PROVE  TypeOK' /\ FreshInv'
<1> TypeOK
  BY DEF OrdersTypeOK
<1>1. CASE UNCHANGED vars
  BY <1>1, TypeStep, FreshStep
<1>2. CASE OrderingOnly
  BY <1>1, <1>2, OrderingFrame
<1>3. CASE WorkflowOnly
  BY <1>3, TypeStep, FreshStep DEF WorkflowOnly, Next, Finalize
<1>4. ASSUME NEW k \in Confirms, CallInventory(k)
      PROVE  TypeOK' /\ FreshInv'
  <2>1. on[k] \in Orders
    BY <1>4 DEF CallInventory, OrdersTypeOK, Requests
  <2>2. QED
    BY <1>4, <2>1, TypeDispatch, FreshDispatch DEF CallInventory
<1>5. ASSUME NEW o \in Orders, NEW s \in Slots, Post(o, s)
      PROVE  TypeOK' /\ FreshInv'
  BY <1>5, TypeFinalizer, FreshFinalizer DEF Post, Finalize
<1>6. ASSUME NEW o \in Orders, NEW s \in Slots, MissPost(o, s)
      PROVE  TypeOK' /\ FreshInv'
  BY <1>6, MissPostKeeps
<1>7. CASE Interrupt
  BY <1>7, TypeFailure, FreshFailure DEF Interrupt
<1>8. QED
  BY <1>1, <1>2, <1>3, <1>4, <1>5, <1>6, <1>7, Split

-----------------------------------------------------------------------------
(* Every variable keeps its type.                                          *)

\* The part of the type invariant that is about ordering's own variables.
OrderingTypes ==
    /\ row \in [Orders -> Statuses]
    /\ preview \in [Orders -> {"none", "reserved", "created", "refused", "lost"}]
    /\ held \in [Orders -> Int]
    /\ at \in [Requests -> ConfirmSteps \cup CancelSteps]
    /\ \A k \in Confirms : at[k] \in ConfirmSteps
    /\ \A x \in Cancels : at[x] \in CancelSteps
    /\ on \in [Requests -> Orders \cup {NoOrder}]
    /\ \A h \in Requests : at[h] # "new" => on[h] \in Orders
    /\ announcing \in [Orders -> Nat]
    /\ up \in BOOLEAN

\* The initial state is well typed.
LEMMA OrdersTypeInit == OrdersInit => OrdersTypeOK
<1>1. OrdersInit => OrderingTypes
  BY DEF OrdersInit, OrderingTypes, Statuses, ConfirmSteps, CancelSteps, Requests
<1>2. QED
  BY <1>1, TypeInit DEF OrdersInit, OrderingTypes, OrdersTypeOK

\* Preview keeps the types.
LEMMA PreviewTypes ==
    ASSUME OrderingTypes, NEW o \in Orders, Preview(o) \/ CreateOrder(o)
    PROVE  OrderingTypes'
<1>1. CASE Preview(o)
  BY <1>1 DEF Preview, OrderingTypes
<1>2. CASE CreateOrder(o)
  BY <1>2 DEF CreateOrder, OrderingTypes, Statuses
<1>3. QED
  BY <1>1, <1>2

\* A handler that goes on with a step of its kind keeps the types.
LEMMA GotoTypes ==
    ASSUME OrderingTypes, NEW h \in Requests, NEW t, Goto(h, t), UNCHANGED preview, UNCHANGED up,
           h \in Confirms => t \in ConfirmSteps,
           h \in Cancels => t \in CancelSteps,
           row' \in [Orders -> Statuses], held' \in [Orders -> Int],
           announcing' \in [Orders -> Nat],
           \/ on' = on /\ at[h] # "new"
           \/ \E o \in Orders : on' = [on EXCEPT ![h] = o]
    PROVE  OrderingTypes'
BY CustomersAssumption DEF OrderingTypes, Goto, Requests

\* Confirmations keep the types.
LEMMA ConfirmTypes ==
    ASSUME OrderingTypes, NEW k \in Confirms,
           Confirm(k) \/ \E o \in Orders : StartConfirm(k, o)
    PROVE  OrderingTypes'
<1>1. k \in Requests /\ k \notin Cancels
  BY CustomersAssumption DEF Requests
<1>2. \A status \in Statuses :
          SetStatus(on[k], status) => row' \in [Orders -> Statuses]
  BY DEF SetStatus, OrderingTypes, Statuses
<1>3. /\ row' \in [Orders -> Statuses] /\ held' = held /\ announcing' = announcing
      /\ preview' = preview /\ up' = up
  BY <1>2 DEF Confirm, ReadItems, SetProcessing, FailConfirm, CallInventory, FailCall, Reply,
     FailDispatch, StartConfirm, Ask, OrderingTypes, Statuses
<1>4. \E t \in ConfirmSteps : Goto(k, t)
  BY DEF Confirm, ReadItems, SetProcessing, FailConfirm, CallInventory, FailCall, Reply,
     FailDispatch, StartConfirm, ConfirmSteps
<1>5. \/ on' = on /\ at[k] # "new"
      \/ \E o \in Orders : on' = [on EXCEPT ![k] = o]
  BY DEF Confirm, ReadItems, SetProcessing, FailConfirm, CallInventory, FailCall, Reply,
     FailDispatch, StartConfirm, Ask
<1>6. QED
  BY <1>1, <1>3, <1>4, <1>5, GotoTypes DEF OrderingTypes

\* So do cancellations.
LEMMA CancelTypes ==
    ASSUME OrderingTypes, NEW x \in Cancels,
           Cancel(x) \/ \E o \in Orders : StartCancel(x, o)
    PROVE  OrderingTypes'
<1>1. x \in Requests /\ x \notin Confirms
  BY CustomersAssumption DEF Requests
<1>2. /\ row' \in [Orders -> Statuses] /\ held' \in [Orders -> Int] /\ announcing' = announcing
      /\ preview' = preview /\ up' = up
  BY DEF Cancel, ReadCart, ReleaseCart, DeleteOrder, StartCancel, Ask, OrderingTypes, Statuses
<1>3. \E t \in CancelSteps : Goto(x, t)
  BY DEF Cancel, ReadCart, ReleaseCart, DeleteOrder, StartCancel, CancelSteps
<1>4. \/ on' = on /\ at[x] # "new"
      \/ \E o \in Orders : on' = [on EXCEPT ![x] = o]
  BY DEF Cancel, ReadCart, ReleaseCart, DeleteOrder, StartCancel, Ask
<1>5. QED
  BY <1>1, <1>2, <1>3, <1>4, GotoTypes DEF OrderingTypes

\* The end of the process keeps the types.
LEMMA DieTypes ==
    ASSUME OrderingTypes, Die
    PROVE  OrderingTypes'
<1>1. /\ at' = [h \in Requests |-> IF Ended(h) THEN at[h] ELSE "over"]
      /\ \A h \in Requests : at[h] = "new" => at'[h] = "new"
  BY DEF Die, Ended
<1>2. QED
  BY <1>1 DEF Die, OrderingTypes, ConfirmSteps, CancelSteps, Requests, Ended

\* So do the webhook, its goroutine and the failures.
LEMMA OtherTypes ==
    ASSUME OrderingTypes,
           \/ \E o \in Orders, s \in Slots : Post(o, s) \/ MissPost(o, s)
           \/ \E o \in Orders : Announce(o)
           \/ OrderingCrash \/ Restart \/ Interrupt
    PROVE  OrderingTypes'
<1>1. ASSUME NEW o \in Orders, NEW s \in Slots, Post(o, s)
      PROVE  OrderingTypes'
  BY <1>1 DEF Post, ReceiveWebhook, SetStatus, OrderingTypes, Statuses
<1>2. ASSUME NEW o \in Orders, NEW s \in Slots, MissPost(o, s)
      PROVE  OrderingTypes'
  BY <1>2 DEF MissPost, OrderingTypes
<1>3. ASSUME NEW o \in Orders, Announce(o)
      PROVE  OrderingTypes'
  BY <1>3, DieTypes DEF Announce, OrderingTypes
<1>4. CASE OrderingCrash \/ Restart
  BY <1>4, DieTypes DEF OrderingCrash, Restart, OrderingTypes
<1>5. CASE Interrupt
  BY <1>5, CustomersAssumption
  DEF Interrupt, OrderingTypes, ConfirmSteps, CancelSteps, Requests
<1>6. QED
  BY <1>1, <1>2, <1>3, <1>4, <1>5

\* Every step keeps the types, of the workflow and of ordering.
LEMMA OrdersTypeStep ==
    OrdersTypeOK /\ FreshInv /\ [OrdersNext]_allvars => OrdersTypeOK'
<1> SUFFICES ASSUME OrdersTypeOK, FreshInv, [OrdersNext]_allvars
             PROVE  OrdersTypeOK'
  OBVIOUS
<1>1. OrderingTypes
  BY DEF OrderingTypes, OrdersTypeOK
<1>2. SUFFICES OrderingTypes'
  BY WorkflowStep DEF OrderingTypes, OrdersTypeOK
<1>3. CASE UNCHANGED ordering
  BY <1>1, <1>3 DEF OrderingTypes
<1>4. CASE OrderingOnly
  BY <1>1, <1>4, PreviewTypes, ConfirmTypes, CancelTypes, OtherTypes DEF OrderingOnly, Confirm
<1>5. CASE \E k \in Confirms : CallInventory(k)
  BY <1>1, <1>5, ConfirmTypes DEF Confirm
<1>6. QED
  BY <1>1, <1>3, <1>4, <1>5, OtherTypes, Split DEF WorkflowOnly

\* Type correctness of the composition, in which also orders that were not handed
\* over have left no trace in the workflow.
THEOREM OrdersTypeCorrect == OrdersSpec => [](OrdersTypeOK /\ FreshInv)
<1>1. OrdersInit => OrdersTypeOK /\ FreshInv
  BY OrdersTypeInit, FreshInit DEF OrdersInit
<1>2. OrdersTypeOK /\ FreshInv /\ [OrdersNext]_allvars => (OrdersTypeOK /\ FreshInv)'
  BY OrdersTypeStep, WorkflowStep
<1>3. QED
  BY <1>1, <1>2, PTL DEF OrdersSpec

-----------------------------------------------------------------------------
(* Patient clients.                                                        *)

\* What the steps about other orders, and the end of the process, leave of o.
LEMMA PatientFrame ==
    ASSUME NEW o \in Orders, PatientOrder(o),
           row'[o] = row[o], dispatches'[o] = dispatches[o],
           preview'[o] = preview[o] \/ (preview[o] = "reserved" /\ preview'[o] = "lost"),
           \A h \in Requests : on'[h] = o => on[h] = o /\ at'[h] \in {at[h], "over"}
    PROVE  PatientOrder(o)'
<1>1. Unasked(o)' /\ Recorded(o)'
  BY DEF PatientOrder, Unasked, Recorded, CallsFail
<1>2. \A h \in Requests : on'[h] = o /\ ~Ended(h)' => on[h] = o /\ ~Ended(h)
  BY DEF Ended
<1>3. OneAtATime(o)'
  BY <1>2 DEF PatientOrder, OneAtATime
<1>4. ASSUME NEW k \in Confirms, on'[k] = o
      PROVE  Informed(o, k)'
  <2>1. on[k] = o /\ at'[k] \in {at[k], "over"}
    BY <1>4 DEF Requests
  <2>2. QED
    BY <2>1 DEF PatientOrder, Informed, CallsFail
<1>5. QED
  BY <1>1, <1>3, <1>4 DEF PatientOrder

\* The handler of a patient client's request is the only one about its order, so
\* only what it knows itself has to be shown of its step.
LEMMA HandlerStep ==
    ASSUME OrdersTypeOK, NEW o \in Orders, PatientOrder(o),
           NEW h \in Requests, on[h] = o, ~Ended(h), on' = on, preview' = preview,
           \A g \in Requests : g # h => at'[g] = at[g],
           Recorded(o)', h \in Confirms => Informed(o, h)'
    PROVE  PatientOrder(o)'
<1>1. \A g \in Requests : on[g] = o /\ g # h => Ended(g)
  BY DEF PatientOrder, OneAtATime
<1>2. preview[o] = "created"
  BY DEF PatientOrder, Unasked
<1>3. OneAtATime(o)'
  BY <1>1 DEF OneAtATime, Ended
<1>4. ASSUME NEW k \in Confirms, on'[k] = o, k # h
      PROVE  Informed(o, k)'
  <2>1. at'[k] \in {"new", "over"}
    BY <1>1, <1>4 DEF Ended, Requests
  <2>2. QED
    BY <2>1 DEF Informed
<1>5. QED
  BY <1>2, <1>3, <1>4 DEF PatientOrder, Unasked

\* A preview, before anybody can ask about its order.
LEMMA PatientPreview ==
    ASSUME OrdersTypeOK, PatientInv, NEW p \in Orders, Preview(p) \/ CreateOrder(p)
    PROVE  PatientInv'
<1> SUFFICES ASSUME NEW o \in Orders
             PROVE  PatientOrder(o)'
  BY DEF PatientInv
<1>1. PatientOrder(o)
  BY DEF PatientInv
<1>2. UNCHANGED <<dispatches, at, on>>
  BY DEF Preview, CreateOrder
<1>3. CASE o # p
  <2>1. row'[o] = row[o] /\ preview'[o] = preview[o]
    BY <1>3 DEF Preview, CreateOrder, OrdersTypeOK
  <2>2. QED
    BY <1>1, <1>2, <2>1, PatientFrame
<1>4. CASE o = p
  <2>1. preview[o] \in {"none", "reserved"}
    BY <1>4 DEF Preview, CreateOrder
  <2>2. dispatches[o] = 0 /\ row[o] = "absent" /\ \A h \in Requests : on[h] # o
    BY <1>1, <2>1 DEF PatientOrder, Unasked
  <2>3. /\ row'[o] \in {"absent", "PENDING"}
        /\ row'[o] = "PENDING" => preview'[o] \in {"created", "lost"}
    BY <1>4, <2>2 DEF Preview, CreateOrder, OrdersTypeOK
  <2>4. QED
    BY <1>2, <2>2, <2>3 DEF PatientOrder, Unasked, OneAtATime, Recorded, Requests
<1>5. QED
  BY <1>3, <1>4

\* A request that a patient client makes.
LEMMA PatientAsk ==
    ASSUME Patient, OrdersTypeOK, PatientInv, NEW p \in Orders, NEW h \in Requests, Ask(h, p),
           \/ h \in Confirms /\ Goto(h, IF row[p] = "PENDING" THEN "items" ELSE "over")
           \/ h \notin Confirms /\ \E t \in CancelSteps : Goto(h, t)
    PROVE  PatientInv'
<1> SUFFICES ASSUME NEW o \in Orders
             PROVE  PatientOrder(o)'
  BY DEF PatientInv
<1>1. PatientOrder(o)
  BY DEF PatientInv
<1>2. /\ UNCHANGED <<dispatches, row, preview>>
      /\ on' = [on EXCEPT ![h] = p]
      /\ \A g \in Requests : g # h => at'[g] = at[g]
  BY DEF Ask, Goto, OrdersTypeOK
<1>3. CASE o # p
  <2>1. \A g \in Requests : on'[g] = o => on[g] = o /\ at'[g] = at[g]
    BY <1>2, <1>3 DEF OrdersTypeOK
  <2>2. QED
    BY <1>1, <1>2, <2>1, PatientFrame
<1>4. CASE o = p
  <2>1. preview[o] = "created" /\ \A g \in Requests : on[g] = o => Ended(g)
    BY <1>4 DEF Ask
  <2>2. \A g \in Requests : on'[g] = o /\ g # h => Ended(g)'
    BY <1>2, <2>1 DEF Ended, OrdersTypeOK
  <2>3. ASSUME NEW k \in Confirms, on'[k] = o, k # h
        PROVE  Informed(o, k)'
    <3>1. at'[k] \in {"new", "over"}
      BY <2>2, <2>3 DEF Ended, Requests
    <3>2. QED
      BY <3>1 DEF Informed
  <2>4. ASSUME h \in Confirms
        PROVE  Informed(o, h)'
    <3>1. at'[h] = IF row[o] = "PENDING" THEN "items" ELSE "over"
      BY <1>4, <2>4 DEF Goto, OrdersTypeOK
    <3>2. row[o] = "PENDING" => dispatches[o] = 0
      BY <1>1 DEF PatientOrder, Recorded, OrdersTypeOK, TypeOK
    <3>3. QED
      BY <1>2, <3>1, <3>2 DEF Informed
  <2>5. OneAtATime(o)'
    BY <2>2 DEF OneAtATime
  <2>6. Unasked(o)' /\ Recorded(o)'
    BY <1>1, <1>2, <2>1 DEF PatientOrder, Unasked, Recorded, CallsFail
  <2>7. QED
    BY <2>3, <2>4, <2>5, <2>6 DEF PatientOrder
<1>5. QED
  BY <1>3, <1>4

\* The statements and calls of a confirmation.
LEMMA PatientConfirm ==
    ASSUME OrdersTypeOK, PatientInv, NEW k \in Confirms, Confirm(k)
    PROVE  PatientInv'
<1>1. k \in Requests /\ at[k] \in ConfirmSteps \ {"new", "over"} /\ on[k] \in Orders
  BY DEF Confirm, ReadItems, SetProcessing, FailConfirm, CallInventory, FailCall, Reply,
     FailDispatch, ConfirmSteps, Requests, OrdersTypeOK
<1> PICK o \in Orders : o = on[k]
  BY <1>1
<1>2. /\ on' = on /\ preview' = preview
      /\ \E t \in ConfirmSteps : Goto(k, t)
      /\ \A p \in Orders : p # o => row'[p] = row[p] /\ dispatches'[p] = dispatches[p]
  BY <1>1 DEF Confirm, ReadItems, SetProcessing, FailConfirm, CallInventory, FailCall, Reply,
     FailDispatch, ConfirmSteps, SetStatus, SaveItems, OrdersTypeOK, TypeOK
<1>3. \A g \in Requests : g # k => at'[g] = at[g]
  BY <1>2 DEF Goto, OrdersTypeOK
<1>4. ASSUME NEW p \in Orders, p # o
      PROVE  PatientOrder(p)'
  <2>1. \A g \in Requests : on'[g] = p => on[g] = p /\ at'[g] = at[g]
    BY <1>2, <1>3, <1>4
  <2>2. QED
    BY <1>2, <1>4, <2>1, PatientFrame DEF PatientInv
<1>5. Informed(o, k) /\ Recorded(o) /\ ~Ended(k)
  BY <1>1 DEF PatientInv, PatientOrder, Ended
<1>6. dispatches[o] \in Nat /\ row[o] \in Statuses
  BY <1>1 DEF OrdersTypeOK, TypeOK
<1>7. /\ \A t : Goto(k, t) => at'[k] = t
      /\ \A status : SetStatus(o, status)
                        => row'[o] = IF row[o] = "absent" THEN "absent" ELSE status
  BY <1>1 DEF Goto, SetStatus, OrdersTypeOK
<1>8. Informed(o, k)' /\ Recorded(o)'
  <2>1. CASE ReadItems(k) \/ Reply(k)
    <3>1. UNCHANGED <<row, dispatches>>
      BY <2>1 DEF ReadItems, Reply
    <3>2. at'[k] \in {"processing", "over"} /\ (at'[k] = "processing" => at[k] = "items")
      BY <1>7, <2>1 DEF ReadItems, Reply
    <3>3. QED
      BY <1>5, <3>1, <3>2 DEF Informed, Recorded, CallsFail
  <2>2. CASE SetProcessing(k) \/ FailConfirm(k)
    <3>1. UNCHANGED dispatches /\ at[k] \in {"items", "processing"}
      BY <2>2 DEF SetProcessing, FailConfirm
    <3>2. row'[o] \in {row[o], "PROCESSING"} /\ (at'[k] = "call" => row'[o] # "PENDING")
      BY <1>5, <1>7, <2>2 DEF SetProcessing, FailConfirm, Informed
    <3>3. at'[k] \in {"call", "over"}
      BY <1>7, <2>2 DEF SetProcessing, FailConfirm
    <3>4. QED
      BY <1>5, <3>1, <3>2, <3>3 DEF Informed, Recorded
  <2>3. CASE CallInventory(k)
    <3>1. row' = row /\ at[k] = "call" /\ at'[k] = "waiting" /\ dispatches'[o] = dispatches[o] + 1
      BY <1>1, <1>7, <2>3 DEF CallInventory, SaveItems, OrdersTypeOK, TypeOK
    <3>2. QED
      BY <1>5, <3>1 DEF Informed, Recorded
  <2>4. CASE FailCall(k)
    <3>1. UNCHANGED <<row, dispatches>> /\ at[k] \in {"call", "waiting"} /\ at'[k] = "failing"
      BY <1>7, <2>4 DEF FailCall
    <3>2. at[k] = "waiting" => CallsFail
      BY <2>4 DEF FailCall, CallsFail
    <3>3. QED
      BY <1>5, <1>6, <3>1, <3>2 DEF Informed, Recorded, CallsFail
  <2>5. CASE FailDispatch(k)
    <3>1. UNCHANGED dispatches /\ at[k] = "failing" /\ at'[k] = "over"
      BY <1>7, <2>5 DEF FailDispatch
    <3>2. row'[o] \in {row[o], "FAILED_DISPATCH"}
      BY <1>7, <2>5 DEF FailDispatch
    <3>3. QED
      BY <1>5, <3>1, <3>2 DEF Informed, Recorded, CallsFail
  <2>6. QED
    BY <2>1, <2>2, <2>3, <2>4, <2>5 DEF Confirm
<1>9. PatientOrder(o)'
  BY <1>1, <1>2, <1>3, <1>5, <1>8, HandlerStep DEF PatientInv
<1>10. QED
  BY <1>4, <1>9 DEF PatientInv

\* The statements and calls of a cancellation.
LEMMA PatientCancel ==
    ASSUME OrdersTypeOK, PatientInv, NEW x \in Cancels, Cancel(x)
    PROVE  PatientInv'
<1>1. x \in Requests /\ x \notin Confirms /\ ~Ended(x) /\ on[x] \in Orders
  BY CustomersAssumption DEF Cancel, ReadCart, ReleaseCart, DeleteOrder, Ended, Requests, OrdersTypeOK
<1> PICK o \in Orders : o = on[x]
  BY <1>1
<1>2. /\ UNCHANGED <<on, preview, dispatches>>
      /\ \A g \in Requests : g # x => at'[g] = at[g]
      /\ row' = row \/ row' = [row EXCEPT ![o] = "absent"]
  BY DEF Cancel, ReadCart, ReleaseCart, DeleteOrder, Goto, OrdersTypeOK
<1>3. ASSUME NEW p \in Orders, p # o
      PROVE  PatientOrder(p)'
  <2>1. row'[p] = row[p] /\ \A g \in Requests : on'[g] = p => on[g] = p /\ at'[g] = at[g]
    BY <1>2, <1>3 DEF OrdersTypeOK
  <2>2. QED
    BY <1>2, <2>1, PatientFrame DEF PatientInv
<1>4. PatientOrder(o)'
  <2>1. row'[o] \in {row[o], "absent"}
    BY <1>1, <1>2 DEF OrdersTypeOK
  <2>2. Recorded(o)
    BY <1>1 DEF PatientInv, PatientOrder
  <2>3. Recorded(o)'
    BY <1>2, <2>1, <2>2 DEF Recorded, CallsFail
  <2>4. QED
    BY <1>1, <1>2, <2>3, HandlerStep DEF PatientInv
<1>5. QED
  BY <1>3, <1>4 DEF PatientInv

\* The completion webhook: its order was handed over, so no confirmation of it is
\* before its call.
LEMMA PatientPost ==
    ASSUME OrdersTypeOK, FreshInv, PatientInv,
           NEW o \in Orders, NEW s \in Slots, Post(o, s)
    PROVE  PatientInv' /\ dispatches[o] > 0
<1>1. dispatches[o] > 0
  BY StageRange, LinesAssumption
  DEF Post, PostWebhook, FreshInv, Fresh, Active, PostStage, Idle, OrdersTypeOK, TypeOK
<1>2. /\ UNCHANGED <<dispatches, preview, at, on>>
      /\ row' = row \/ row' = [row EXCEPT ![o] = IF @ = "absent" THEN @ ELSE "COMPLETED"]
  BY DEF Post, PostWebhook, ReceiveWebhook, SetStatus
<1>3. ASSUME NEW p \in Orders, p # o
      PROVE  PatientOrder(p)'
  <2>1. row'[p] = row[p]
    BY <1>2, <1>3 DEF OrdersTypeOK
  <2>2. QED
    BY <1>2, <2>1, PatientFrame DEF PatientInv
<1>4. PatientOrder(o)'
  <2>1. row'[o] \in {row[o], "COMPLETED"} /\ (row[o] = "absent" => row'[o] = "absent")
    BY <1>2 DEF OrdersTypeOK
  <2>2. PatientOrder(o)
    BY DEF PatientInv
  <2>3. Recorded(o)'
    BY <1>1, <1>2, <2>1, <2>2 DEF PatientOrder, Recorded, CallsFail
  <2>4. preview[o] = "created"
    BY <1>1, <2>2 DEF PatientOrder, Unasked
  <2>5. Unasked(o)' /\ OneAtATime(o)'
    BY <1>2, <2>2, <2>4 DEF PatientOrder, Unasked, OneAtATime, Ended
  <2>6. ASSUME NEW k \in Confirms, on'[k] = o
        PROVE  Informed(o, k)'
    <3>1. Informed(o, k)
      BY <1>2, <2>2, <2>6 DEF PatientOrder
    <3>2. QED
      BY <1>1, <1>2, <2>1, <3>1 DEF Informed, CallsFail
  <2>7. QED
    BY <2>3, <2>5, <2>6 DEF PatientOrder
<1>5. QED
  BY <1>1, <1>3, <1>4 DEF PatientInv

\* A dying inventory: the calls it breaks off were calls that fail.
LEMMA PatientInterrupt ==
    ASSUME OrdersTypeOK, PatientInv, Interrupt
    PROVE  PatientInv'
<1> SUFFICES ASSUME NEW o \in Orders
             PROVE  PatientOrder(o)'
  BY DEF PatientInv
<1>1. CallsFail /\ UNCHANGED <<row, preview, on, dispatches>>
  BY DEF Interrupt, InventoryCrash, CallsFail
<1>2. \A h \in Requests : at'[h] = IF at[h] = "waiting" THEN "failing" ELSE at[h]
  BY DEF Interrupt
<1>3. PatientOrder(o)
  BY DEF PatientInv
<1>4. OneAtATime(o)'
  BY <1>1, <1>2, <1>3 DEF PatientOrder, OneAtATime, Ended
<1>5. ASSUME NEW k \in Confirms, on'[k] = o
      PROVE  Informed(o, k)'
  <2>1. Informed(o, k)
    BY <1>1, <1>3, <1>5 DEF PatientOrder
  <2>2. at'[k] = at[k] \/ (at[k] = "waiting" /\ at'[k] = "failing")
    BY <1>2 DEF Requests
  <2>3. QED
    BY <1>1, <2>1, <2>2 DEF Informed, CallsFail
<1>6. QED
  BY <1>1, <1>3, <1>4, <1>5 DEF PatientOrder, Unasked, Recorded, CallsFail

\* Steps that change neither rows, hand-overs nor requests, except that they end
\* handlers.
LEMMA PatientOther ==
    ASSUME OrdersTypeOK, PatientInv,
           \/ \E o \in Orders : Announce(o)
           \/ OrderingCrash \/ Restart \/ WorkflowOnly
           \/ \E o \in Orders, s \in Slots : MissPost(o, s)
           \/ UNCHANGED allvars
    PROVE  PatientInv'
<1>1. UNCHANGED <<row, on, dispatches>>
  BY DEF Announce, OrderingCrash, Die, Restart, WorkflowOnly, MissPost, LoadItems, Bill,
     DeleteOrderData, Broadcast, ExpireItems, ExpireMarker, Work, Pick, CountReport, ClaimOrder,
     LoseReport, FailClaim, RobotCrash, RedisRestart
<1>2. /\ \A o \in Orders : \/ preview'[o] = preview[o]
                           \/ preview[o] = "reserved" /\ preview'[o] = "lost"
      /\ \A h \in Requests : at'[h] \in {at[h], "over"}
  BY DEF Announce, OrderingCrash, Die, Restart, WorkflowOnly, MissPost, OrdersTypeOK
<1>3. QED
  BY <1>1, <1>2, PatientFrame DEF PatientInv

\* Every step of a system with patient clients.
LEMMA PatientStep ==
    ASSUME Patient
    PROVE  OrdersTypeOK /\ FreshInv /\ PatientInv /\ [OrdersNext]_allvars => PatientInv'
<1> SUFFICES ASSUME OrdersTypeOK, FreshInv, PatientInv, [OrdersNext]_allvars
             PROVE  PatientInv'
  OBVIOUS
<1>1. ASSUME NEW k \in Confirms, NEW o \in Orders, StartConfirm(k, o)
      PROVE  PatientInv'
  BY <1>1, PatientAsk DEF StartConfirm, Requests
<1>2. ASSUME NEW x \in Cancels, NEW o \in Orders, StartCancel(x, o)
      PROVE  PatientInv'
  <2>1. x \in Requests /\ x \notin Confirms /\ \E t \in CancelSteps : Goto(x, t)
    BY <1>2, CustomersAssumption DEF StartCancel, CancelSteps, Requests
  <2>2. QED
    BY <1>2, <2>1, PatientAsk DEF StartCancel
<1>3. CASE OrderingOnly
  BY <1>1, <1>2, <1>3, PatientPreview, PatientConfirm, PatientCancel, PatientOther
  DEF OrderingOnly, Confirm
<1>4. CASE \E k \in Confirms : CallInventory(k)
  BY <1>4, PatientConfirm DEF Confirm
<1>5. QED
  BY <1>3, <1>4, PatientOther, PatientPost, PatientInterrupt, Split

\* No order has a row, a request or a hand-over at first.
LEMMA PatientInit == OrdersInit => PatientInv
BY OrdersAssumption
DEF OrdersInit, Init, PatientInv, PatientOrder, Unasked, OneAtATime, Informed, Recorded, Ended, Requests

\* PatientInv is an invariant of systems with patient clients.
THEOREM PatientInvariant ==
    ASSUME Patient
    PROVE  OrdersSpec => []PatientInv
<1>1. OrdersTypeOK /\ FreshInv /\ PatientInv /\ [OrdersNext]_allvars => PatientInv'
  BY PatientStep
<1>2. QED
  BY <1>1, PatientInit, OrdersTypeCorrect, PTL DEF OrdersSpec

\* A client that waits for each answer cannot make ordering hand its order over
\* twice, whatever fails: the unlocked check of confirm.go suffices for it.
THEOREM DispatchedOnce ==
    ASSUME Patient
    PROVE  OrdersSpec => []DispatchedAtMostOnce
<1>1. PatientInv => DispatchedAtMostOnce
  BY DEF PatientInv, PatientOrder, Recorded, DispatchedAtMostOnce
<1>2. QED
  BY <1>1, PatientInvariant, PTL

-----------------------------------------------------------------------------
(* The status.                                                             *)

\* What StatusOnlyAdvances says of one order.
Advance(o) ==
    /\ row'[o] # row[o] => <<row[o], row'[o]>> \in Advances
    /\ preview[o] = "created" /\ row[o] = "absent" => row'[o] = "absent"

\* The statements of a confirmation: the first update finds the status that was
\* checked, the second one overwrites a completion only if a call failed.
LEMMA ConfirmAdvances ==
    ASSUME OrdersTypeOK, PatientInv, NEW k \in Confirms, Confirm(k), NEW o \in Orders
    PROVE  Advance(o)
<1>1. CASE row'[o] = row[o]
  BY <1>1 DEF Advance
<1>2. CASE row'[o] # row[o]
  <2>1. /\ on[k] = o /\ row[o] # "absent"
        /\ \/ at[k] = "processing" /\ row'[o] = "PROCESSING"
           \/ at[k] = "failing" /\ row'[o] = "FAILED_DISPATCH"
    BY <1>2 DEF Confirm, ReadItems, SetProcessing, FailConfirm, CallInventory, FailCall, Reply,
       FailDispatch, SetStatus, OrdersTypeOK
  <2>2. Informed(o, k) /\ Recorded(o)
    BY <2>1 DEF PatientInv, PatientOrder
  <2>3. dispatches[o] \in Nat /\ row[o] \in Statuses
    BY DEF OrdersTypeOK, TypeOK
  <2>4. CASE at[k] = "processing"
    BY <2>1, <2>2, <2>4 DEF Informed, Advance, Advances
  <2>5. CASE at[k] = "failing" /\ row[o] = "PROCESSING"
    BY <2>1, <2>5 DEF Advance, Advances
  <2>6. CASE at[k] = "failing" /\ row[o] = "COMPLETED"
    BY <2>1, <2>2, <2>6 DEF Informed, Recorded, Advance, Advances
  <2>7. QED
    BY <1>2, <2>1, <2>2, <2>3, <2>4, <2>5, <2>6 DEF Informed, Statuses
<1>3. QED
  BY <1>1, <1>2

\* The webhook: its order was handed over, so it is not PENDING, and FAILED_DISPATCH
\* only if a call failed.
LEMMA PostAdvances ==
    ASSUME OrdersTypeOK, FreshInv, PatientInv,
           NEW p \in Orders, NEW s \in Slots, Post(p, s), NEW o \in Orders
    PROVE  Advance(o)
<1>1. dispatches[p] > 0
  BY PatientPost
<1>2. row' = row \/ row' = [row EXCEPT ![p] = IF @ = "absent" THEN @ ELSE "COMPLETED"]
  BY DEF Post, ReceiveWebhook, SetStatus
<1>3. CASE row'[o] = row[o]
  BY <1>3 DEF Advance
<1>4. CASE row'[o] # row[o]
  <2>1. o = p /\ row[o] # "absent" /\ row'[o] = "COMPLETED"
    BY <1>2, <1>4 DEF OrdersTypeOK
  <2>2. row[o] \in {"PROCESSING", "FAILED_DISPATCH"} /\ (row[o] = "FAILED_DISPATCH" => CallsFail)
    BY <1>1, <1>4, <2>1 DEF PatientInv, PatientOrder, Recorded, OrdersTypeOK, Statuses
  <2>3. QED
    BY <2>1, <2>2 DEF Advance, Advances
<1>5. QED
  BY <1>3, <1>4

\* Every step advances every status or leaves it.
LEMMA StatusStep ==
    OrdersTypeOK /\ FreshInv /\ PatientInv /\ [OrdersNext]_allvars
        => \A o \in Orders : Advance(o)
<1> SUFFICES ASSUME OrdersTypeOK, FreshInv, PatientInv, [OrdersNext]_allvars, NEW o \in Orders
             PROVE  Advance(o)
  OBVIOUS
<1>1. CASE row'[o] = row[o]
  BY <1>1 DEF Advance
<1>2. ASSUME NEW p \in Orders, CreateOrder(p), row'[o] # row[o]
      PROVE  Advance(o)
  <2>1. o = p /\ preview[o] = "reserved" /\ row'[o] \in {"absent", "PENDING"}
    BY <1>2 DEF CreateOrder, OrdersTypeOK
  <2>2. row[o] = "absent"
    BY <2>1 DEF PatientInv, PatientOrder, Unasked
  <2>3. QED
    BY <1>2, <2>1, <2>2 DEF Advance, Advances
<1>3. ASSUME NEW x \in Cancels, Cancel(x), row'[o] # row[o]
      PROVE  Advance(o)
  <2>1. row'[o] = "absent" /\ row[o] \in Statuses
    BY <1>3 DEF Cancel, ReadCart, ReleaseCart, DeleteOrder, OrdersTypeOK
  <2>2. QED
    BY <2>1 DEF Advance, Advances
<1>4. CASE OrderingOnly
  <2>1. CASE \E p \in Orders : CreateOrder(p)
    BY <1>1, <1>2, <2>1
  <2>2. CASE \E x \in Cancels : Cancel(x)
    BY <1>1, <1>3, <2>2
  <2>3. CASE \E k \in Confirms : Confirm(k)
    BY <2>3, ConfirmAdvances
  <2>4. \/ UNCHANGED row
        \/ \E p \in Orders : CreateOrder(p)
        \/ \E x \in Cancels : Cancel(x)
        \/ \E k \in Confirms : Confirm(k)
    BY <1>4 DEF OrderingOnly, Preview, Announce, Die, StartConfirm, StartCancel, Ask, Confirm,
       OrderingCrash, Restart
  <2>5. QED
    BY <1>1, <2>1, <2>2, <2>3, <2>4
<1>5. CASE \E k \in Confirms : CallInventory(k)
  BY <1>5, ConfirmAdvances DEF Confirm
<1>6. CASE \E p \in Orders, s \in Slots : Post(p, s)
  BY <1>6, PostAdvances
<1>7. CASE WorkflowOnly \/ Interrupt \/ (\E p \in Orders, s \in Slots : MissPost(p, s)) \/ UNCHANGED allvars
  BY <1>1, <1>7 DEF WorkflowOnly, Interrupt, MissPost
<1>8. QED
  BY <1>4, <1>5, <1>6, <1>7, Split

\* A client that waits for each answer sees the status of its order only advance,
\* whatever fails, up to the two ends that a failed call to inventory can confuse.
THEOREM StatusAdvances ==
    ASSUME Patient
    PROVE  OrdersSpec => StatusOnlyAdvances
<1>1. OrdersTypeOK /\ FreshInv /\ PatientInv /\ [OrdersNext]_allvars
        => [\A o \in Orders : Advance(o)]_allvars
  BY StatusStep
<1>2. QED
  BY <1>1, PatientInvariant, OrdersTypeCorrect, PTL DEF OrdersSpec, StatusOnlyAdvances, Advance

-----------------------------------------------------------------------------
(* Stock and rows, without failures of ordering and with one cancellation. *)

\* What the steps about other orders, and those that only write the status, leave
\* of o.
LEMMA HeldFrame ==
    ASSUME NEW o \in Orders, HeldOrder(o),
           preview'[o] = preview[o], held'[o] = held[o],
           row'[o] = "absent" <=> row[o] = "absent",
           announcing'[o] # 0 => announcing[o] # 0 \/ preview[o] = "created",
           \A h \in Requests : on'[h] = o => on[h] = o \/ preview[o] = "created",
           \A x \in Cancels : \/ on'[x] = on[x] /\ at'[x] = at[x]
                              \/ (on[x] # o \/ at[x] = "new") /\ on'[x] # o
    PROVE  HeldOrder(o)'
<1>1. \A x \in Cancels : \A step \in {"items", "release", "delete", "over"} :
          (on'[x] = o /\ at'[x] = step) <=> (on[x] = o /\ at[x] = step)
  OBVIOUS
<1>2. \A x \in Cancels : Cancelling(o, x)' <=> Cancelling(o, x)
  BY <1>1 DEF Cancelling
<1>3. QED
  BY <1>1, <1>2 DEF HeldOrder

\* A preview reserves before it creates the row.
LEMMA HeldPreview ==
    ASSUME OrderingFaults = {}, OrdersTypeOK, NEW p \in Orders, Preview(p) \/ CreateOrder(p),
           NEW o \in Orders, HeldOrder(o)
    PROVE  HeldOrder(o)'
<1>1. UNCHANGED <<at, on, announcing>>
  BY DEF Preview, CreateOrder
<1>2. CASE o # p
  <2>1. preview'[o] = preview[o] /\ held'[o] = held[o] /\ row'[o] = row[o]
    BY <1>2 DEF Preview, CreateOrder, OrdersTypeOK
  <2>2. QED
    BY <1>1, <2>1, HeldFrame
<1>3. CASE o = p /\ Preview(p)
  <2>1. preview[o] = "none" /\ row'[o] = row[o]
    BY <1>3 DEF Preview
  <2>2. \/ held'[o] = 1 /\ preview'[o] = "reserved"
        \/ held'[o] = 0 /\ preview'[o] = "refused"
    BY <1>3, <2>1 DEF Preview, HeldOrder, OrdersTypeOK
  <2>3. QED
    BY <1>1, <2>1, <2>2 DEF HeldOrder, Cancelling, Requests
<1>4. CASE o = p /\ CreateOrder(p)
  <2>1. preview[o] = "reserved" /\ held'[o] = held[o] /\ preview'[o] = "created" /\ row'[o] = "PENDING"
    BY <1>4 DEF CreateOrder, OrdersTypeOK
  <2>2. \A x \in Cancels : on'[x] # o
    BY <1>1, <2>1 DEF HeldOrder, Requests
  <2>3. QED
    BY <2>1, <2>2 DEF HeldOrder, Cancelling
<1>5. QED
  BY <1>2, <1>3, <1>4

\* A confirmation deletes no row and releases nothing.
LEMMA HeldConfirm ==
    ASSUME OrdersTypeOK, NEW k \in Confirms,
           Confirm(k) \/ \E p \in Orders : StartConfirm(k, p),
           NEW o \in Orders, HeldOrder(o)
    PROVE  HeldOrder(o)'
<1>1. k \in Requests /\ k \notin Cancels
  BY CustomersAssumption DEF Requests
<1>2. UNCHANGED <<preview, held, announcing>> /\ \E t \in ConfirmSteps : Goto(k, t)
  BY DEF Confirm, ReadItems, SetProcessing, FailConfirm, CallInventory, FailCall, Reply,
     FailDispatch, StartConfirm, Ask, ConfirmSteps
<1>3. row'[o] = "absent" <=> row[o] = "absent"
  BY DEF Confirm, ReadItems, SetProcessing, FailConfirm, CallInventory, FailCall, Reply,
     FailDispatch, StartConfirm, Ask, SetStatus, OrdersTypeOK
<1>4. \/ on' = on
      \/ \E p \in Orders : preview[p] = "created" /\ on' = [on EXCEPT ![k] = p]
  BY DEF Confirm, ReadItems, SetProcessing, FailConfirm, CallInventory, FailCall, Reply,
     FailDispatch, StartConfirm, Ask
<1>5. \A h \in Requests : on'[h] = o => on[h] = o \/ preview[o] = "created"
  BY <1>4 DEF OrdersTypeOK
<1>6. \A x \in Cancels : on'[x] = on[x] /\ at'[x] = at[x]
  BY <1>1, <1>2, <1>4 DEF Goto, OrdersTypeOK, Requests
<1>7. QED
  BY <1>2, <1>3, <1>5, <1>6, HeldFrame

\* A cancellation that begins finds the row: nobody else deletes one.
LEMMA HeldAsk ==
    ASSUME OneCancellation, OrdersTypeOK, NEW x \in Cancels, NEW p \in Orders, StartCancel(x, p),
           NEW o \in Orders, HeldOrder(o)
    PROVE  HeldOrder(o)'
<1>1. /\ UNCHANGED <<preview, held, announcing, row>>
      /\ at[x] = "new" /\ preview[p] = "created"
      /\ x \in Requests /\ on' = [on EXCEPT ![x] = p]
      /\ \A h \in Requests : h # x => at'[h] = at[h]
  BY DEF StartCancel, Ask, Goto, Requests, OrdersTypeOK
<1>2. \A h \in Requests : on'[h] = o => on[h] = o \/ preview[o] = "created"
  BY <1>1 DEF OrdersTypeOK
<1>3. CASE o # p
  <2>1. \A y \in Cancels : \/ on'[y] = on[y] /\ at'[y] = at[y]
                           \/ (on[y] # o \/ at[y] = "new") /\ on'[y] # o
    BY <1>1, <1>3 DEF OrdersTypeOK, Requests
  <2>2. QED
    BY <1>1, <1>2, <2>1, HeldFrame
<1>4. CASE o = p
  <2>1. \A y \in Cancels : y = x
    BY DEF OneCancellation
  <2>2. row[o] # "absent"
    BY <1>1, <1>4, <2>1 DEF HeldOrder
  <2>3. at'[x] = "items" /\ on'[x] = o
    BY <1>1, <1>4, <2>2 DEF StartCancel, Goto, OrdersTypeOK
  <2>4. QED
    BY <1>1, <1>4, <2>1, <2>2, <2>3 DEF HeldOrder, Cancelling
<1>5. QED
  BY <1>3, <1>4

\* The cancellation gives back what its row held, then deletes the row.
LEMMA HeldCancel ==
    ASSUME OneCancellation, OrdersTypeOK, NEW x \in Cancels, Cancel(x),
           NEW o \in Orders, HeldOrder(o)
    PROVE  HeldOrder(o)'
<1>1. /\ UNCHANGED <<preview, on, announcing>>
      /\ x \in Requests /\ on[x] \in Orders /\ at[x] \in {"items", "release", "delete"}
  BY DEF Cancel, ReadCart, ReleaseCart, DeleteOrder, Requests, OrdersTypeOK
<1>2. \A y \in Cancels : y = x
  BY DEF OneCancellation
<1>3. CASE o # on[x]
  <2>1. held'[o] = held[o] /\ row'[o] = row[o]
    BY <1>1, <1>3 DEF Cancel, ReadCart, ReleaseCart, DeleteOrder, OrdersTypeOK
  <2>2. QED
    BY <1>1, <1>2, <1>3, <2>1, HeldFrame
<1>4. CASE o = on[x]
  <2>1. preview[o] = "created" /\ row[o] # "absent"
    BY <1>1, <1>4 DEF HeldOrder, Cancelling
  <2>2. CASE ReadCart(x)
    <3>1. UNCHANGED <<held, row>> /\ at[x] = "items" /\ at'[x] = "release"
      BY <1>1, <1>4, <2>1, <2>2 DEF ReadCart, Goto, OneCancellation, OrdersTypeOK
    <3>2. QED
      BY <1>1, <1>2, <1>4, <2>1, <3>1 DEF HeldOrder, Cancelling
  <2>3. CASE ReleaseCart(x)
    <3>1. UNCHANGED row /\ at[x] = "release" /\ at'[x] = "delete" /\ held'[o] = held[o] - 1
      BY <1>1, <1>4, <2>3 DEF ReleaseCart, Goto, OneCancellation, OrdersTypeOK
    <3>2. held[o] = 1
      BY <1>2, <2>1, <3>1 DEF HeldOrder
    <3>3. QED
      BY <1>1, <1>2, <1>4, <2>1, <3>1, <3>2 DEF HeldOrder, Cancelling
  <2>4. CASE DeleteOrder(x)
    <3>1. UNCHANGED held /\ at[x] = "delete" /\ at'[x] = "over" /\ row'[o] = "absent"
      BY <1>1, <1>4, <2>4 DEF DeleteOrder, Goto, OneCancellation, OrdersTypeOK
    <3>2. held[o] = 0
      BY <1>4, <2>1, <3>1 DEF HeldOrder
    <3>3. QED
      BY <1>1, <1>2, <1>4, <2>1, <3>1, <3>2 DEF HeldOrder, Cancelling
  <2>5. QED
    BY <2>2, <2>3, <2>4 DEF Cancel
<1>5. QED
  BY <1>3, <1>4

\* The goroutine of the webhook dies only for a deleted row, when the only
\* cancellation is over.
LEMMA HeldAnnounce ==
    ASSUME OneCancellation, OrdersTypeOK, NEW p \in Orders, Announce(p), HeldOrder(p),
           NEW o \in Orders, HeldOrder(o)
    PROVE  HeldOrder(o)'
<1>1. UNCHANGED <<on, row, held>>
  BY DEF Announce, Die
<1>2. announcing[p] > 0 /\ preview[p] = "created"
  <2>1. announcing[p] > 0
    BY DEF Announce
  <2>2. QED
    BY <2>1 DEF HeldOrder
<1>3. CASE ~Die
  <2>1. UNCHANGED <<preview, at>> /\ announcing' = [announcing EXCEPT ![p] = @ - 1]
    BY <1>3 DEF Announce
  <2>2. announcing'[o] # 0 => announcing[o] # 0 \/ preview[o] = "created"
    BY <1>2, <2>1 DEF OrdersTypeOK
  <2>3. QED
    BY <1>1, <2>1, <2>2, HeldFrame
<1>4. CASE Die
  <2>1. CASE row[p] # "absent"
    <3>1. announcing'[p] = 0
      BY <1>4 DEF Die
    <3>2. announcing'[p] = announcing[p] - 1 /\ UNCHANGED <<preview, at>>
      BY <2>1 DEF Announce, OrdersTypeOK
    <3>3. announcing'[o] = 0
      BY <1>4 DEF Die
    <3>4. QED
      BY <1>1, <3>2, <3>3, HeldFrame
  <2>2. CASE row[p] = "absent"
    <3>1. \A x \in Cancels : at[x] = "over"
      BY <1>2, <2>2 DEF HeldOrder, OneCancellation
    <3>2. \A x \in Cancels : at'[x] = at[x]
      BY <1>4, <3>1 DEF Die, Ended, Requests
    <3>3. announcing'[o] = 0
      BY <1>4 DEF Die
    <3>4. CASE preview[o] # "reserved"
      <4>1. preview'[o] = preview[o]
        BY <1>4, <3>4 DEF Die
      <4>2. QED
        BY <1>1, <3>2, <3>3, <4>1, HeldFrame
    <3>5. CASE preview[o] = "reserved"
      <4>1. preview'[o] = "lost"
        BY <1>4, <3>5 DEF Die
      <4>2. QED
        BY <1>1, <3>3, <3>5, <4>1 DEF HeldOrder, Cancelling, Requests
    <3>6. QED
      BY <3>4, <3>5
  <2>3. QED
    BY <2>1, <2>2
<1>5. QED
  BY <1>3, <1>4

\* The webhook, and the steps that leave rows, stock and cancellations alone.
LEMMA HeldOther ==
    ASSUME OrdersTypeOK, NEW o \in Orders, HeldOrder(o),
           \/ \E p \in Orders, s \in Slots : Post(p, s) \/ MissPost(p, s)
           \/ Restart \/ WorkflowOnly \/ Interrupt
           \/ UNCHANGED allvars
    PROVE  HeldOrder(o)'
<1>1. UNCHANGED <<preview, held, on>>
  BY DEF Post, MissPost, Restart, WorkflowOnly, Interrupt
<1>2. \A x \in Cancels : at'[x] = at[x]
  BY DEF Post, MissPost, Restart, WorkflowOnly, Interrupt, OrdersTypeOK, Requests, CancelSteps
<1>3. CASE row' = row /\ announcing' = announcing
  BY <1>1, <1>2, <1>3, HeldFrame
<1>4. ASSUME NEW p \in Orders, row[p] # "absent", SetStatus(p, "COMPLETED"),
             announcing' = [announcing EXCEPT ![p] = @ + 1]
      PROVE  HeldOrder(o)'
  <2>1. row'[o] = "absent" <=> row[o] = "absent"
    BY <1>4 DEF SetStatus, OrdersTypeOK
  <2>2. announcing'[o] # 0 => announcing[o] # 0 \/ preview[o] = "created"
    BY <1>4 DEF HeldOrder, OrdersTypeOK
  <2>3. QED
    BY <1>1, <1>2, <2>1, <2>2, HeldFrame
<1>5. QED
  BY <1>3, <1>4 DEF Post, ReceiveWebhook, MissPost, Restart, WorkflowOnly, Interrupt

\* Every step keeps HeldInv.
LEMMA HeldStep == OrdersTypeOK /\ HeldInv /\ [OrdersNext]_allvars => HeldInv'
<1> SUFFICES ASSUME OrdersTypeOK, HeldInv, [OrdersNext]_allvars, OneCancellation, NEW o \in Orders
             PROVE  HeldOrder(o)'
  BY DEF HeldInv, OneCancellation
<1>1. \A p \in Orders : HeldOrder(p)
  BY DEF HeldInv
<1>2. OrderingFaults = {} /\ ~OrderingCrash
  BY DEF OneCancellation, OrderingCrash
<1>3. CASE OrderingOnly
  <2>1. CASE \E p \in Orders : Preview(p) \/ CreateOrder(p) \/ Announce(p)
    BY <1>1, <1>2, <2>1, HeldPreview, HeldAnnounce
  <2>2. CASE \E k \in Confirms : Confirm(k) \/ \E p \in Orders : StartConfirm(k, p)
    BY <1>1, <2>2, HeldConfirm
  <2>3. CASE \E x \in Cancels : Cancel(x) \/ \E p \in Orders : StartCancel(x, p)
    BY <1>1, <2>3, HeldAsk, HeldCancel
  <2>4. CASE Restart
    BY <1>1, <2>4, HeldOther
  <2>5. QED
    BY <1>2, <1>3, <2>1, <2>2, <2>3, <2>4 DEF OrderingOnly, Confirm
<1>4. CASE \E k \in Confirms : CallInventory(k)
  BY <1>1, <1>4, HeldConfirm DEF Confirm
<1>5. QED
  BY <1>1, <1>3, <1>4, HeldOther, Split

\* Without failures of ordering and with one cancellation at most, whatever the
\* confirmations, impatient ones included, and whatever fails in inventory: when an
\* order is at rest, stock is held for its row or its lost preview and for nothing
\* else.
THEOREM StockFollowsRows ==
    ASSUME OneCancellation
    PROVE  OrdersSpec => []HeldForRows
<1>1. OrdersInit => HeldInv
  BY OrdersAssumption DEF OrdersInit, HeldInv, HeldOrder, Cancelling, Requests
<1>2. OrdersTypeOK /\ HeldInv => HeldForRows
  <2> SUFFICES ASSUME OrdersTypeOK, HeldInv, NEW o \in Orders, Calm(o)
               PROVE  held[o] = IF row[o] # "absent" \/ preview[o] = "lost" THEN 1 ELSE 0
    BY DEF HeldForRows
  <2>1. HeldOrder(o) /\ preview[o] \in {"none", "created", "refused", "lost"}
    BY DEF HeldInv, Calm, OrdersTypeOK
  <2>2. \A x \in Cancels : on[x] = o => at[x] # "delete"
    BY DEF Calm, Ended, Requests
  <2>3. QED
    BY <2>1, <2>2 DEF HeldOrder
<1>3. QED
  BY <1>1, <1>2, HeldStep, OrdersTypeCorrect, PTL DEF OrdersSpec

-----------------------------------------------------------------------------
(* Reservations are released once, if no order is cancelled twice.         *)

\* What a confirmation, a webhook and the workflow leave of it.
LEMMA ReleaseFrame ==
    ASSUME NEW o \in Orders, ReleaseOrder(o),
           preview'[o] = preview[o], held'[o] = held[o],
           \A x \in Cancels : on'[x] = o => on[x] = o \/ preview[o] = "created",
           \A x \in Cancels : at[x] \in {"delete", "over"} =>
                                  at'[x] \in {"delete", "over"} /\ on'[x] = on[x]
    PROVE  ReleaseOrder(o)'
BY DEF ReleaseOrder

\* A request stays about its order, and does not begin again.
LEMMA RequestsStay ==
    ASSUME OrdersTypeOK, [OrdersNext]_allvars, NEW h \in Requests, at[h] # "new"
    PROVE  at'[h] # "new" /\ on'[h] = on[h]
<1>1. CASE UNCHANGED <<at, on>>
  BY <1>1
<1>2. ASSUME NEW g \in Requests, NEW o \in Orders, Ask(g, o), NEW step \in {"items", "over"},
             Goto(g, step)
      PROVE  at'[h] # "new" /\ on'[h] = on[h]
  BY <1>2 DEF Ask, Goto, OrdersTypeOK
<1>3. ASSUME NEW o \in Orders, NEW k \in Confirms, StartConfirm(k, o)
      PROVE  at'[h] # "new" /\ on'[h] = on[h]
  BY <1>2, <1>3 DEF StartConfirm, Requests
<1>4. ASSUME NEW o \in Orders, NEW x \in Cancels, StartCancel(x, o)
      PROVE  at'[h] # "new" /\ on'[h] = on[h]
  BY <1>2, <1>4 DEF StartCancel, Requests
<1>5. ASSUME NEW g \in Requests, NEW step, Goto(g, step), step # "new", on' = on
      PROVE  at'[h] # "new" /\ on'[h] = on[h]
  BY <1>5 DEF Goto, OrdersTypeOK
<1>6. ASSUME NEW k \in Confirms, Confirm(k)
      PROVE  at'[h] # "new" /\ on'[h] = on[h]
  <2>1. on' = on /\ \E step \in ConfirmSteps \ {"new"} : Goto(k, step)
    BY <1>6 DEF Confirm, ReadItems, SetProcessing, FailConfirm, CallInventory, FailCall, Reply,
       FailDispatch, ConfirmSteps
  <2>2. QED
    BY <1>5, <2>1 DEF Requests
<1>7. ASSUME NEW x \in Cancels, Cancel(x)
      PROVE  at'[h] # "new" /\ on'[h] = on[h]
  <2>1. on' = on /\ \E step \in CancelSteps \ {"new"} : Goto(x, step)
    BY <1>7 DEF Cancel, ReadCart, ReleaseCart, DeleteOrder, CancelSteps
  <2>2. QED
    BY <1>5, <2>1 DEF Requests
<1>8. CASE Die
  BY <1>8 DEF Die
<1>9. CASE OrderingOnly
  <2>1. \/ \E o \in Orders : Preview(o) \/ CreateOrder(o) \/ Announce(o)
        \/ \E o \in Orders, k \in Confirms : StartConfirm(k, o)
        \/ \E o \in Orders, x \in Cancels : StartCancel(x, o)
        \/ \E k \in Confirms : Confirm(k)
        \/ \E x \in Cancels : Cancel(x)
        \/ OrderingCrash \/ Restart
    BY <1>9 DEF OrderingOnly, Confirm
  <2>2. CASE \E o \in Orders : Preview(o) \/ CreateOrder(o) \/ Announce(o)
    BY <1>1, <1>8, <2>2 DEF Preview, CreateOrder, Announce
  <2>3. CASE OrderingCrash \/ Restart
    BY <1>1, <1>8, <2>3 DEF OrderingCrash, Restart
  <2>4. QED
    BY <1>3, <1>4, <1>6, <1>7, <2>1, <2>2, <2>3
<1>10. CASE WorkflowOnly \/ UNCHANGED allvars
            \/ \E o \in Orders, s \in Slots : Post(o, s) \/ MissPost(o, s)
  BY <1>1, <1>10 DEF WorkflowOnly, Post, MissPost
<1>11. CASE Interrupt
  BY <1>11 DEF Interrupt, OrdersTypeOK
<1>12. QED
  BY <1>6, <1>9, <1>10, <1>11, Split DEF Confirm

\* An order that is cancelled once after a step was so before.
LEMMA CancelledOnceBefore ==
    ASSUME OrdersTypeOK, [OrdersNext]_allvars, NEW o \in Orders, CancelledOnce(o)'
    PROVE  CancelledOnce(o)
BY RequestsStay DEF CancelledOnce, Requests

\* A preview.
LEMMA ReleasePreview ==
    ASSUME OrdersTypeOK, NEW p \in Orders, Preview(p) \/ CreateOrder(p),
           NEW o \in Orders, ReleaseOrder(o)
    PROVE  ReleaseOrder(o)'
<1>1. UNCHANGED <<at, on>>
  BY DEF Preview, CreateOrder
<1>2. CASE o # p
  <2>1. preview'[o] = preview[o] /\ held'[o] = held[o]
    BY <1>2 DEF Preview, CreateOrder, OrdersTypeOK
  <2>2. QED
    BY <1>1, <2>1, ReleaseFrame
<1>3. CASE o = p /\ Preview(p)
  <2>1. preview[o] = "none" /\ held[o] = 0
    BY <1>3 DEF Preview, ReleaseOrder
  <2>2. \/ held'[o] = 1 /\ preview'[o] \in {"reserved", "lost"}
        \/ held'[o] = 0 /\ preview'[o] = "refused"
    BY <1>3, <2>1 DEF Preview, OrdersTypeOK
  <2>3. QED
    BY <1>1, <2>1, <2>2 DEF ReleaseOrder
<1>4. CASE o = p /\ CreateOrder(p)
  <2>1. /\ preview[o] = "reserved" /\ held[o] = 1 /\ held'[o] = 1
        /\ preview'[o] \in {"created", "lost"}
    BY <1>4 DEF CreateOrder, ReleaseOrder, OrdersTypeOK
  <2>2. QED
    BY <1>1, <2>1 DEF ReleaseOrder
<1>5. QED
  BY <1>2, <1>3, <1>4

\* A cancellation releases after its check, before anybody else did.
LEMMA ReleaseCancel ==
    ASSUME OrdersTypeOK, NEW x \in Cancels, Cancel(x),
           NEW o \in Orders, CancelledOnce(o), ReleaseOrder(o)
    PROVE  ReleaseOrder(o)'
<1>1. /\ UNCHANGED <<preview, on>> /\ x \in Requests
      /\ \A h \in Requests : h # x => at'[h] = at[h]
  BY DEF Cancel, ReadCart, ReleaseCart, DeleteOrder, Goto, Requests, OrdersTypeOK
<1>2. CASE held'[o] = held[o]
  <2>1. at[x] \in {"delete", "over"} => at'[x] \in {"delete", "over"}
    BY DEF Cancel, ReadCart, ReleaseCart, DeleteOrder, Goto, Requests, OrdersTypeOK
  <2>2. QED
    BY <1>1, <1>2, <2>1, ReleaseFrame DEF Requests
<1>3. CASE held'[o] # held[o]
  <2>1. /\ at[x] = "release" /\ at'[x] = "delete" /\ on[x] = o
        /\ held'[o] = held[o] - 1
    BY <1>1, <1>3 DEF Cancel, ReadCart, ReleaseCart, DeleteOrder, Goto, OrdersTypeOK
  <2>2. preview[o] = "created"
    BY <2>1 DEF ReleaseOrder
  <2>3. ~\E y \in Cancels : on[y] = o /\ at[y] \in {"delete", "over"}
    BY <2>1 DEF CancelledOnce
  <2>4. held[o] = 1
    BY <2>2, <2>3 DEF ReleaseOrder
  <2>5. held'[o] = 0
    BY <2>1, <2>4
  <2>6. QED
    BY <1>1, <2>1, <2>2, <2>5 DEF ReleaseOrder
<1>4. QED
  BY <1>2, <1>3

\* The end of ordering.
LEMMA ReleaseDie ==
    ASSUME OrdersTypeOK, Die, NEW o \in Orders, ReleaseOrder(o)
    PROVE  ReleaseOrder(o)'
<1>1. UNCHANGED <<on, held>>
  BY DEF Die
<1>2. \A x \in Cancels : at[x] \in {"delete", "over"} => at'[x] \in {"delete", "over"}
  BY DEF Die, Ended, Requests
<1>3. preview'[o] = IF preview[o] = "reserved" THEN "lost" ELSE preview[o]
  BY DEF Die
<1>4. CASE preview[o] = "reserved"
  BY <1>1, <1>3, <1>4 DEF ReleaseOrder
<1>5. CASE preview[o] # "reserved"
  BY <1>1, <1>2, <1>3, <1>5, ReleaseFrame
<1>6. QED
  BY <1>4, <1>5

\* Everybody else.
LEMMA ReleaseOther ==
    ASSUME OrdersTypeOK, NEW o \in Orders, ReleaseOrder(o),
           \/ \E k \in Confirms : Confirm(k) \/ \E p \in Orders : StartConfirm(k, p)
           \/ \E x \in Cancels, p \in Orders : StartCancel(x, p)
           \/ \E p \in Orders : Announce(p) /\ ~Die
           \/ \E p \in Orders, s \in Slots : Post(p, s) \/ MissPost(p, s)
           \/ Restart \/ WorkflowOnly \/ Interrupt
           \/ UNCHANGED allvars
    PROVE  ReleaseOrder(o)'
<1>1. CASE \/ \E p \in Orders : Announce(p) /\ ~Die
           \/ \E p \in Orders, s \in Slots : Post(p, s) \/ MissPost(p, s)
           \/ Restart \/ WorkflowOnly
           \/ UNCHANGED allvars
  <2>1. UNCHANGED <<preview, held, at, on>>
    BY <1>1 DEF Announce, Post, MissPost, Restart, WorkflowOnly
  <2>2. QED
    BY <2>1, ReleaseFrame
<1>2. CASE Interrupt
  <2>1. UNCHANGED <<preview, held, on>> /\ \A h \in Requests : at[h] # "waiting" => at'[h] = at[h]
    BY <1>2 DEF Interrupt
  <2>2. QED
    BY <2>1, ReleaseFrame DEF Requests
<1>3. ASSUME NEW k \in Confirms, Confirm(k) \/ \E p \in Orders : StartConfirm(k, p)
      PROVE  ReleaseOrder(o)'
  <2>1. k \in Requests /\ k \notin Cancels
    BY CustomersAssumption DEF Requests
  <2>2. UNCHANGED <<preview, held>> /\ \E t \in ConfirmSteps : Goto(k, t)
    BY <1>3 DEF Confirm, ReadItems, SetProcessing, FailConfirm, CallInventory, FailCall, Reply,
       FailDispatch, StartConfirm, Ask, ConfirmSteps
  <2>3. on' = on \/ \E p \in Orders : on' = [on EXCEPT ![k] = p]
    BY <1>3 DEF Confirm, ReadItems, SetProcessing, FailConfirm, CallInventory, FailCall, Reply,
       FailDispatch, StartConfirm, Ask
  <2>4. \A x \in Cancels : on'[x] = on[x] /\ at'[x] = at[x]
    BY <2>1, <2>2, <2>3 DEF Goto, OrdersTypeOK, Requests
  <2>5. QED
    BY <2>2, <2>4, ReleaseFrame
<1>4. ASSUME NEW x \in Cancels, NEW p \in Orders, StartCancel(x, p)
      PROVE  ReleaseOrder(o)'
  <2>1. /\ UNCHANGED <<preview, held>> /\ at[x] = "new" /\ preview[p] = "created"
        /\ on' = [on EXCEPT ![x] = p] /\ x \in Requests
        /\ \A h \in Requests : h # x => at'[h] = at[h]
    BY <1>4 DEF StartCancel, Ask, Goto, Requests, OrdersTypeOK
  <2>2. \A y \in Cancels : on'[y] = o => on[y] = o \/ preview[o] = "created"
    BY <2>1 DEF OrdersTypeOK, Requests
  <2>3. \A y \in Cancels : at[y] \in {"delete", "over"} => at'[y] = at[y] /\ on'[y] = on[y]
    BY <2>1 DEF OrdersTypeOK, Requests
  <2>4. QED
    BY <2>1, <2>2, <2>3, ReleaseFrame
<1>5. QED
  BY <1>1, <1>2, <1>3, <1>4

\* Every step keeps ReleaseInv.
LEMMA ReleaseStep == OrdersTypeOK /\ ReleaseInv /\ [OrdersNext]_allvars => ReleaseInv'
<1> SUFFICES ASSUME OrdersTypeOK, ReleaseInv, [OrdersNext]_allvars,
                    NEW o \in Orders, CancelledOnce(o)'
             PROVE  ReleaseOrder(o)'
  BY DEF ReleaseInv
<1>1. CancelledOnce(o) /\ ReleaseOrder(o)
  BY CancelledOnceBefore DEF ReleaseInv
<1>2. CASE OrderingOnly
  <2>1. CASE \E p \in Orders : Preview(p) \/ CreateOrder(p)
    BY <1>1, <2>1, ReleasePreview
  <2>2. CASE (\E p \in Orders : Announce(p)) \/ OrderingCrash
    BY <1>1, <2>2, ReleaseDie, ReleaseOther DEF OrderingCrash
  <2>3. CASE \E x \in Cancels : Cancel(x)
    BY <1>1, <2>3, ReleaseCancel
  <2>4. QED
    BY <1>1, <1>2, <2>1, <2>2, <2>3, ReleaseOther DEF OrderingOnly, Confirm
<1>3. CASE \E k \in Confirms : CallInventory(k)
  BY <1>1, <1>3, ReleaseOther DEF Confirm
<1>4. QED
  BY <1>1, <1>2, <1>3, ReleaseOther, Split

\* ReleaseStock restores only what is reserved as long as no order is cancelled
\* twice, however its cancellation overlaps with other requests and whatever fails.
THEOREM ReleasedOnce ==
    OrdersSpec => []((\A o \in Orders : CancelledOnce(o)) => ReleasesOnlyReserved)
<1>1. OrdersInit => ReleaseInv
  BY OrdersAssumption DEF OrdersInit, ReleaseInv, ReleaseOrder, Requests
<1>2. OrdersTypeOK /\ ReleaseInv => ((\A o \in Orders : CancelledOnce(o)) => ReleasesOnlyReserved)
  <2> SUFFICES ASSUME OrdersTypeOK, NEW o \in Orders, ReleaseOrder(o)
               PROVE  held[o] >= 0
    BY DEF ReleaseInv, ReleasesOnlyReserved
  <2>1. held[o] \in {0, 1}
    BY DEF ReleaseOrder, OrdersTypeOK
  <2>2. QED
    BY <2>1
<1>3. QED
  BY <1>1, <1>2, ReleaseStep, OrdersTypeCorrect, PTL DEF OrdersSpec

-----------------------------------------------------------------------------
(* SETNX inside of the composition.                                        *)

\* OnceInv holds inside of the composition: a webhook that nobody receives is one
\* more step of its finalizer.
LEMMA OnceInside ==
    OrdersTypeOK /\ FreshInv /\ OnceInv /\ [OrdersNext]_allvars => OnceInv'
<1> SUFFICES ASSUME OrdersTypeOK, FreshInv, OnceInv, [OrdersNext]_allvars
             PROVE  OnceInv'
  OBVIOUS
<1> TypeOK
  BY DEF OrdersTypeOK
<1>1. CASE UNCHANGED vars
  BY <1>1, OnceStep
<1>2. CASE OrderingOnly
  BY <1>1, <1>2, OrderingFrame
<1>3. CASE WorkflowOnly
  BY <1>3, OnceStep DEF WorkflowOnly, Next, Finalize
<1>4. ASSUME NEW k \in Confirms, CallInventory(k)
      PROVE  OnceInv'
  <2>1. on[k] \in Orders
    BY <1>4 DEF CallInventory, OrdersTypeOK, Requests
  <2>2. QED
    BY <1>4, <2>1, OnceDispatch DEF CallInventory
<1>5. ASSUME NEW o \in Orders, NEW s \in Slots, Post(o, s)
      PROVE  OnceInv'
  BY <1>5, OnceFinalizer DEF Post, Finalize
<1>6. ASSUME NEW o \in Orders, NEW s \in Slots, MissPost(o, s)
      PROVE  OnceInv'
  <2>1. /\ stage[o][s] = PostStage(o) /\ PostStage(o) \in Stages /\ PostStage(o) > LoadStage
        /\ stage' = [stage EXCEPT ![o][s] = PostStage(o) + 1]
        /\ UNCHANGED <<effects, dispatches, items, marker, outlived>>
    BY <1>6, StageRange, LinesAssumption DEF MissPost, PostStage, LoadStage, TypeOK
  <2>2. QED
    BY <2>1, OnceAdvance
<1>7. CASE Interrupt
  BY <1>7, OnceFailure DEF Interrupt
<1>8. QED
  BY <1>1, <1>2, <1>3, <1>4, <1>5, <1>6, <1>7, Split

\* Also with ordering in front of it, whatever its clients do and whatever fails,
\* the workflow bills and posts an order at most once that was handed over once.
THEOREM OrdersFinalizedOnce == OrdersSpec => []FinalizedAtMostOnce
<1>1. OrdersInit => OnceInv
  BY OnceInit DEF OrdersInit
<1>2. OnceInv => FinalizedAtMostOnce
  BY DEF OnceInv, Finalizing, FinalizedAtMostOnce
<1>3. QED
  BY <1>1, <1>2, OnceInside, OrdersTypeCorrect, PTL DEF OrdersSpec

\* README.md's guard against duplicate completion actions holds for clients that
\* wait for each answer: their orders are billed once at most, whatever fails.
THEOREM PatientBilledOnce ==
    ASSUME Patient
    PROVE  OrdersSpec => []BilledOnlyOnce
<1>1. DispatchedAtMostOnce /\ FinalizedAtMostOnce => BilledOnlyOnce
  BY StageRange DEF DispatchedAtMostOnce, FinalizedAtMostOnce, Single, BilledOnlyOnce
<1>2. QED
  BY <1>1, DispatchedOnce, OrdersFinalizedOnce, PTL

-----------------------------------------------------------------------------
(* Past the bill.                                                          *)

\* A finalizer that moves to step k leaves Billed, if it was past the bill before or
\* bills now.
LEMMA BilledMove ==
    ASSUME TypeOK, NEW p \in Orders, NEW s \in Slots, NEW k \in Int, NEW j \in Stages,
           stage' = [stage EXCEPT ![p][s] = k],
           effects' = effects \/ effects' = [effects EXCEPT ![p][j] = @ + 1],
           \/ k <= BillStage
           \/ stage[p][s] > BillStage
           \/ j = BillStage /\ effects' = [effects EXCEPT ![p][j] = @ + 1],
           NEW o \in Orders, Billed(o)
    PROVE  Billed(o)'
<1>1. /\ effects[o][BillStage] \in Nat /\ effects'[o][BillStage] \in Nat
      /\ effects'[o][BillStage] >= effects[o][BillStage]
  <2>1. effects[o] \in [Stages -> Nat] /\ BillStage \in Stages
    BY StageRange DEF TypeOK
  <2>2. CASE effects' = effects
    BY <2>1, <2>2
  <2>3. CASE effects' = [effects EXCEPT ![p][j] = @ + 1]
    <3>1. effects'[o] = IF p = o THEN [effects[o] EXCEPT ![j] = @ + 1] ELSE effects[o]
      BY <2>3 DEF TypeOK
    <3>2. QED
      BY <2>1, <3>1
  <2>4. QED
    BY <2>2, <2>3
<1>2. CASE p # o
  <2>1. stage'[o] = stage[o]
    BY <1>2 DEF TypeOK
  <2>2. effects'[o] = effects[o]
    BY <1>2 DEF TypeOK
  <2>3. QED
    BY <2>1, <2>2 DEF Billed
<1>3. CASE p = o
  <2>1. stage'[o][s] = k /\ \A t \in Slots : t # s => stage'[o][t] = stage[o][t]
    BY <1>3 DEF TypeOK
  <2>2. k > BillStage => effects'[o][BillStage] > 0
    <3>1. CASE k <= BillStage
      BY <3>1, StageRange DEF BillStage
    <3>2. CASE stage[p][s] > BillStage
      <4>1. effects[o][BillStage] > 0
        BY <1>3, <3>2 DEF Billed
      <4>2. QED
        BY <1>1, <4>1
    <3>3. CASE j = BillStage /\ effects' = [effects EXCEPT ![p][j] = @ + 1]
      <4>1. effects'[o][BillStage] = effects[o][BillStage] + 1
        BY <1>3, <3>3, StageRange DEF TypeOK
      <4>2. QED
        BY <1>1, <4>1
    <3>4. QED
      BY <3>1, <3>2, <3>3
  <2>3. ASSUME NEW t \in Slots, stage'[o][t] > BillStage
        PROVE  effects'[o][BillStage] > 0
    <3>1. CASE t = s
      BY <2>1, <2>2, <2>3, <3>1
    <3>2. CASE t # s
      <4>1. effects[o][BillStage] > 0
        BY <2>1, <2>3, <3>2 DEF Billed
      <4>2. QED
        BY <1>1, <4>1
    <3>3. QED
      BY <3>1, <3>2
  <2>4. QED
    BY <2>3 DEF Billed
<1>4. QED
  BY <1>2, <1>3

\* Loading moves a finalizer no further than to the bill.
LEMMA LoadMoves ==
    /\ Idle \in Int /\ LoadStage \in Int /\ LoadStage + 1 \in Int
    /\ Idle <= BillStage /\ LoadStage <= BillStage /\ LoadStage + 1 <= BillStage
BY DEF Idle, LoadStage, BillStage

\* The finalizer of a customer order, when no bill fails.
LEMMA BilledFinalizer ==
    ASSUME Faults = {}, TypeOK, NEW p \in Orders, NEW s \in Slots,
           Finalize(p, s) \/ MissPost(p, s),
           NEW o \in Orders, Billed(o)
    PROVE  Billed(o)'
<1>1. p \notin Restocks /\ PostStage(p) = 2 /\ PostStage(p) \in Stages
  BY CustomersAssumption, StageRange DEF PostStage
<1>2. CASE LoadItems(p, s)
  <2>1. PICK k \in {Idle, LoadStage + 1} : stage' = [stage EXCEPT ![p][s] = k]
    BY <1>2 DEF LoadItems, Done
  <2>2. effects' = effects \/ effects' = [effects EXCEPT ![p][LoadStage] = @ + 1]
    BY <1>2 DEF LoadItems, Done
  <2>3. QED
    <3>1. k \in Int /\ k <= BillStage /\ LoadStage \in Stages
      BY LoadMoves, StageRange
    <3>2. QED
      BY <2>1, <2>2, <3>1, BilledMove
<1>3. CASE Bill(p, s)
  <2>1. /\ stage' = [stage EXCEPT ![p][s] = BillStage + 1]
        /\ effects' = [effects EXCEPT ![p][BillStage] = @ + 1]
    BY <1>3 DEF Bill, Done, Skipped
  <2>2. BillStage + 1 \in Int
    BY DEF BillStage
  <2>3. QED
    BY <2>1, <2>2, BilledMove, StageRange
<1>4. CASE PostWebhook(p, s) \/ MissPost(p, s)
  <2>1. /\ stage[p][s] = 2 /\ stage' = [stage EXCEPT ![p][s] = 2 + 1]
        /\ effects' = effects \/ effects' = [effects EXCEPT ![p][2] = @ + 1]
    BY <1>1, <1>4 DEF PostWebhook, MissPost, Done, Skipped, TypeOK
  <2>2. stage[p][s] > BillStage /\ 2 + 1 \in Int /\ 2 \in Stages
    BY <1>1, <2>1 DEF BillStage
  <2>3. QED
    BY <2>1, <2>2, BilledMove
<1>5. CASE DeleteOrderData(p, s)
  <2>1. stage' = [stage EXCEPT ![p][s] = Idle] /\ effects' = effects
    BY <1>5 DEF DeleteOrderData
  <2>2. Idle <= BillStage /\ Idle \in Int
    BY DEF Idle, BillStage
  <2>3. QED
    BY <2>1, <2>2, BilledMove, StageRange
<1>6. QED
  BY <1>1, <1>2, <1>3, <1>4, <1>5 DEF Finalize, UpsertLine, PushMetrics

\* Every step: only a finalizer gets past the bill.
LEMMA BilledStep ==
    ASSUME Faults = {}, OrdersTypeOK, [OrdersNext]_allvars, NEW o \in Orders, Billed(o)
    PROVE  Billed(o)'
<1> TypeOK
  BY DEF OrdersTypeOK
<1>1. CASE UNCHANGED <<stage, effects>>
  BY <1>1 DEF Billed
<1>2. ASSUME NEW r \in Robots, Work(r)
      PROVE  Billed(o)'
  <2>1. CASE Pick(r) \/ CountReport(r)
    BY <1>1, <2>1 DEF Pick, CountReport
  <2>2. CASE ClaimOrder(r)
    <3>1. effects' = effects /\ job[r] \in Orders
      BY <2>2 DEF ClaimOrder, TypeOK
    <3>2. stage' = stage \/ \E s \in Slots : stage' = [stage EXCEPT ![job[r]][s] = LoadStage]
      BY <2>2 DEF ClaimOrder
    <3>3. LoadStage <= BillStage /\ LoadStage \in Int
      BY DEF LoadStage, BillStage
    <3>4. QED
      BY <1>1, <3>1, <3>2, <3>3, BilledMove, StageRange
  <2>3. QED
    BY <1>2, <2>1, <2>2 DEF Work
<1>3. CASE WorkflowOnly
  <2>1. CASE \E p \in Orders, s \in Slots : Finalize(p, s)
    BY <2>1, BilledFinalizer
  <2>2. CASE \E p \in Orders : Broadcast(p) \/ ExpireItems(p) \/ ExpireMarker(p)
    BY <1>1, <2>2 DEF Broadcast, ExpireItems, ExpireMarker
  <2>3. QED
    BY <1>1, <1>2, <1>3, <2>1, <2>2
    DEF WorkflowOnly, Finalize, LoseReport, FailClaim, RobotCrash, RedisRestart
<1>4. CASE OrderingOnly
  BY <1>1, <1>4, OrderingFrame
<1>5. CASE \E k \in Confirms : CallInventory(k)
  BY <1>1, <1>5 DEF CallInventory, SaveItems
<1>6. CASE \E p \in Orders, s \in Slots : Post(p, s) \/ MissPost(p, s)
  BY <1>6, BilledFinalizer DEF Post, Finalize
<1>7. CASE UNCHANGED allvars
  BY <1>1, <1>7
<1>8. ~Interrupt
  BY DEF Interrupt, InventoryCrash
<1>9. QED
  BY <1>3, <1>4, <1>5, <1>6, <1>7, <1>8, Split

-----------------------------------------------------------------------------
(* Orders of patient clients, while nothing fails: one order, or several   *)
(* that nobody cancels.                                                    *)

\* The steps of ordering's handlers about o, and of its goroutine if no other order
\* dies with it.
Handles(o) ==
    \/ Preview(o) \/ CreateOrder(o)
    \/ Announce(o) /\ (row[o] # "absent" \/ \A p \in Orders : p = o)
    \/ \E k \in Confirms :
          \/ StartConfirm(k, o)
          \/ on[k] = o /\ (ReadItems(k) \/ SetProcessing(k) \/ FailConfirm(k) \/ FailCall(k)
                            \/ Reply(k) \/ FailDispatch(k))
    \/ \E x \in Cancels : StartCancel(x, o) \/ (on[x] = o /\ Cancel(x))

\* With those it takes together with the workflow.
Touches(o) ==
    \/ Handles(o)
    \/ \E k \in Confirms : on[k] = o /\ CallInventory(k)
    \/ \E s \in Slots : Post(o, s)

\* The steps that ordering's data and requests do not see.
Unseen ==
    /\ UNCHANGED <<row, preview, held, at, on, announcing>>
    /\ \/ WorkflowOnly
       \/ \E o \in Orders, s \in Slots : MissPost(o, s)
       \/ Restart /\ UNCHANGED vars
       \/ UNCHANGED allvars

\* What a step about another order leaves of o.
Untouched(o) ==
    /\ row'[o] = row[o] /\ preview'[o] = preview[o]
    /\ held'[o] = held[o] /\ announcing'[o] = announcing[o]
    /\ \A h \in Requests : on'[h] = o => on[h] = o /\ at'[h] = at[h]
    /\ \A h \in Requests : on[h] = o /\ ~Ended(h) => on'[h] = o /\ at'[h] = at[h]
    /\ ~up' => ~up

\* A request that begins is about one order.
LEMMA AskElsewhere ==
    ASSUME OrdersTypeOK, NEW p \in Orders, NEW h \in Requests, Ask(h, p),
           NEW step, Goto(h, step), NEW o \in Orders, o # p
    PROVE  Untouched(o)
<1>1. /\ UNCHANGED <<row, preview, held, announcing, up>>
      /\ at[h] = "new" /\ on'[h] = p
      /\ \A g \in Requests : g # h => at'[g] = at[g] /\ on'[g] = on[g]
  BY DEF Ask, Goto, OrdersTypeOK
<1>2. QED
  BY <1>1 DEF Untouched, Ended

\* So is one that goes on.
LEMMA HandlerElsewhere ==
    ASSUME OrdersTypeOK, NEW h \in Requests, on' = on, NEW step, Goto(h, step),
           NEW o \in Orders, o # on[h],
           row'[o] = row[o], preview'[o] = preview[o], held'[o] = held[o],
           announcing'[o] = announcing[o], up' = up
    PROVE  Untouched(o)
<1>1. \A g \in Requests : g # h => at'[g] = at[g]
  BY DEF Goto, OrdersTypeOK
<1>2. QED
  BY <1>1 DEF Untouched

\* Steps about an order leave the others untouched.
LEMMA Elsewhere ==
    ASSUME OrdersTypeOK, NEW p \in Orders, Touches(p), NEW o \in Orders, o # p
    PROVE  Untouched(o)
<1>1. CASE Preview(p) \/ CreateOrder(p)
  BY <1>1 DEF Preview, CreateOrder, Untouched, OrdersTypeOK
<1>2. CASE Announce(p) /\ row[p] # "absent"
  BY <1>2 DEF Announce, Die, Untouched, OrdersTypeOK
<1>3. ASSUME NEW h \in Requests, Ask(h, p), \E step \in {"items", "over"} : Goto(h, step)
      PROVE  Untouched(o)
  BY <1>3, AskElsewhere
<1>4. ASSUME NEW k \in Confirms, Confirm(k), on[k] = p
      PROVE  Untouched(o)
  <2>1. k \in Requests /\ UNCHANGED <<preview, on, held, announcing, up>>
    BY <1>4 DEF Requests, Confirm, ReadItems, SetProcessing, FailConfirm, CallInventory, FailCall,
       Reply, FailDispatch
  <2>2. \E step \in ConfirmSteps : Goto(k, step)
    BY <1>4 DEF Confirm, ReadItems, SetProcessing, FailConfirm, CallInventory, FailCall,
       Reply, FailDispatch, ConfirmSteps
  <2>3. row'[o] = row[o]
    BY <1>4 DEF Confirm, ReadItems, SetProcessing, FailConfirm, CallInventory, FailCall,
       Reply, FailDispatch, SetStatus, OrdersTypeOK
  <2>4. QED
    BY <1>4, <2>1, <2>2, <2>3, HandlerElsewhere
<1>5. ASSUME NEW x \in Cancels, Cancel(x), on[x] = p
      PROVE  Untouched(o)
  <2>1. x \in Requests /\ UNCHANGED <<preview, on, announcing, up>>
    BY <1>5 DEF Requests, Cancel, ReadCart, ReleaseCart, DeleteOrder
  <2>2. \E step \in CancelSteps : Goto(x, step)
    BY <1>5 DEF Cancel, ReadCart, ReleaseCart, DeleteOrder, CancelSteps
  <2>3. row'[o] = row[o] /\ held'[o] = held[o]
    BY <1>5 DEF Cancel, ReadCart, ReleaseCart, DeleteOrder, OrdersTypeOK
  <2>4. QED
    BY <1>5, <2>1, <2>2, <2>3, HandlerElsewhere
<1>6. ASSUME NEW s \in Slots, Post(p, s)
      PROVE  Untouched(o)
  <2>1. UNCHANGED <<preview, held, at, on, up>>
    BY <1>6 DEF Post
  <2>2. row'[o] = row[o] /\ announcing'[o] = announcing[o]
    BY <1>6 DEF Post, ReceiveWebhook, SetStatus, OrdersTypeOK
  <2>3. QED
    BY <2>1, <2>2 DEF Untouched
<1>7. CASE \E k \in Confirms : StartConfirm(k, p)
  BY <1>3, <1>7 DEF StartConfirm, Requests
<1>8. CASE \E x \in Cancels : StartCancel(x, p)
  BY <1>3, <1>8 DEF StartCancel, Requests
<1>9. QED
  BY <1>1, <1>2, <1>4, <1>5, <1>6, <1>7, <1>8 DEF Touches, Handles, Confirm

\* Every step is about one order or unseen.
LEMMA QuietSplit ==
    ASSUME QuietOrders, OrdersTypeOK, LifeInv, [OrdersNext]_allvars
    PROVE  Unseen \/ \E o \in Orders : Touches(o)
<1>1. ~OrderingCrash /\ ~Interrupt
  BY DEF QuietOrders, OrderingCrash, Interrupt, InventoryCrash
<1>2. ASSUME NEW o \in Orders, Announce(o)
      PROVE  Touches(o)
  <2>1. ASSUME row[o] = "absent"
        PROVE  \A p \in Orders : p = o
    <3>1. LifeOrder(o)
      BY DEF LifeInv
    <3>2. announcing[o] > 0
      BY <1>2 DEF Announce
    <3>3. Cancels # {}
      BY <2>1, <3>1, <3>2 DEF LifeOrder
    <3>4. QED
      BY <3>3 DEF QuietOrders
  <2>2. QED
    BY <1>2, <2>1 DEF Touches, Handles
<1>3. ASSUME NEW k \in Confirms, Confirm(k)
      PROVE  on[k] \in Orders /\ Touches(on[k])
  <2>1. on[k] \in Orders
    BY <1>3 DEF Confirm, ReadItems, SetProcessing, FailConfirm, CallInventory, FailCall, Reply,
       FailDispatch, Requests, OrdersTypeOK
  <2>2. QED
    BY <1>3, <2>1 DEF Confirm, Touches, Handles
<1>4. ASSUME NEW x \in Cancels, Cancel(x)
      PROVE  on[x] \in Orders /\ Touches(on[x])
  <2>1. on[x] \in Orders
    BY <1>4 DEF Cancel, ReadCart, ReleaseCart, DeleteOrder, Requests, OrdersTypeOK
  <2>2. QED
    BY <1>4, <2>1 DEF Touches, Handles
<1>5. CASE OrderingOnly
  <2>1. \/ \E o \in Orders : Preview(o) \/ CreateOrder(o) \/ Announce(o)
        \/ \E o \in Orders, k \in Confirms : StartConfirm(k, o)
        \/ \E o \in Orders, x \in Cancels : StartCancel(x, o)
        \/ \E k \in Confirms : Confirm(k)
        \/ \E x \in Cancels : Cancel(x)
        \/ Restart
    BY <1>1, <1>5 DEF OrderingOnly, Confirm
  <2>2. CASE Restart
    BY <2>2 DEF Restart, Unseen
  <2>3. ASSUME NEW o \in Orders,
               \/ Preview(o) \/ CreateOrder(o)
               \/ \E k \in Confirms : StartConfirm(k, o)
               \/ \E x \in Cancels : StartCancel(x, o)
        PROVE  Touches(o)
    BY <2>3 DEF Touches, Handles
  <2>4. QED
    BY <1>2, <1>3, <1>4, <2>1, <2>2, <2>3
<1>6. CASE WorkflowOnly \/ (\E o \in Orders, s \in Slots : MissPost(o, s)) \/ UNCHANGED allvars
  BY <1>6 DEF WorkflowOnly, MissPost, Unseen
<1>7. CASE \E o \in Orders, s \in Slots : Post(o, s)
  BY <1>7 DEF Touches
<1>8. CASE \E k \in Confirms : CallInventory(k)
  BY <1>3, <1>8 DEF Confirm
<1>9. QED
  BY <1>1, <1>5, <1>6, <1>7, <1>8, Split

\* What a request that is being handled relies on: its client waits, so its order
\* was created, has its row, and no other cancellation is about to delete it.
LEMMA WhileAsking ==
    ASSUME OrdersTypeOK, NEW o \in Orders, PatientOrder(o), LifeOrder(o),
           NEW h \in Requests, on[h] = o, ~Ended(h)
    PROVE  /\ preview[o] = "created" /\ row[o] # "absent" /\ at[h] # "failing"
           /\ \A g \in Requests : on[g] = o /\ g # h => Ended(g)
           /\ held[o] = IF h \in Cancels /\ at[h] = "delete" THEN 0 ELSE 1
<1>1. preview[o] = "created"
  BY DEF PatientOrder, Unasked
<1>2. row[o] # "absent" /\ at[h] # "failing"
  BY DEF LifeOrder
<1>3. \A g \in Requests : on[g] = o /\ g # h => Ended(g)
  BY DEF PatientOrder, OneAtATime
<1>4. \A x \in Cancels : on[x] = o /\ at[x] = "delete" => x = h
  BY <1>3 DEF Ended, Requests
<1>5. QED
  BY <1>1, <1>2, <1>3, <1>4 DEF LifeOrder

\* What steps that neither answer a preview nor touch the order's stock leave.
LEMMA LifeFrame ==
    ASSUME NEW o \in Orders, LifeOrder(o),
           preview'[o] = preview[o], held'[o] = held[o],
           row'[o] = "absent" <=> row[o] = "absent", row'[o] # "FAILED_DISPATCH",
           announcing'[o] > 0 => announcing[o] > 0 \/ preview[o] = "created",
           \A x \in Cancels : (on'[x] = o /\ at'[x] = "delete") <=> (on[x] = o /\ at[x] = "delete"),
           \A h \in Requests : on'[h] = o /\ ~Ended(h)' => row[o] # "absent" /\ at'[h] # "failing"
    PROVE  LifeOrder(o)'
BY DEF LifeOrder

\* A preview.
LEMMA LifePreview ==
    ASSUME OrderingFaults = {}, OrdersTypeOK, NEW o \in Orders, PatientOrder(o), LifeOrder(o),
           Preview(o) \/ CreateOrder(o)
    PROVE  LifeOrder(o)'
<1>1. /\ UNCHANGED <<at, on, announcing>>
      /\ preview[o] # "created" /\ \A h \in Requests : on'[h] # o
  BY DEF Preview, CreateOrder, PatientOrder, Unasked
<1>2. \A x \in Cancels : on'[x] # o
  BY <1>1 DEF Requests
<1>3. announcing'[o] = 0
  BY <1>1 DEF LifeOrder, OrdersTypeOK
<1>4. CASE Preview(o)
  <2>1. preview[o] = "none" /\ row'[o] = row[o] /\ held[o] = 0
    BY <1>4 DEF Preview, LifeOrder
  <2>2. \/ held'[o] = 1 /\ preview'[o] = "reserved"
        \/ held'[o] = 0 /\ preview'[o] = "refused"
    BY <1>4, <2>1 DEF Preview, OrdersTypeOK
  <2>3. QED
    BY <1>1, <1>2, <1>3, <2>1, <2>2 DEF LifeOrder
<1>5. CASE CreateOrder(o)
  <2>1. preview[o] = "reserved" /\ held'[o] = held[o] /\ preview'[o] = "created" /\ row'[o] = "PENDING"
    BY <1>5 DEF CreateOrder, OrdersTypeOK
  <2>2. QED
    BY <1>1, <1>2, <1>3, <2>1 DEF LifeOrder
<1>6. QED
  BY <1>4, <1>5

\* A request that begins goes on only if it finds the row.
LEMMA LifeAsk ==
    ASSUME OrdersTypeOK, NEW o \in Orders, LifeOrder(o), NEW h \in Requests, Ask(h, o),
           \/ row[o] # "absent" /\ Goto(h, "items")
           \/ Goto(h, "over")
    PROVE  LifeOrder(o)'
<1>1. /\ UNCHANGED <<row, preview, held, announcing>> /\ at[h] = "new" /\ on'[h] = o
      /\ at'[h] = "over" \/ (row[o] # "absent" /\ at'[h] = "items")
      /\ \A g \in Requests : g # h => at'[g] = at[g] /\ on'[g] = on[g]
  BY DEF Ask, Goto, OrdersTypeOK
<1>2. \A x \in Cancels : (on'[x] = o /\ at'[x] = "delete") <=> (on[x] = o /\ at[x] = "delete")
  BY <1>1 DEF Requests
<1>3. \A g \in Requests : on'[g] = o /\ ~Ended(g)' => row[o] # "absent" /\ at'[g] # "failing"
  BY <1>1 DEF Ended, LifeOrder
<1>4. row'[o] # "FAILED_DISPATCH"
  BY <1>1 DEF LifeOrder
<1>5. QED
  BY <1>1, <1>2, <1>3, <1>4, LifeFrame

\* A confirmation, none of whose calls fails.
LEMMA LifeConfirm ==
    ASSUME Faults = {}, OrderingFaults = {}, OrdersTypeOK,
           NEW o \in Orders, PatientOrder(o), LifeOrder(o),
           NEW k \in Confirms, Confirm(k), on[k] = o
    PROVE  LifeOrder(o)'
<1>1. k \in Requests /\ k \notin Cancels /\ ~Ended(k)
  BY CustomersAssumption DEF Requests, Ended, Confirm, ReadItems, SetProcessing, FailConfirm,
     CallInventory, FailCall, Reply, FailDispatch
<1>2. row[o] # "absent" /\ at[k] # "failing"
  BY <1>1, WhileAsking
<1>3. UNCHANGED <<preview, held, on, announcing>> /\ \E t \in ConfirmSteps \ {"failing"} : Goto(k, t)
  BY <1>2 DEF Confirm, ReadItems, SetProcessing, FailConfirm, CallInventory, FailCall, Reply,
     FailDispatch, ConfirmSteps
<1>4. row'[o] \in {row[o], "PROCESSING"}
  BY <1>2 DEF Confirm, ReadItems, SetProcessing, FailConfirm, CallInventory, FailCall, Reply,
     FailDispatch, SetStatus, OrdersTypeOK
<1>5. at'[k] # "failing" /\ \A g \in Requests : g # k => at'[g] = at[g]
  BY <1>1, <1>3 DEF Goto, OrdersTypeOK
<1>6. \A x \in Cancels : (on'[x] = o /\ at'[x] = "delete") <=> (on[x] = o /\ at[x] = "delete")
  BY <1>1, <1>3, <1>5 DEF Requests
<1>7. \A h \in Requests : on'[h] = o /\ ~Ended(h)' => row[o] # "absent" /\ at'[h] # "failing"
  BY <1>2, <1>3, <1>5 DEF LifeOrder, Ended
<1>8. (row'[o] = "absent" <=> row[o] = "absent") /\ row'[o] # "FAILED_DISPATCH"
  BY <1>2, <1>4 DEF LifeOrder
<1>9. QED
  BY <1>3, <1>6, <1>7, <1>8, LifeFrame

\* A cancellation, none of whose calls fails.
LEMMA LifeCancel ==
    ASSUME OrderingFaults = {}, OrdersTypeOK, NEW o \in Orders, PatientOrder(o), LifeOrder(o),
           NEW x \in Cancels, Cancel(x), on[x] = o
    PROVE  /\ LifeOrder(o)'
           /\ \/ at[x] = "items" /\ UNCHANGED <<held, row>>
              \/ at[x] = "release" /\ held' = [held EXCEPT ![o] = @ - 1] /\ UNCHANGED row
              \/ at[x] = "delete" /\ row' = [row EXCEPT ![o] = "absent"] /\ UNCHANGED held
<1>1. x \in Requests /\ ~Ended(x) /\ UNCHANGED <<preview, on, announcing>>
  BY DEF Requests, Ended, Cancel, ReadCart, ReleaseCart, DeleteOrder
<1>2. /\ preview[o] = "created" /\ row[o] # "absent"
      /\ \A g \in Requests : on[g] = o /\ g # x => Ended(g)
      /\ held[o] = IF at[x] = "delete" THEN 0 ELSE 1
  BY <1>1, WhileAsking
<1>3. \A g \in Requests : g # x => at'[g] = at[g]
  BY DEF Cancel, ReadCart, ReleaseCart, DeleteOrder, Goto, OrdersTypeOK
<1>4. \A g \in Requests : on'[g] = o /\ g # x => Ended(g)'
  BY <1>1, <1>2, <1>3 DEF Ended
<1>5. \A y \in Cancels : on'[y] = o /\ at'[y] = "delete" => y = x
  BY <1>4 DEF Ended, Requests
<1>6. row[o] # "FAILED_DISPATCH"
  BY DEF LifeOrder
<1>7. CASE ReadCart(x)
  <2>1. UNCHANGED <<held, row>> /\ at[x] = "items" /\ at'[x] = "release"
    BY <1>1, <1>2, <1>7 DEF ReadCart, Goto, OrdersTypeOK
  <2>2. QED
    BY <1>1, <1>2, <1>4, <1>5, <1>6, <2>1 DEF LifeOrder
<1>8. CASE ReleaseCart(x)
  <2>1. /\ UNCHANGED row /\ at[x] = "release" /\ at'[x] = "delete"
        /\ held' = [held EXCEPT ![o] = @ - 1] /\ held'[o] = 0
    BY <1>1, <1>2, <1>8 DEF ReleaseCart, Goto, OrdersTypeOK
  <2>2. QED
    BY <1>1, <1>2, <1>4, <1>5, <1>6, <2>1 DEF LifeOrder
<1>9. CASE DeleteOrder(x)
  <2>1. /\ UNCHANGED held /\ at[x] = "delete" /\ at'[x] = "over"
        /\ row' = [row EXCEPT ![o] = "absent"] /\ row'[o] = "absent"
    BY <1>1, <1>9 DEF DeleteOrder, Goto, OrdersTypeOK
  <2>2. \A g \in Requests : on'[g] = o => Ended(g)'
    BY <1>4, <2>1 DEF Ended
  <2>3. QED
    BY <1>1, <1>2, <2>1, <2>2 DEF LifeOrder
<1>10. QED
  BY <1>7, <1>8, <1>9 DEF Cancel

\* The goroutine of the webhook dies only when no request is under way.
LEMMA LifeAnnounce ==
    ASSUME OrdersTypeOK, NEW o \in Orders, row[o] # "absent" \/ \A p \in Orders : p = o,
           PatientOrder(o), LifeOrder(o), Announce(o)
    PROVE  LifeOrder(o)' /\ preview'[o] = preview[o]
<1>1. UNCHANGED <<on, row, held>>
  BY DEF Announce, Die
<1>2. preview[o] = "created" /\ preview'[o] = preview[o]
  BY DEF Announce, Die, LifeOrder
<1>3. at' = at \/ (row[o] = "absent" /\ Die)
  BY DEF Announce
<1>4. \A h \in Requests : at'[h] = at[h]
  <2>1. CASE row[o] = "absent" /\ Die
    <3>1. \A h \in Requests : Ended(h)
      BY <2>1 DEF LifeOrder, OrdersTypeOK, Ended
    <3>2. QED
      BY <2>1, <3>1 DEF Die
  <2>2. QED
    BY <1>3, <2>1
<1>5. \A x \in Cancels : (on'[x] = o /\ at'[x] = "delete") <=> (on[x] = o /\ at[x] = "delete")
  BY <1>1, <1>4 DEF Requests
<1>6. \A h \in Requests : on'[h] = o /\ ~Ended(h)' => row[o] # "absent" /\ at'[h] # "failing"
  BY <1>1, <1>4 DEF LifeOrder, Ended
<1>7. row'[o] # "FAILED_DISPATCH"
  BY <1>1 DEF LifeOrder
<1>8. QED
  BY <1>1, <1>2, <1>5, <1>6, <1>7, LifeFrame

\* The webhook.
LEMMA LifePost ==
    ASSUME OrdersTypeOK, NEW o \in Orders, PatientOrder(o), LifeOrder(o), NEW s \in Slots,
           Post(o, s)
    PROVE  LifeOrder(o)'
<1>1. UNCHANGED <<preview, held, at, on>>
  BY DEF Post
<1>2. /\ row'[o] = row[o] \/ (row[o] # "absent" /\ row'[o] = "COMPLETED")
      /\ announcing' = announcing \/ row[o] # "absent"
  BY DEF Post, ReceiveWebhook, SetStatus, OrdersTypeOK
<1>3. row[o] # "absent" => preview[o] = "created"
  BY DEF PatientOrder, Unasked, LifeOrder
<1>4. announcing'[o] > 0 => announcing[o] > 0 \/ preview[o] = "created"
  BY <1>2, <1>3
<1>5. row'[o] # "FAILED_DISPATCH"
  BY <1>2 DEF LifeOrder
<1>6. \A h \in Requests : on'[h] = o /\ ~Ended(h)' => row[o] # "absent" /\ at'[h] # "failing"
  BY <1>1 DEF LifeOrder, Ended
<1>7. QED
  BY <1>1, <1>2, <1>4, <1>5, <1>6, LifeFrame

\* Steps about other orders.
LEMMA LifeElsewhere ==
    ASSUME NEW o \in Orders, LifeOrder(o), Untouched(o)
    PROVE  LifeOrder(o)'
<1>1. \A x \in Cancels : (on'[x] = o /\ at'[x] = "delete") <=> (on[x] = o /\ at[x] = "delete")
  BY DEF Untouched, Ended, Requests
<1>2. \A h \in Requests : on'[h] = o /\ ~Ended(h)' => row[o] # "absent" /\ at'[h] # "failing"
  BY DEF Untouched, LifeOrder, Ended
<1>3. row'[o] # "FAILED_DISPATCH" /\ (row'[o] = "absent" <=> row[o] = "absent")
  BY DEF Untouched, LifeOrder
<1>4. QED
  BY <1>1, <1>2, <1>3, LifeFrame DEF Untouched

\* Every step keeps LifeInv.
LEMMA LifeStep ==
    OrdersTypeOK /\ PatientInv /\ LifeInv /\ [OrdersNext]_allvars => LifeInv'
<1> SUFFICES ASSUME OrdersTypeOK, PatientInv, LifeInv, [OrdersNext]_allvars,
                    QuietOrders, NEW o \in Orders
             PROVE  LifeOrder(o)' /\ Billed(o)'
  BY DEF LifeInv, QuietOrders
<1>1. /\ Faults = {} /\ OrderingFaults = {}
      /\ PatientOrder(o) /\ LifeOrder(o) /\ Billed(o)
  BY DEF QuietOrders, LifeInv, PatientInv
<1>2. SUFFICES LifeOrder(o)'
  BY <1>1, BilledStep
<1>3. CASE Unseen
  <2>1. UNCHANGED <<row, preview, held, at, on, announcing>>
    BY <1>3 DEF Unseen
  <2>2. \A h \in Requests : on'[h] = o /\ ~Ended(h)' => row[o] # "absent" /\ at'[h] # "failing"
    BY <1>1, <2>1 DEF LifeOrder, Ended
  <2>3. row'[o] # "FAILED_DISPATCH"
    BY <1>1, <2>1 DEF LifeOrder
  <2>4. QED
    BY <1>1, <2>1, <2>2, <2>3, LifeFrame
<1>4. ASSUME NEW p \in Orders, p # o, Touches(p)
      PROVE  LifeOrder(o)'
  BY <1>1, <1>4, Elsewhere, LifeElsewhere
<1>5. CASE Touches(o)
  <2>1. CASE Preview(o) \/ CreateOrder(o)
    BY <1>1, <2>1, LifePreview
  <2>2. CASE Announce(o) /\ (row[o] # "absent" \/ \A p \in Orders : p = o)
    BY <1>1, <2>2, LifeAnnounce
  <2>3. CASE \E k \in Confirms : StartConfirm(k, o)
    BY <1>1, <2>3, LifeAsk DEF StartConfirm, Requests
  <2>4. CASE \E x \in Cancels : StartCancel(x, o)
    BY <1>1, <2>4, LifeAsk DEF StartCancel, Requests
  <2>5. CASE \E k \in Confirms : on[k] = o /\ Confirm(k)
    BY <1>1, <2>5, LifeConfirm
  <2>6. CASE \E x \in Cancels : on[x] = o /\ Cancel(x)
    BY <1>1, <2>6, LifeCancel
  <2>7. CASE \E s \in Slots : Post(o, s)
    BY <1>1, <2>7, LifePost
  <2>8. QED
    BY <1>5, <2>1, <2>2, <2>3, <2>4, <2>5, <2>6, <2>7 DEF Touches, Handles, Confirm
<1>6. QED
  BY <1>3, <1>4, <1>5, QuietSplit

-----------------------------------------------------------------------------
(* The composition implements OrderLifecycle.                              *)

\* Steps that show nothing stutter.
LEMMA LifeStutter ==
    ASSUME \A o \in Orders : ShownStatus(o)' = ShownStatus(o) /\ effects'[o][BillStage] = effects[o][BillStage],
           held' = held, dispatches' = dispatches
    PROVE  UNCHANGED Lifecycle!vars
BY DEF Lifecycle!vars

\* What a status shows, by cases.
LEMMA ShownValues ==
    ASSUME OrdersTypeOK, NEW o \in Orders
    PROVE  /\ preview[o] \in {"none", "refused"} => ShownStatus(o) = "none"
           /\ preview[o] = "reserved" => ShownStatus(o) = "reserved"
           /\ preview[o] = "created" =>
                 ShownStatus(o) = IF row[o] = "absent" THEN "gone" ELSE row[o]
BY DEF ShownStatus, OrdersTypeOK, Statuses

\* The same of the next state.
LEMMA ShownValuesNext ==
    ASSUME OrdersTypeOK', NEW o \in Orders
    PROVE  /\ preview'[o] \in {"none", "refused"} => ShownStatus(o)' = "none"
           /\ preview'[o] = "reserved" => ShownStatus(o)' = "reserved"
           /\ preview'[o] = "created" =>
                 ShownStatus(o)' = IF row'[o] = "absent" THEN "gone" ELSE row'[o]
BY DEF ShownStatus, OrdersTypeOK, Statuses

\* One order shows another status.
LEMMA ShownTurn ==
    ASSUME NEW o \in Orders, \A q \in Orders : q # o => ShownStatus(q)' = ShownStatus(q),
           NEW before, NEW after,
           ShownStatus(o) = before, ShownStatus(o)' = after
    PROVE  Lifecycle!Turn(o, before, after)
BY DEF Lifecycle!Turn

\* A preview reserves or is refused; then the order is created.
LEMMA PreviewRefines ==
    ASSUME OrderingFaults = {}, OrdersTypeOK, OrdersTypeOK',
           NEW o \in Orders, \A q \in Orders : q # o => ShownStatus(q)' = ShownStatus(q),
           LifeOrder(o), Preview(o) \/ CreateOrder(o)
    PROVE  Lifecycle!Next \/ UNCHANGED Lifecycle!vars
<1>1. UNCHANGED <<dispatches, effects>>
  BY DEF Preview, CreateOrder
<1>2. CASE CreateOrder(o)
  <2>1. preview[o] = "reserved" /\ preview'[o] = "created" /\ row'[o] = "PENDING" /\ held' = held
    BY <1>2 DEF CreateOrder, OrdersTypeOK
  <2>2. ShownStatus(o) = "reserved" /\ ShownStatus(o)' = "PENDING"
    BY <2>1, ShownValues, ShownValuesNext
  <2>3. Lifecycle!Create(o)
    BY <1>1, <2>1, <2>2, ShownTurn DEF Lifecycle!Create
  <2>4. QED
    BY <2>3 DEF Lifecycle!Next
<1>3. CASE Preview(o)
  <2>1. preview[o] = "none" /\ held[o] = 0
    BY <1>3 DEF Preview, LifeOrder
  <2>2. \/ held' = [held EXCEPT ![o] = 1] /\ preview'[o] = "reserved"
        \/ held' = held /\ preview'[o] = "refused"
    BY <1>3, <2>1 DEF Preview, OrdersTypeOK
  <2>3. CASE preview'[o] = "refused"
    <3>1. ShownStatus(o) = "none" /\ ShownStatus(o)' = "none" /\ held' = held
      BY <2>1, <2>2, <2>3, ShownValues, ShownValuesNext
    <3>2. QED
      BY <1>1, <3>1, LifeStutter
  <2>4. CASE preview'[o] = "reserved"
    <3>1. ShownStatus(o) = "none" /\ ShownStatus(o)' = "reserved" /\ held' = [held EXCEPT ![o] = 1]
      BY <2>1, <2>2, <2>4, ShownValues, ShownValuesNext
    <3>2. Lifecycle!Reserve(o)
      BY <1>1, <3>1, ShownTurn DEF Lifecycle!Reserve
    <3>3. QED
      BY <3>2 DEF Lifecycle!Next
  <2>5. QED
    BY <2>2, <2>3, <2>4
<1>4. QED
  BY <1>2, <1>3

\* A confirmation turns a PENDING order whose stock is held, and hands it over once.
LEMMA ConfirmRefines ==
    ASSUME OrdersTypeOK, OrdersTypeOK',
           NEW o \in Orders, \A q \in Orders : q # o => ShownStatus(q)' = ShownStatus(q),
           PatientOrder(o), LifeOrder(o), LifeOrder(o)',
           NEW k \in Confirms, Confirm(k), on[k] = o
    PROVE  Lifecycle!Next \/ UNCHANGED Lifecycle!vars
<1>1. k \in Requests /\ k \notin Cancels /\ ~Ended(k)
  BY CustomersAssumption DEF Requests, Ended, Confirm, ReadItems, SetProcessing, FailConfirm,
     CallInventory, FailCall, Reply, FailDispatch
<1>2. preview[o] = "created" /\ row[o] # "absent" /\ held[o] = 1 /\ at[k] # "failing"
  BY <1>1, WhileAsking
<1>3. Informed(o, k)
  BY DEF PatientOrder
<1>4. UNCHANGED <<preview, held, effects>>
  BY DEF Confirm, ReadItems, SetProcessing, FailConfirm, CallInventory, FailCall, Reply,
     FailDispatch, SaveItems
<1>5. ShownStatus(o) = row[o] /\ (row'[o] # "absent" => ShownStatus(o)' = row'[o])
  BY <1>2, <1>4, ShownValues, ShownValuesNext
<1>6. CASE UNCHANGED <<row, dispatches>>
  <2>1. ShownStatus(o)' = ShownStatus(o)
    BY <1>2, <1>5, <1>6
  <2>2. QED
    BY <1>4, <1>6, <2>1, LifeStutter
<1>7. CASE at[k] = "processing" /\ SetStatus(o, "PROCESSING") /\ UNCHANGED dispatches
  <2>1. row[o] = "PENDING" /\ row'[o] = "PROCESSING"
    BY <1>2, <1>3, <1>7 DEF Informed, SetStatus, OrdersTypeOK
  <2>2. Lifecycle!Turn(o, "PENDING", "PROCESSING")
    BY <1>5, <2>1, ShownTurn
  <2>3. Lifecycle!Confirm(o)
    BY <1>2, <1>4, <1>7, <2>2 DEF Lifecycle!Confirm
  <2>4. QED
    BY <2>3 DEF Lifecycle!Next
<1>8. CASE CallInventory(k)
  <2>1. row' = row /\ at[k] = "call" /\ dispatches' = [dispatches EXCEPT ![o] = @ + 1]
    BY <1>8 DEF CallInventory, SaveItems
  <2>2. row[o] = "PROCESSING" /\ dispatches[o] = 0
    BY <1>2, <1>3, <2>1 DEF Informed
  <2>3. ShownStatus(o) = "PROCESSING" /\ ShownStatus(o)' = ShownStatus(o)
    BY <1>5, <2>1, <2>2
  <2>4. [p \in Orders |-> ShownStatus(p)]' = [p \in Orders |-> ShownStatus(p)]
    BY <2>3
  <2>5. Lifecycle!Dispatch(o)
    BY <1>2, <1>4, <2>1, <2>2, <2>3, <2>4 DEF Lifecycle!Dispatch
  <2>6. QED
    BY <2>5 DEF Lifecycle!Next
<1>9. QED
  BY <1>2, <1>6, <1>7, <1>8 DEF Confirm, ReadItems, SetProcessing, FailConfirm, FailCall, Reply,
     FailDispatch

\* A cancellation releases the stock of an open order, then deletes it.
LEMMA CancelRefines ==
    ASSUME OrderingFaults = {}, OrdersTypeOK, OrdersTypeOK',
           NEW o \in Orders, \A q \in Orders : q # o => ShownStatus(q)' = ShownStatus(q),
           PatientOrder(o), LifeOrder(o), NEW x \in Cancels, Cancel(x), on[x] = o
    PROVE  Lifecycle!Next \/ UNCHANGED Lifecycle!vars
<1>1. x \in Requests /\ ~Ended(x) /\ UNCHANGED <<preview, dispatches, effects>>
  BY DEF Requests, Ended, Cancel, ReadCart, ReleaseCart, DeleteOrder
<1>2. /\ preview[o] = "created" /\ row[o] # "absent"
      /\ held[o] = IF at[x] = "delete" THEN 0 ELSE 1
  BY <1>1, WhileAsking
<1>3. \/ at[x] = "items" /\ UNCHANGED <<held, row>>
      \/ at[x] = "release" /\ held' = [held EXCEPT ![o] = @ - 1] /\ UNCHANGED row
      \/ at[x] = "delete" /\ row' = [row EXCEPT ![o] = "absent"] /\ UNCHANGED held
  BY LifeCancel
<1>4. ShownStatus(o) = row[o] /\ row[o] \in Lifecycle!Open
  BY <1>2, ShownValues DEF Lifecycle!Open, LifeOrder, OrdersTypeOK, Statuses
<1>5. CASE UNCHANGED row
  <2>1. ShownStatus(o)' = ShownStatus(o)
    BY <1>1, <1>2, <1>4, <1>5, ShownValuesNext
  <2>2. CASE at[x] = "items"
    BY <1>1, <1>3, <2>1, <2>2, LifeStutter
  <2>3. CASE at[x] = "release"
    <3>1. held[o] = 1 /\ held' = [held EXCEPT ![o] = 0]
      BY <1>2, <1>3, <2>3
    <3>2. [p \in Orders |-> ShownStatus(p)]' = [p \in Orders |-> ShownStatus(p)]
      BY <2>1
    <3>3. Lifecycle!Release(o)
      BY <1>1, <1>4, <3>1, <3>2 DEF Lifecycle!Release
    <3>4. QED
      BY <3>3 DEF Lifecycle!Next
  <2>4. CASE at[x] = "delete"
    BY <1>2, <1>3, <1>5, <2>4 DEF OrdersTypeOK
  <2>5. QED
    BY <1>3, <2>2, <2>3, <2>4
<1>6. CASE at[x] = "delete" /\ row' = [row EXCEPT ![o] = "absent"] /\ UNCHANGED held
  <2>1. row'[o] = "absent" /\ held[o] = 0
    BY <1>2, <1>6 DEF OrdersTypeOK
  <2>2. ShownStatus(o)' = "gone"
    BY <1>1, <1>2, <2>1, ShownValuesNext
  <2>3. Lifecycle!Delete(o)
    BY <1>1, <1>4, <1>6, <2>1, <2>2 DEF Lifecycle!Delete
  <2>4. QED
    BY <2>3 DEF Lifecycle!Next
<1>7. QED
  BY <1>3, <1>5, <1>6

\* The bill comes once, after the hand-over.
LEMMA BillRefines ==
    ASSUME Faults = {}, OrdersTypeOK, FreshInv, OnceInv, NEW o \in Orders, PatientOrder(o),
           NEW s \in Slots, Bill(o, s), UNCHANGED ordering
    PROVE  Lifecycle!Next
<1>1. /\ stage[o][s] = BillStage /\ UNCHANGED <<dispatches, held>>
      /\ effects' = [effects EXCEPT ![o][BillStage] = @ + 1]
  BY DEF Bill, Done, Skipped
<1>2. dispatches[o] = 1
  <2>1. dispatches[o] # 0
    BY <1>1 DEF FreshInv, Fresh, Active, BillStage, Idle
  <2>2. QED
    BY <2>1 DEF PatientOrder, Recorded, OrdersTypeOK, TypeOK
<1>3. effects[o][BillStage] = 0
  BY <1>1, <1>2, StageRange DEF OnceInv, Single, Finalizing, BillStage, LoadStage
<1>4. [p \in Orders |-> effects[p][BillStage]]'
        = [[p \in Orders |-> effects[p][BillStage]] EXCEPT ![o] = 1]
  <2>1. /\ effects'[o][BillStage] = 1
        /\ \A p \in Orders : p # o => effects'[p] = effects[p]
    BY <1>1, <1>3, StageRange DEF OrdersTypeOK, TypeOK
  <2>2. QED
    BY <2>1
<1>5. [p \in Orders |-> ShownStatus(p)]' = [p \in Orders |-> ShownStatus(p)]
  BY DEF ShownStatus
<1>6. Lifecycle!Bill(o)
  BY <1>1, <1>2, <1>3, <1>4, <1>5 DEF Lifecycle!Bill
<1>7. QED
  BY <1>6 DEF Lifecycle!Next

\* The webhook completes a billed order that was being processed.
LEMMA PostRefines ==
    ASSUME OrderingFaults = {}, OrdersTypeOK, OrdersTypeOK', FreshInv, OnceInv, PatientInv,
           NEW o \in Orders, \A q \in Orders : q # o => ShownStatus(q)' = ShownStatus(q),
           LifeOrder(o), Billed(o), NEW s \in Slots, Post(o, s)
    PROVE  Lifecycle!Next \/ UNCHANGED Lifecycle!vars
<1>1. dispatches[o] > 0 /\ PatientOrder(o)
  BY PatientPost DEF PatientInv
<1>2. UNCHANGED <<preview, held, dispatches>> /\ stage[o][s] = 2
  BY CustomersAssumption DEF Post, PostWebhook, PostStage
<1>3. /\ effects[o][BillStage] = 1
      /\ \A p \in Orders : effects'[p][BillStage] = effects[p][BillStage]
  <2>1. effects[o][BillStage] > 0
    BY <1>2 DEF Billed, BillStage
  <2>2. effects[o][BillStage] <= 1
    BY <1>1, StageRange DEF OnceInv, Single, Finalizing, PatientOrder, Recorded
  <2>3. \A p \in Orders : effects'[p][BillStage] = effects[p][BillStage]
    <3>1. PostStage(o) # BillStage /\ PostStage(o) \in Stages /\ BillStage \in Stages
      BY CustomersAssumption, StageRange DEF PostStage, BillStage
    <3>2. effects' = effects \/ effects' = [effects EXCEPT ![o][PostStage(o)] = @ + 1]
      BY DEF Post, PostWebhook, Done, Skipped
    <3>3. effects \in [Orders -> [Stages -> Nat]]
      BY DEF OrdersTypeOK, TypeOK
    <3>4. QED
      BY <3>1, <3>2, <3>3
  <2>4. effects[o][BillStage] \in Nat
    BY StageRange DEF OrdersTypeOK, TypeOK
  <2>5. QED
    BY <2>1, <2>2, <2>3, <2>4
<1>4. row'[o] = row[o] \/ (row[o] # "absent" /\ row'[o] = "COMPLETED")
  BY DEF Post, ReceiveWebhook, SetStatus, OrdersTypeOK
<1>5. CASE row'[o] = row[o]
  <2>1. ShownStatus(o)' = ShownStatus(o)
    BY <1>2, <1>5 DEF ShownStatus
  <2>2. QED
    BY <1>2, <1>3, <2>1, LifeStutter
<1>6. CASE row[o] # "absent" /\ row'[o] = "COMPLETED" /\ row'[o] # row[o]
  <2>1. row[o] = "PROCESSING" /\ preview[o] = "created"
    BY <1>1, <1>6 DEF PatientOrder, Recorded, Unasked, LifeOrder, OrdersTypeOK, Statuses
  <2>2. Lifecycle!Turn(o, "PROCESSING", "COMPLETED")
    BY <1>2, <1>6, <2>1, ShownValues, ShownValuesNext, ShownTurn
  <2>3. [p \in Orders |-> effects[p][BillStage]]' = [p \in Orders |-> effects[p][BillStage]]
    BY <1>3
  <2>4. Lifecycle!Complete(o)
    BY <1>2, <1>3, <2>2, <2>3 DEF Lifecycle!Complete
  <2>5. QED
    BY <2>4 DEF Lifecycle!Next
<1>7. QED
  BY <1>4, <1>5, <1>6

\* Every step of the composition is a step of OrderLifecycle or shows nothing.
LEMMA LifeRefStep ==
    ASSUME QuietOrders
    PROVE  /\ OrdersTypeOK /\ FreshInv /\ OnceInv /\ PatientInv /\ LifeInv
           /\ OrdersTypeOK' /\ LifeInv' /\ [OrdersNext]_allvars
           => [Lifecycle!Next]_(Lifecycle!vars)
<1> SUFFICES ASSUME OrdersTypeOK, FreshInv, OnceInv, PatientInv, LifeInv,
                    OrdersTypeOK', LifeInv', [OrdersNext]_allvars
             PROVE  Lifecycle!Next \/ UNCHANGED Lifecycle!vars
  OBVIOUS
<1>1. /\ Faults = {} /\ OrderingFaults = {}
      /\ \A o \in Orders : PatientOrder(o) /\ LifeOrder(o) /\ Billed(o) /\ LifeOrder(o)'
  BY DEF QuietOrders, LifeInv, PatientInv
<1>2. CASE UNCHANGED <<row, preview, held, dispatches, effects>>
  <2>1. \A o \in Orders : ShownStatus(o)' = ShownStatus(o)
    BY <1>2 DEF ShownStatus
  <2>2. QED
    BY <1>2, <2>1, LifeStutter
<1>3. ASSUME NEW o \in Orders, Touches(o)
      PROVE  Lifecycle!Next \/ UNCHANGED Lifecycle!vars
  <2>1. \A q \in Orders : q # o => ShownStatus(q)' = ShownStatus(q)
    BY <1>3, Elsewhere DEF Untouched, ShownStatus
  <2>2. CASE Preview(o) \/ CreateOrder(o)
    BY <1>1, <2>1, <2>2, PreviewRefines
  <2>3. CASE Announce(o) /\ (row[o] # "absent" \/ \A p \in Orders : p = o)
    <3>1. UNCHANGED <<row, held, dispatches, effects>>
      BY <2>3 DEF Announce, Die
    <3>2. preview'[o] = preview[o]
      BY <1>1, <2>3, LifeAnnounce
    <3>3. ShownStatus(o)' = ShownStatus(o)
      BY <3>1, <3>2 DEF ShownStatus
    <3>4. QED
      BY <2>1, <3>1, <3>3, LifeStutter
  <2>4. CASE (\E k \in Confirms : StartConfirm(k, o)) \/ (\E x \in Cancels : StartCancel(x, o))
    BY <1>2, <2>4 DEF StartConfirm, StartCancel, Ask
  <2>5. CASE \E k \in Confirms : on[k] = o /\ Confirm(k)
    BY <1>1, <2>1, <2>5, ConfirmRefines
  <2>6. CASE \E x \in Cancels : on[x] = o /\ Cancel(x)
    BY <1>1, <2>1, <2>6, CancelRefines
  <2>7. CASE \E s \in Slots : Post(o, s)
    BY <1>1, <2>1, <2>7, PostRefines
  <2>8. QED
    BY <1>3, <2>2, <2>3, <2>4, <2>5, <2>6, <2>7 DEF Touches, Handles, Confirm
<1>4. CASE WorkflowOnly
  <2>1. CASE \E p \in Orders, s \in Slots : Bill(p, s)
    BY <1>1, <1>4, <2>1, BillRefines DEF WorkflowOnly
  <2>2. CASE ~\E p \in Orders, s \in Slots : Bill(p, s)
    <3>1. UNCHANGED <<row, preview, held>>
      BY <1>4 DEF WorkflowOnly
    <3>2. UNCHANGED dispatches
      BY <1>4, <2>2 DEF WorkflowOnly, LoadItems, DeleteOrderData, Broadcast, ExpireItems,
         ExpireMarker, Work, Pick, CountReport, ClaimOrder, LoseReport, FailClaim, RobotCrash,
         RedisRestart
    <3>3. \/ effects' = effects
          \/ \E p \in Orders : effects' = [effects EXCEPT ![p][LoadStage] = @ + 1]
      BY <1>4, <2>2 DEF WorkflowOnly, LoadItems, Done, DeleteOrderData, Broadcast, ExpireItems,
         ExpireMarker, Work, Pick, CountReport, ClaimOrder, LoseReport, FailClaim, RobotCrash,
         RedisRestart
    <3>4. \A o \in Orders : effects'[o][BillStage] = effects[o][BillStage]
      <4>1. effects \in [Orders -> [Stages -> Nat]] /\ LoadStage # BillStage
        BY DEF OrdersTypeOK, TypeOK, LoadStage, BillStage
      <4>2. QED
        BY <3>3, <4>1, StageRange
    <3>5. \A o \in Orders : ShownStatus(o)' = ShownStatus(o)
      BY <3>1 DEF ShownStatus
    <3>6. QED
      BY <3>1, <3>2, <3>4, <3>5, LifeStutter
  <2>3. QED
    BY <2>1, <2>2
<1>5. CASE Unseen
  <2>1. CASE \/ \E o \in Orders, s \in Slots : MissPost(o, s)
             \/ Restart /\ UNCHANGED vars
             \/ UNCHANGED allvars
    BY <1>2, <1>5, <2>1 DEF MissPost, Unseen
  <2>2. QED
    BY <1>4, <1>5, <2>1 DEF Unseen
<1>6. QED
  BY <1>3, <1>5, QuietSplit

\* An order of a patient client, or several that nobody cancels, while nothing fails:
\* the four handlers, the robots and the finalizers, each with its own commits, keep to
\* the life of an order that the two services promise, for any number of requests,
\* robots and goroutines.
THEOREM LifecycleImplemented ==
    ASSUME QuietOrders
    PROVE  OrdersSpec => ImplementsLifecycle
<1>1. OrdersInit => Lifecycle!Init
  BY StageRange DEF OrdersInit, Init, Lifecycle!Init, ShownStatus
<1>2. OrdersInit => OnceInv /\ LifeInv
  <2>1. OrdersInit => LifeInv
    BY OrdersAssumption DEF OrdersInit, Init, LifeInv, LifeOrder, Billed, Ended, BillStage, Idle
  <2>2. QED
    BY <2>1, OnceInit DEF OrdersInit
<1>3. /\ OrdersTypeOK /\ FreshInv /\ OnceInv /\ PatientInv /\ LifeInv
      /\ OrdersTypeOK' /\ LifeInv' /\ [OrdersNext]_allvars
      => [Lifecycle!Next]_(Lifecycle!vars)
  BY LifeRefStep
<1>4. OrdersSpec => []PatientInv
  BY PatientInvariant DEF QuietOrders
<1>5. QED
  BY <1>1, <1>2, <1>3, <1>4, OnceInside, LifeStep, OrdersTypeCorrect, PTL
  DEF OrdersSpec, ImplementsLifecycle, Lifecycle!Spec

-----------------------------------------------------------------------------
(* Nobody is stranded.                                                     *)

\* Seen from the workflow, a step of the composition is one of its own steps or a
\* webhook that nobody receives.
LEMMA InsideStep ==
    ASSUME OrdersTypeOK, [OrdersNext]_allvars
    PROVE  [Next]_vars \/ \E o \in Orders, s \in Slots : MissPost(o, s)
<1>1. CASE OrderingOnly
  BY <1>1, OrderingFrame
<1>2. CASE WorkflowOnly
  BY <1>2 DEF WorkflowOnly, Next, Finalize
<1>3. ASSUME NEW k \in Confirms, CallInventory(k)
      PROVE  Next
  <2>1. on[k] \in Orders
    BY <1>3 DEF CallInventory, OrdersTypeOK, Requests
  <2>2. QED
    BY <1>3, <2>1 DEF CallInventory, Next
<1>4. ASSUME NEW o \in Orders, NEW s \in Slots, Post(o, s)
      PROVE  Next
  BY <1>4 DEF Post, Next, Finalize
<1>5. CASE Interrupt
  BY <1>5 DEF Interrupt, Next
<1>6. QED
  BY <1>1, <1>2, <1>3, <1>4, <1>5, Split

\* What such a webhook changes.
LEMMA MissPostMoves ==
    ASSUME OrdersTypeOK, NEW o \in Orders, NEW s \in Slots, MissPost(o, s)
    PROVE  /\ stage[o][s] > LoadStage /\ stage'[o][s] > LoadStage
           /\ \A t \in Slots : t # s => stage'[o][t] = stage[o][t]
           /\ \A p \in Orders : p # o => stage'[p] = stage[p]
           /\ UNCHANGED <<items, marker, count, outlived, dispatches, unsent, inbox, pc, job,
                          effects, picked, reported>>
<1>1. stage' = [stage EXCEPT ![o][s] = @ + 1] /\ stage[o][s] = 2
  BY CustomersAssumption DEF MissPost, PostStage
<1>2. QED
  BY <1>1 DEF MissPost, LoadStage, OrdersTypeOK, TypeOK

\* It counts nothing and leaves every key.
LEMMA MissPostCounts ==
    ASSUME OrdersTypeOK, NEW o \in Orders, NEW s \in Slots, MissPost(o, s), NEW p \in Orders
    PROVE  /\ Counted(p) => Counted(p)'
           /\ Keyed(p) => Keyed(p)'
<1>1. TypeOK /\ count[p] \in Nat /\ unsent[p] \in Nat
  BY DEF OrdersTypeOK, TypeOK
<1>2. UNCHANGED <<items, marker, count, dispatches, unsent, inbox, pc, job, effects, reported>>
  BY MissPostMoves
<1>3. \A t \in Slots : Active(p, t)' <=> Active(p, t)
  BY MissPostMoves DEF Active, Idle, LoadStage
<1>4. \A t \in Slots : stage'[p][t] = LoadStage <=> stage[p][t] = LoadStage
  BY MissPostMoves DEF LoadStage
<1>5. \A r \in Robots : /\ Coming(p, r)' <=> Coming(p, r)
                        /\ Claims(p, r)' <=> Claims(p, r)
                        /\ ReportsOnce(p, r) => ReportsOnce(p, r)'
  BY <1>2 DEF Coming, Claims, ReportsOnce, Queued
<1>6. Claimed(p)' => Claimed(p)
  BY <1>2, <1>3 DEF Claimed
<1>7. Counted(p) => Counted(p)'
  BY <1>1, <1>2, <1>5, <1>6, CountFrame
<1>8. ASSUME KeysOrder(p)
      PROVE  KeysOrder(p)'
  BY <1>2, <1>3, <1>4, <1>5, <1>8 DEF KeysOrder
<1>9. QED
  BY <1>2, <1>7, <1>8 DEF Keyed, Single

\* So the workflow's invariants about reports and keys hold inside of the
\* composition.
LEMMA KeysInside ==
    /\ OrdersTypeOK /\ FreshInv /\ OnceInv /\ ReportInv /\ KeysInv /\ [OrdersNext]_allvars
    => ReportInv' /\ KeysInv'
<1> SUFFICES ASSUME OrdersTypeOK, FreshInv, OnceInv, ReportInv, KeysInv, [OrdersNext]_allvars
             PROVE  ReportInv' /\ KeysInv'
  OBVIOUS
<1>1. CASE [Next]_vars
  BY <1>1, CountStep, KeysStep DEF OrdersTypeOK
<1>2. ASSUME NEW o \in Orders, NEW s \in Slots, MissPost(o, s)
      PROVE  ReportInv' /\ KeysInv'
  <2>1. Cardinality(Robots) = Threshold => \A p \in Orders : Counted(p)
    BY DEF ReportInv, Counted
  <2>2. Cardinality(Robots) = Threshold /\ Faults = {} => \A p \in Orders : Keyed(p)
    BY DEF KeysInv, Keyed
  <2>3. \A p \in Orders : (Counted(p) => Counted(p)') /\ (Keyed(p) => Keyed(p)')
    BY <1>2, MissPostCounts
  <2>4. ReportInv'
    BY <2>1, <2>3 DEF ReportInv, Counted
  <2>5. KeysInv'
    BY <2>2, <2>3 DEF KeysInv, Keyed
  <2>6. QED
    BY <2>4, <2>5
<1>3. QED
  BY <1>1, <1>2, InsideStep

\* An order without a hand-over has nothing to be followed up in the workflow.
LEMMA FreshFollowed ==
    ASSUME OrdersTypeOK, FreshInv, NEW o \in Orders, dispatches[o] = 0
    PROVE  /\ effects[o][LoadStage] = 0
           /\ \A s \in Slots : stage[o][s] = Idle
BY StageRange DEF FreshInv, Fresh, NoEffect, Active

\* Ordering's own steps: the only one to write PROCESSING is a confirmation on its
\* way to inventory.
LEMMA FollowedOrdering ==
    ASSUME OrdersTypeOK, FreshInv, NEW o \in Orders,
           Faults = {}, OrderingFaults = {}, PatientOrder(o), LifeOrder(o), FollowedUp(o),
           Handles(o)
    PROVE  FollowedUp(o)'
<1>1. UNCHANGED <<stage, effects, dispatches>>
  <2>1. OrderingOnly
    BY DEF Handles, OrderingOnly
  <2>2. QED
    BY <2>1, OrderingFrame
<1>2. up' = up \/ (row[o] = "absent" /\ Announce(o) /\ Die)
  BY DEF Handles, Preview, CreateOrder, Announce, StartConfirm, StartCancel, Ask,
     ReadItems, SetProcessing, FailConfirm, FailCall, Reply, FailDispatch, Cancel, ReadCart,
     ReleaseCart, DeleteOrder
<1>3. CASE row[o] = "absent" /\ Announce(o) /\ Die
  <2>1. row'[o] = "absent" /\ preview[o] = "created" /\ preview'[o] = preview[o]
    BY <1>3 DEF Announce, Die, LifeOrder
  <2>2. QED
    BY <2>1 DEF FollowedUp
<1>4. CASE ~(row[o] = "absent" /\ Announce(o) /\ Die)
  <2>1. preview[o] = "created" => preview'[o] = "created"
    BY <1>4 DEF Handles, Preview, CreateOrder, Announce, Die, StartConfirm, StartCancel,
       Ask, ReadItems, SetProcessing, FailConfirm, FailCall, Reply, FailDispatch, Cancel, ReadCart,
       ReleaseCart, DeleteOrder, OrdersTypeOK
  <2>2. preview[o] = "created" /\ row[o] = "absent" => row'[o] = "absent"
    BY <1>4 DEF Handles, Preview, CreateOrder, Announce, Die, StartConfirm, StartCancel,
       Ask, ReadItems, SetProcessing, FailConfirm, FailCall, Reply, FailDispatch, Cancel, ReadCart,
       ReleaseCart, DeleteOrder, SetStatus, OrdersTypeOK
  <2>3. ~up' => row'[o] = "absent" /\ preview'[o] = "created"
    BY <1>2, <1>4, <2>1, <2>2 DEF FollowedUp, OrdersTypeOK
  <2>4. CASE row'[o] # "PROCESSING"
    BY <2>3, <2>4 DEF FollowedUp
  <2>5. CASE row'[o] = "PROCESSING" /\ \E k \in Confirms : on[k] = o /\ SetProcessing(k)
    <3>1. PICK k \in Confirms : on[k] = o /\ SetProcessing(k)
      BY <2>5
    <3>2. k \in Requests /\ at[k] = "processing" /\ on[k] = o /\ on' = on /\ at'[k] = "call"
      BY <3>1 DEF SetProcessing, Goto, Requests, OrdersTypeOK
    <3>3. dispatches[o] = 0
      BY <3>2 DEF PatientOrder, Informed
    <3>4. effects[o][LoadStage] = 0 /\ \A s \in Slots : stage[o][s] = Idle
      BY <3>3, FreshFollowed
    <3>5. PostStage(o) = 2
      BY CustomersAssumption DEF PostStage
    <3>6. \E h \in Confirms : on'[h] = o /\ at'[h] = "call"
      BY <3>2
    <3>7. \A s \in Slots : ~(stage[o][s] > PostStage(o))
      BY <3>4, <3>5 DEF Idle
    <3>8. ~(effects[o][LoadStage] > 0)
      BY <3>4
    <3>9. QED
      BY <1>1, <2>3, <3>6, <3>7, <3>8 DEF FollowedUp, PostStage
  <2>6. CASE row'[o] = "PROCESSING" /\ ~\E k \in Confirms : on[k] = o /\ SetProcessing(k)
    <3>1. row[o] = "PROCESSING"
      <4>1. CASE CreateOrder(o)
        BY <2>6, <4>1 DEF CreateOrder, OrdersTypeOK
      <4>2. ASSUME NEW k \in Confirms,
                   ReadItems(k) \/ FailConfirm(k) \/ FailCall(k) \/ Reply(k) \/ FailDispatch(k)
            PROVE  row[o] = "PROCESSING"
        <5>1. row'[o] = row[o] \/ row'[o] = "FAILED_DISPATCH"
          BY <4>2 DEF ReadItems, FailConfirm, FailCall, Reply, FailDispatch, SetStatus, OrdersTypeOK
        <5>2. QED
          BY <2>6, <5>1
      <4>3. CASE \E x \in Cancels : Cancel(x)
        BY <2>6, <4>3 DEF Cancel, ReadCart, ReleaseCart, DeleteOrder, OrdersTypeOK
      <4>4. CASE UNCHANGED row
        BY <2>6, <4>4
      <4>5. QED
        BY <2>6, <4>1, <4>2, <4>3, <4>4 DEF Handles, Preview, Announce, Die,
           StartConfirm, StartCancel, Ask
    <3>2. ASSUME NEW k \in Confirms, on[k] = o, at[k] = "call"
          PROVE  on'[k] = o /\ at'[k] = "call"
      <4>1. k \in Requests /\ k \notin Cancels
        BY CustomersAssumption DEF Requests
      <4>2. CASE UNCHANGED <<at, on>>
        BY <3>2, <4>2
      <4>3. ASSUME NEW h \in Requests, h # k, \E step \in ConfirmSteps \cup CancelSteps : Goto(h, step),
                   on' = on \/ on' = [on EXCEPT ![h] = o]
            PROVE  on'[k] = o /\ at'[k] = "call"
        BY <3>2, <4>1, <4>3 DEF Goto, OrdersTypeOK
      <4>4. ASSUME NEW h \in Confirms,
                   \/ ReadItems(h) \/ FailConfirm(h) \/ FailCall(h) \/ Reply(h) \/ FailDispatch(h)
                   \/ StartConfirm(h, o)
            PROVE  on'[k] = o /\ at'[k] = "call"
        <5>1. h # k /\ h \in Requests
          BY <3>2, <4>4 DEF ReadItems, FailConfirm, FailCall, Reply, FailDispatch, StartConfirm,
             Ask, Requests
        <5>2. \E step \in ConfirmSteps \cup CancelSteps : Goto(h, step)
          BY <4>4 DEF ReadItems, FailConfirm, FailCall, Reply, FailDispatch, StartConfirm, ConfirmSteps
        <5>3. on' = on \/ on' = [on EXCEPT ![h] = o]
          BY <4>4 DEF ReadItems, FailConfirm, FailCall, Reply, FailDispatch, StartConfirm, Ask
        <5>4. QED
          BY <4>3, <5>1, <5>2, <5>3
      <4>5. ASSUME NEW x \in Cancels, Cancel(x) \/ StartCancel(x, o)
            PROVE  on'[k] = o /\ at'[k] = "call"
        <5>1. x # k /\ x \in Requests
          BY <4>1 DEF Requests
        <5>2. \E step \in ConfirmSteps \cup CancelSteps : Goto(x, step)
          BY <4>5 DEF Cancel, ReadCart, ReleaseCart, DeleteOrder, StartCancel, CancelSteps
        <5>3. on' = on \/ on' = [on EXCEPT ![x] = o]
          BY <4>5 DEF Cancel, ReadCart, ReleaseCart, DeleteOrder, StartCancel, Ask
        <5>4. QED
          BY <4>3, <5>1, <5>2, <5>3
      <4>6. CASE Preview(o) \/ CreateOrder(o) \/ Announce(o)
        BY <3>1, <4>2, <4>6 DEF Preview, CreateOrder, Announce
      <4>7. QED
        BY <2>6, <4>4, <4>5, <4>6 DEF Handles
    <3>3. QED
      BY <1>1, <2>3, <3>1, <3>2 DEF FollowedUp, Active
  <2>7. QED
    BY <2>4, <2>5, <2>6
<1>5. QED
  BY <1>3, <1>4

\* What the workflow's own steps have to show: a finalizer that goes past the post or
\* ends finds the order out of PROCESSING.
LEMMA FollowedFrame ==
    ASSUME NEW o \in Orders, FollowedUp(o), row'[o] = row[o],
           preview'[o] = preview[o], ~up' => ~up,
           dispatches'[o] >= dispatches[o], dispatches[o] \in Nat, dispatches'[o] \in Nat,
           dispatches'[o] = 0 =>
               \A k \in Confirms : on[k] = o /\ at[k] = "call" => on'[k] = o /\ at'[k] = "call",
           \/ row[o] # "PROCESSING"
           \/ /\ \A s \in Slots : stage'[o][s] > PostStage(o) => stage[o][s] > PostStage(o)
              /\ \/ \E s \in Slots : Active(o, s)'
                 \/ /\ effects'[o] = effects[o]
                    /\ \A s \in Slots : stage'[o][s] = stage[o][s]
    PROVE  FollowedUp(o)'
<1>1. row'[o] = "PROCESSING" =>
          dispatches'[o] > 0 \/ \E k \in Confirms : on'[k] = o /\ at'[k] = "call"
  BY DEF FollowedUp
<1>2. ~up' => row'[o] = "absent" /\ preview'[o] = "created"
  BY DEF FollowedUp
<1>3. \A s \in Slots : stage'[o][s] > PostStage(o) => row'[o] # "PROCESSING"
  BY DEF FollowedUp
<1>4. effects'[o][LoadStage] > 0 /\ (\A s \in Slots : ~Active(o, s)') => row'[o] # "PROCESSING"
  BY DEF FollowedUp, Active
<1>5. QED
  BY <1>1, <1>2, <1>3, <1>4 DEF FollowedUp, PostStage

\* The finalizer goes from one step to the next.
LEMMA FollowedFinalizer ==
    ASSUME OrdersTypeOK, NEW o \in Orders, FollowedUp(o), Faults = {},
           stage[o] # [s \in Slots |-> Idle] /\ dispatches[o] <= 1 => KeysOrder(o),
           UNCHANGED ordering, dispatches[o] <= 1,
           NEW s \in Slots, LoadItems(o, s) \/ Bill(o, s) \/ DeleteOrderData(o, s)
    PROVE  FollowedUp(o)'
<1>1. /\ stage \in [Orders -> [Slots -> Idle .. (Lines + 3)]]
      /\ dispatches' = dispatches /\ dispatches[o] \in Nat
      /\ PostStage(o) = 2 /\ LoadStage = 0 /\ BillStage = 1 /\ Idle = -1
  BY CustomersAssumption
  DEF OrdersTypeOK, TypeOK, LoadItems, Bill, DeleteOrderData, PostStage, LoadStage, BillStage, Idle
<1>2. CASE LoadItems(o, s)
  <2>1. stage[o][s] = LoadStage /\ stage[o][s] # Idle
    BY <1>1, <1>2 DEF LoadItems
  <2>2. KeysOrder(o)
    BY <2>1
  <2>3. items[o]
    BY <2>1, <2>2 DEF KeysOrder
  <2>4. stage' = [stage EXCEPT ![o][s] = 1]
    BY <1>1, <1>2, <2>3 DEF LoadItems, Done
  <2>5. stage'[o][s] = 1 /\ \A t \in Slots : t # s => stage'[o][t] = stage[o][t]
    BY <1>1, <2>4
  <2>6. Active(o, s)' /\ \A t \in Slots : stage'[o][t] > PostStage(o) => stage[o][t] > PostStage(o)
    BY <1>1, <2>5 DEF Active
  <2>7. QED
    BY <1>1, <2>6, FollowedFrame
<1>3. CASE Bill(o, s)
  <2>1. stage' = [stage EXCEPT ![o][s] = 2]
    BY <1>1, <1>3 DEF Bill, Done, Skipped
  <2>2. stage'[o][s] = 2 /\ \A t \in Slots : t # s => stage'[o][t] = stage[o][t]
    BY <1>1, <2>1
  <2>3. Active(o, s)' /\ \A t \in Slots : stage'[o][t] > PostStage(o) => stage[o][t] > PostStage(o)
    BY <1>1, <2>2 DEF Active
  <2>4. QED
    BY <1>1, <2>3, FollowedFrame
<1>4. CASE DeleteOrderData(o, s)
  <2>1. stage[o][s] > PostStage(o)
    BY <1>1, <1>4 DEF DeleteOrderData
  <2>2. row[o] # "PROCESSING"
    BY <2>1 DEF FollowedUp
  <2>3. QED
    BY <1>1, <2>2, FollowedFrame
<1>5. QED
  BY <1>2, <1>3, <1>4

\* Broadcasts, reports and the claim.
LEMMA FollowedReports ==
    ASSUME OrdersTypeOK, NEW o \in Orders, FollowedUp(o), Faults = {}, UNCHANGED ordering,
           (\E p \in Orders : Broadcast(p)) \/ (\E r \in Robots : Work(r))
    PROVE  FollowedUp(o)'
<1>1. dispatches' = dispatches /\ effects' = effects /\ dispatches[o] \in Nat
  BY DEF Broadcast, Work, Pick, CountReport, ClaimOrder, OrdersTypeOK, TypeOK
<1>2. stage' = stage \/ \E p \in Orders, s \in Slots : stage' = [stage EXCEPT ![p][s] = LoadStage]
  BY DEF Broadcast, Work, Pick, CountReport, ClaimOrder, OrdersTypeOK, TypeOK
<1>3. PostStage(o) = 2
  BY CustomersAssumption DEF PostStage
<1>4. CASE stage'[o] = stage[o]
  BY <1>1, <1>4, FollowedFrame
<1>5. ASSUME NEW s \in Slots, stage' = [stage EXCEPT ![o][s] = LoadStage]
      PROVE  FollowedUp(o)'
  <2>1. stage'[o][s] = LoadStage /\ \A t \in Slots : t # s => stage'[o][t] = stage[o][t]
    BY <1>5 DEF OrdersTypeOK, TypeOK
  <2>2. Active(o, s)' /\ \A t \in Slots : stage'[o][t] > PostStage(o) => stage[o][t] > PostStage(o)
    BY <1>3, <2>1 DEF Active, LoadStage, Idle
  <2>3. QED
    BY <1>1, <2>2, FollowedFrame
<1>6. QED
  BY <1>2, <1>4, <1>5 DEF OrdersTypeOK, TypeOK

\* The webhook, if ordering runs and if it does not.
LEMMA FollowedPost ==
    ASSUME OrdersTypeOK, NEW o \in Orders, FollowedUp(o), Faults = {}, OrderingFaults = {},
           NEW s \in Slots, Post(o, s) \/ MissPost(o, s)
    PROVE  FollowedUp(o)'
<1>1. CASE Post(o, s)
  <2>1. effects'[o][PostStage(o)] = effects[o][PostStage(o)] + 1
    BY <1>1, StageRange DEF Post, PostWebhook, Done, Skipped, OrdersTypeOK, TypeOK
  <2>2. effects' # effects
    <3>1. effects[o][PostStage(o)] \in Nat
      BY StageRange DEF OrdersTypeOK, TypeOK
    <3>2. QED
      BY <2>1, <3>1
  <2>3. row'[o] # "PROCESSING"
    BY <1>1, <2>2 DEF Post, ReceiveWebhook, SetStatus, OrdersTypeOK
  <2>4. up'
    BY <1>1 DEF Post
  <2>5. QED
    BY <2>3, <2>4 DEF FollowedUp
<1>2. CASE MissPost(o, s)
  <2>1. UNCHANGED <<row, preview, up, at, on, dispatches>> /\ row[o] = "absent" /\ dispatches[o] \in Nat
    BY <1>2 DEF MissPost, FollowedUp, OrdersTypeOK, TypeOK
  <2>2. QED
    BY <2>1, FollowedFrame
<1>3. QED
  BY <1>1, <1>2

\* Steps about another order.
LEMMA FollowedElsewhere ==
    ASSUME OrdersTypeOK, NEW o \in Orders, FollowedUp(o),
           NEW p \in Orders, p # o, Touches(p)
    PROVE  FollowedUp(o)'
<1>1. Untouched(o)
  BY Elsewhere
<1>2. stage'[o] = stage[o] /\ effects'[o] = effects[o] /\ dispatches'[o] = dispatches[o]
  <2>1. CASE Handles(p)
    <3>1. OrderingOnly
      BY <2>1 DEF Handles, OrderingOnly
    <3>2. QED
      BY <3>1, OrderingFrame
  <2>2. CASE \E k \in Confirms : on[k] = p /\ CallInventory(k)
    BY <2>2 DEF CallInventory, SaveItems, OrdersTypeOK, TypeOK
  <2>3. CASE \E s \in Slots : Post(p, s)
    BY <2>3 DEF Post, PostWebhook, Done, Skipped, OrdersTypeOK, TypeOK
  <2>4. QED
    BY <2>1, <2>2, <2>3 DEF Touches
<1>3. \A k \in Confirms : on[k] = o /\ at[k] = "call" => on'[k] = o /\ at'[k] = "call"
  BY <1>1 DEF Untouched, Ended, Requests
<1>4. dispatches[o] \in Nat
  BY DEF OrdersTypeOK, TypeOK
<1>5. QED
  BY <1>1, <1>2, <1>3, <1>4, FollowedFrame DEF Untouched

\* Every step keeps FollowedInv.
LEMMA FollowedStep ==
    OrdersTypeOK /\ FreshInv /\ PatientInv /\ KeysInv /\ LifeInv /\ FollowedInv /\ [OrdersNext]_allvars
    => FollowedInv'
<1> SUFFICES ASSUME OrdersTypeOK, FreshInv, PatientInv, KeysInv, LifeInv, FollowedInv,
                    [OrdersNext]_allvars, QuietOrders, Cardinality(Robots) = Threshold,
                    NEW o \in Orders
             PROVE  FollowedUp(o)'
  BY DEF FollowedInv, QuietOrders
<1>1. /\ Faults = {} /\ OrderingFaults = {}
      /\ PatientOrder(o) /\ LifeOrder(o) /\ FollowedUp(o) /\ dispatches[o] <= 1
  BY DEF QuietOrders, LifeInv, PatientInv, FollowedInv, PatientOrder, Recorded
<1>2. CASE Handles(o)
  BY <1>1, <1>2, FollowedOrdering
<1>3. ASSUME NEW p \in Orders, p # o, Touches(p)
      PROVE  FollowedUp(o)'
  BY <1>1, <1>3, FollowedElsewhere
<1>4. ASSUME NEW k \in Confirms, on[k] = o, CallInventory(k)
      PROVE  FollowedUp(o)'
  <2>1. /\ UNCHANGED <<row, preview, up, stage, effects>>
        /\ dispatches'[o] = dispatches[o] + 1 /\ dispatches[o] \in Nat
    BY <1>4 DEF CallInventory, SaveItems, OrdersTypeOK, TypeOK
  <2>2. QED
    BY <1>1, <2>1, FollowedFrame
<1>5. CASE \E s \in Slots : Post(o, s) \/ MissPost(o, s)
  BY <1>1, <1>5, FollowedPost
<1>6. CASE WorkflowOnly
  <2>1. ASSUME NEW s \in Slots, LoadItems(o, s) \/ Bill(o, s) \/ DeleteOrderData(o, s)
        PROVE  FollowedUp(o)'
    <3>1. stage[o] # [t \in Slots |-> Idle] => \E t \in Slots : Active(o, t)
      BY DEF Active, OrdersTypeOK, TypeOK
    <3>2. (\E t \in Slots : Active(o, t)) => dispatches[o] # 0
      BY DEF FreshInv, Fresh
    <3>3. dispatches[o] # 0 => KeysOrder(o)
      BY <1>1 DEF KeysInv, Single, OrdersTypeOK, TypeOK
    <3>4. QED
      BY <1>1, <1>6, <2>1, <3>1, <3>2, <3>3, FollowedFinalizer DEF WorkflowOnly
  <2>2. ASSUME NEW p \in Orders, NEW s \in Slots, p # o,
               LoadItems(p, s) \/ Bill(p, s) \/ DeleteOrderData(p, s)
        PROVE  FollowedUp(o)'
    <3>1. dispatches'[o] = dispatches[o] /\ dispatches[o] \in Nat
      BY <2>2 DEF LoadItems, Bill, DeleteOrderData, OrdersTypeOK, TypeOK
    <3>2. stage'[o] = stage[o] /\ effects'[o] = effects[o]
      BY <2>2 DEF LoadItems, Bill, DeleteOrderData, Done, Skipped, OrdersTypeOK, TypeOK
    <3>3. UNCHANGED ordering
      BY <1>6 DEF WorkflowOnly
    <3>4. QED
      BY <1>1, <3>1, <3>2, <3>3, FollowedFrame
  <2>3. CASE (\E p \in Orders : Broadcast(p)) \/ (\E r \in Robots : Work(r))
    BY <1>1, <1>6, <2>3, FollowedReports DEF WorkflowOnly
  <2>4. QED
    BY <1>1, <1>6, <2>1, <2>2, <2>3
    DEF WorkflowOnly, ExpireItems, ExpireMarker, LoseReport, FailClaim, RobotCrash, RedisRestart
<1>7. ASSUME NEW p \in Orders, NEW s \in Slots, p # o, MissPost(p, s)
      PROVE  FollowedUp(o)'
  <2>1. dispatches[o] \in Nat /\ dispatches' = dispatches /\ UNCHANGED ordering
    BY <1>7, MissPostMoves DEF MissPost, OrdersTypeOK, TypeOK
  <2>2. stage'[o] = stage[o] /\ effects' = effects
    BY <1>7, MissPostMoves
  <2>3. QED
    BY <1>1, <2>1, <2>2, FollowedFrame
<1>8. CASE Restart
  <2>1. /\ UNCHANGED <<row, preview, at, on, stage, effects, dispatches>>
        /\ ~up' => ~up
        /\ dispatches[o] \in Nat
    BY <1>8 DEF Restart, OrdersTypeOK, TypeOK
  <2>2. QED
    BY <1>1, <2>1, FollowedFrame
<1>9. CASE UNCHANGED allvars
  <2>1. UNCHANGED <<row, preview, at, on, up, stage, effects, dispatches>> /\ dispatches[o] \in Nat
    BY <1>9 DEF OrdersTypeOK, TypeOK
  <2>2. QED
    BY <1>1, <2>1, FollowedFrame
<1>10. QED
  BY <1>2, <1>3, <1>4, <1>5, <1>6, <1>7, <1>8, <1>9, QuietSplit DEF Touches, Unseen

\* Without failures, an order of a patient client, the only one or one of several that
\* nobody cancels, that is neither asked about nor on its way through the warehouse is
\* not PROCESSING, for any number of requests, robots and goroutines.
THEOREM NobodyStranded ==
    ASSUME QuietOrders, Cardinality(Robots) = Threshold
    PROVE  OrdersSpec => []NeverStranded
<1>1. OrdersInit => OnceInv /\ ReportInv /\ KeysInv /\ LifeInv /\ FollowedInv
  <2>1. OrdersInit => LifeInv /\ FollowedInv
    BY OrdersAssumption, CustomersAssumption
    DEF OrdersInit, Init, LifeInv, LifeOrder, Billed, Ended, BillStage, Idle, FollowedInv,
        FollowedUp, PostStage
  <2>2. OrdersInit => KeysInv
    BY DEF OrdersInit, Init, KeysInv
  <2>3. QED
    BY <2>1, <2>2, OnceInit, CountInit DEF OrdersInit
<1>2. ASSUME OrdersTypeOK, PatientInv, KeysInv, FollowedInv
      PROVE  NeverStranded
  <2> SUFFICES ASSUME NEW o \in Orders, Calm(o), row[o] = "PROCESSING"
               PROVE  FALSE
    BY DEF NeverStranded
  <2>1. FollowedUp(o) /\ Faults = {}
    BY <1>2 DEF FollowedInv, QuietOrders
  <2>2. dispatches[o] > 0
    BY <2>1 DEF FollowedUp, Calm, Ended, Requests
  <2>3. KeysOrder(o)
    BY <1>2, <2>1, <2>2 DEF KeysInv, Single, PatientInv, PatientOrder, Recorded
  <2>4. \A s \in Slots : ~Active(o, s)
    BY DEF Calm, Quiet, Active
  <2>5. \A r \in Robots : ~Claims(o, r) /\ ~Coming(o, r)
    BY DEF Calm, Quiet, Claims, Coming, Queued
  <2>6. reported[o] = Robots
    BY <1>2, <2>3, <2>5 DEF KeysOrder, Calm, Quiet, OrdersTypeOK, TypeOK
  <2>7. effects[o][LoadStage] > 0
    BY <1>2, <2>3, <2>4, <2>5, <2>6, StageRange DEF KeysOrder, OrdersTypeOK, TypeOK
  <2>8. QED
    BY <2>1, <2>4, <2>7 DEF FollowedUp
<1>3. OrdersSpec => []PatientInv
  BY PatientInvariant DEF QuietOrders
<1>4. QED
  BY <1>1, <1>2, <1>3, KeysInside, OnceInside, LifeStep, FollowedStep, OrdersTypeCorrect, PTL
  DEF OrdersSpec
=============================================================================
