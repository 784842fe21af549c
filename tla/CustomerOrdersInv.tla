-------------------------- MODULE CustomerOrdersInv -------------------------
(***************************************************************************)
(* The inductive invariants behind the properties of CustomerOrders:       *)
(* CustomerOrdersProofs proves them.                                       *)
(***************************************************************************)
EXTENDS CustomerOrders, FulfilmentInv

\* Nobody asks about an order before its preview was answered.
Unasked(o) ==
    /\ preview[o] # "created" => dispatches[o] = 0 /\ \A h \in Requests : on[h] # o
    /\ preview[o] \notin {"created", "lost"} => row[o] = "absent"

\* A patient client has one request about an order under way.
OneAtATime(o) ==
    \A h, g \in Requests : on[h] = o /\ on[g] = o /\ ~Ended(h) /\ ~Ended(g) => h = g

\* What the steps of a confirmation know: nothing was handed over before its own
\* call, and nobody writes the status between its check and its update.
Informed(o, k) ==
    /\ at[k] \in {"items", "processing", "call"} => dispatches[o] = 0
    /\ at[k] \in {"items", "processing"} => row[o] \in {"PENDING", "absent"}
    /\ at[k] = "call" => row[o] \in {"PROCESSING", "absent"}
    /\ at[k] \in {"waiting", "failing"} => row[o] # "PENDING"
    /\ at[k] = "failing" /\ dispatches[o] > 0 => CallsFail

\* What the status says of the hand-over.
Recorded(o) ==
    /\ dispatches[o] <= 1
    /\ dispatches[o] > 0 => row[o] # "PENDING"
    /\ row[o] = "COMPLETED" => dispatches[o] > 0
    /\ row[o] = "FAILED_DISPATCH" /\ dispatches[o] > 0 => CallsFail

\* The inductive invariant of DispatchedAtMostOnce and StatusOnlyAdvances.
PatientOrder(o) ==
    /\ Unasked(o)
    /\ OneAtATime(o)
    /\ \A k \in Confirms : on[k] = o => Informed(o, k)
    /\ Recorded(o)

PatientInv == \A o \in Orders : PatientOrder(o)

\* The cancellation x of o is between its check and its end.
Cancelling(o, x) == on[x] = o /\ at[x] \in {"items", "release", "delete"}

\* Without failures of ordering and with one cancellation at most: the row of o
\* stays until its cancellation deletes it, right after the release, and nothing
\* ends that handler in between, because the goroutines that die do so only when it
\* is over.
HeldOrder(o) ==
    /\ preview[o] # "created" =>
          /\ row[o] = "absent"
          /\ \A h \in Requests : on[h] # o
          /\ announcing[o] = 0
    /\ preview[o] \in {"none", "refused"} => held[o] = 0
    /\ preview[o] \in {"reserved", "lost"} => held[o] = 1
    /\ preview[o] = "created" =>
          held[o] = IF row[o] = "absent" \/ \E x \in Cancels : on[x] = o /\ at[x] = "delete"
                    THEN 0 ELSE 1
    /\ preview[o] = "created" /\ row[o] = "absent" =>
          \E x \in Cancels : on[x] = o /\ at[x] = "over"
    /\ \A x \in Cancels : Cancelling(o, x) => row[o] # "absent"

\* The inductive invariant of HeldForRows.
OneCancellation == OrderingFaults = {} /\ \A x, y \in Cancels : x = y
HeldInv == OneCancellation => \A o \in Orders : HeldOrder(o)

\* No two cancellations of o, overlapping or not.
CancelledOnce(o) ==
    \A x, y \in Cancels :
        on[x] = o /\ on[y] = o /\ at[x] # "new" /\ at[y] # "new" => x = y

\* Only a cancellation past its release has given the reservation back, and it may
\* have failed to.
ReleaseOrder(o) ==
    /\ preview[o] # "created" => \A x \in Cancels : on[x] # o
    /\ preview[o] \in {"none", "refused"} => held[o] = 0
    /\ preview[o] \in {"reserved", "lost"} => held[o] = 1
    /\ preview[o] = "created" =>
          \/ held[o] = 1
          \/ held[o] = 0 /\ \E x \in Cancels : on[x] = o /\ at[x] \in {"delete", "over"}

\* The inductive invariant of ReleasesOnlyReserved, for orders cancelled once.
ReleaseInv == \A o \in Orders : CancelledOnce(o) => ReleaseOrder(o)

\* An order of a patient client, while nothing fails: whoever asks about it finds it
\* reserved, with its row, until a cancellation releases and deletes it; no row is
\* missing where nobody cancels.
LifeOrder(o) ==
    /\ preview[o] # "lost"
    /\ announcing[o] > 0 => preview[o] = "created"
    /\ preview[o] \in {"none", "refused"} => held[o] = 0
    /\ preview[o] = "reserved" => held[o] = 1
    /\ preview[o] = "created" =>
          held[o] = IF row[o] = "absent" \/ \E x \in Cancels : on[x] = o /\ at[x] = "delete"
                    THEN 0 ELSE 1
    /\ preview[o] = "created" /\ row[o] = "absent" => Cancels # {}
    /\ row[o] # "FAILED_DISPATCH"
    /\ \A h \in Requests : on[h] = o /\ ~Ended(h) => row[o] # "absent" /\ at[h] # "failing"

\* A finalizer that got past the bill has billed, if no bill fails.
Billed(o) == \A s \in Slots : stage[o][s] > BillStage => effects[o][BillStage] > 0

\* Nobody meets the panic of the analytics goroutine: it ends ordering for the orders
\* of others, so there is one order, or none is cancelled.
QuietOrders ==
    /\ Patient /\ Faults = {} /\ OrderingFaults = {}
    /\ (\A o, p \in Orders : o = p) \/ Cancels = {}

\* With PatientInv and OnceInv, the inductive invariant of ImplementsLifecycle.
LifeInv == QuietOrders => \A o \in Orders : LifeOrder(o) /\ Billed(o)

\* What keeps an order from being stranded: PROCESSING has a hand-over behind
\* it or right ahead, ordering is down only after the row is gone, and a finalizer
\* past its post has taken the order out of PROCESSING.
FollowedUp(o) ==
    /\ row[o] = "PROCESSING" =>
          dispatches[o] > 0 \/ \E k \in Confirms : on[k] = o /\ at[k] = "call"
    /\ ~up => row[o] = "absent" /\ preview[o] = "created"
    /\ \A s \in Slots : stage[o][s] > PostStage(o) => row[o] # "PROCESSING"
    /\ effects[o][LoadStage] > 0 /\ (\A s \in Slots : ~Active(o, s)) => row[o] # "PROCESSING"

\* With KeysInv and LifeInv, the inductive invariant of NeverStranded.
FollowedInv == QuietOrders /\ Cardinality(Robots) = Threshold => \A o \in Orders : FollowedUp(o)
=============================================================================
