--------------------------- MODULE StripeWebhook ---------------------------
(***************************************************************************)
(* The Stripe webhook processor for one user.  Stripe delivers an event as *)
(* often as it likes until it gets a 200; each delivery is a goroutine     *)
(* that claims the event's row in stripe_webhook_events, applies its       *)
(* effect to the credit row and finishes the claim.  A claim is a lease: a *)
(* row left in "processing" may be claimed again once it has lapsed.       *)
(*                                                                         *)
(* A step is one SQL statement outside a transaction, one whole            *)
(* transaction or one call to Stripe.  Two claims of one event conflict in *)
(* SQLite and the loser fails, so ClaimWebhookEvent is one step.  A        *)
(* delivery that finds a live claim (503), or whose claim fails, changes   *)
(* nothing and is not a step.                                              *)
(***************************************************************************)
EXTENDS QuotaRow, FiniteSets

CONSTANTS Histories,        \* what happens at Stripe, and with what bounds
          InitRow,          \* the user's row before any of it
          PackCredits       \* credits of a top-up pack

EventKinds == {"subscription_checkout", "unpaid_checkout", "topup",
               "subscription", "deleted", "invoice", "other"}

\* What Stripe says of a subscription; a price no plan has is "unknown".
Subscription == [price : Paid \cup {"unknown"}, status : Statuses,
                 cancel : BOOLEAN, start : Nat]

Reconcile == "reconcile"    \* the event of a worker that serves an admin

\* A history: the events, the state of each subscription of the customer by
\* time, and the bounds of the run: seconds of Stripe's time, goroutines that
\* serve deliveries and admins, failing statements and calls, crashes and
\* admin reconciles.
ASSUME WebhookAssumption ==
    /\ \A h \in Histories :
          /\ Reconcile \notin DOMAIN h.events
          /\ h.end \in Nat /\ {h.failures, h.crashes, h.reconciles} \subseteq Nat
          /\ \A e \in DOMAIN h.events :
                h.events[e] \in [kind : EventKinds, created : 1..h.end, sub : DOMAIN h.subs,
                                payload : Subscription, customer : BOOLEAN]
          /\ \A s \in DOMAIN h.subs, t \in 0..h.end : h.subs[s][t] \in Subscription
    /\ InitRow \in Row
    /\ PackCredits \in Nat \ {0}

VARIABLES history,          \* the history of this behaviour
          now,              \* Stripe's clock, in seconds
          status,           \* stripe_webhook_events.status, by event
          lapsed,           \* processing_started_at is older than the lease
          acked,            \* events Stripe got a 200 for
          row,              \* the user_quota row
          granted,          \* top-up events in stripe_credit_grants
          effected,         \* history: events whose handler completed
          failures,         \* failing statements and calls so far
          crashes,          \* crashes so far
          reconciles,       \* admin reconciles so far
          pc,               \* where each worker is
          loc               \* what each worker carries between its steps

stripe == <<history, now, acked>>
ledger == <<status, lapsed>>
bounds == <<failures, crashes, reconciles>>
vars == <<history, now, status, lapsed, acked, row, granted, effected,
          failures, crashes, reconciles, pc, loc>>

Workers == history.workers
EventOf == history.events   \* what each event says
Events == DOMAIN EventOf
SubAt == history.subs       \* Stripe's state of each subscription, by time
Subs == DOMAIN SubAt
AllWorkers == UNION {h.workers : h \in Histories}
AllEvents == UNION {DOMAIN h.events : h \in Histories}

Nothing == [event |-> "none"]
Start(p, at, l) == /\ pc' = [pc EXCEPT ![p] = at]
                   /\ loc' = [loc EXCEPT ![p] = l]
Done(p) == Start(p, "idle", Nothing)
Goto(p, at) == Start(p, at, loc[p])
Stay == UNCHANGED <<pc, loc>>

Init == /\ history \in Histories /\ now = 0
        /\ status = [e \in Events |-> "none"]
        /\ lapsed = [e \in Events |-> FALSE]
        /\ acked = {} /\ granted = {} /\ effected = {}
        /\ row = InitRow
        /\ failures = 0 /\ crashes = 0 /\ reconciles = 0
        /\ pc = [p \in Workers |-> "idle"]
        /\ loc = [p \in Workers |-> Nothing]

Settled == {"processed", "ignored"}

(***************************************************************************)
(* Claiming an event.                                                      *)
(***************************************************************************)
\* Mutant of Claimable: a claim is never taken over.
ClaimableUnlessHeld(e) == status[e] \in {"none", "failed"}

Claimable(e) == \/ status[e] \in {"none", "failed"}
                \/ status[e] = "processing" /\ lapsed[e]

\* Mutant of AlreadyProcessed: an event somebody works on counts as done.
ProcessedOrClaimed(e) == status[e] \in Settled \cup {"processing"}

AlreadyProcessed(e) == status[e] \in Settled

Delivered(p, e) == pc[p] = "idle" /\ EventOf[e].created <= now

ClaimWebhookEvent(p, e) ==
    /\ Delivered(p, e) /\ Claimable(e)
    /\ status' = [status EXCEPT ![e] = "processing"]
    /\ lapsed' = [lapsed EXCEPT ![e] = FALSE]
    /\ Start(p, "dispatch", [event |-> e])
    /\ UNCHANGED <<stripe, row, granted, effected, bounds>>

AcknowledgeAgain(p, e) ==
    /\ Delivered(p, e) /\ AlreadyProcessed(e)
    /\ acked' = acked \cup {e}
    /\ UNCHANGED <<history, now, ledger, row, granted, effected, bounds>>
    /\ Stay

(***************************************************************************)
(* ProcessEvent: dispatch on the kind of event.  "finish" carries the      *)
(* outcome to the ledger.                                                  *)
(***************************************************************************)
Kind(p) == EventOf[loc[p].event].kind

Finishing(p, outcome) ==
    /\ Start(p, "finish", [event |-> loc[p].event, outcome |-> outcome])
    /\ effected' = IF outcome = "failed" THEN effected ELSE effected \cup {loc[p].event}

\* Subscription checkouts grant nothing; unpaid ones and unknown kinds are
\* ignored.
DispatchWithoutEffect(p) ==
    /\ pc[p] = "dispatch"
    /\ \/ Kind(p) = "subscription_checkout" /\ Finishing(p, "processed")
       \/ Kind(p) \in {"unpaid_checkout", "other"} /\ Finishing(p, "ignored")
    /\ UNCHANGED <<stripe, ledger, row, granted, bounds>>

\* A paid checkout first stores the Stripe customer, if the session names
\* one: the whole row is read and written back, and an error is dropped.
StoreCustomerRead(p) ==
    /\ pc[p] = "dispatch" /\ Kind(p) = "topup" /\ EventOf[loc[p].event].customer
    /\ Start(p, "customer", [event |-> loc[p].event, row |-> row])
    /\ UNCHANGED <<stripe, ledger, row, granted, effected, bounds>>

StoreCustomerWrite(p) ==
    /\ pc[p] = "customer"
    /\ row' = loc[p].row
    /\ Start(p, "grant", [event |-> loc[p].event])
    /\ UNCHANGED <<stripe, ledger, granted, effected, bounds>>

StoreCustomerFails(p) ==
    /\ pc[p] = "customer" /\ failures < history.failures
    /\ failures' = failures + 1
    /\ Start(p, "grant", [event |-> loc[p].event])
    /\ UNCHANGED <<stripe, ledger, row, granted, effected, crashes, reconciles>>

\* Mutant of NotGranted: the unique index on the grant is not enforced.
NotGrantedUnchecked(e) == TRUE

NotGranted(e) == e \notin granted

\* GrantTopUpOnce: one transaction, unique in the event; a second grant is
\* not an error.
GrantTopUp(p) ==
    /\ \/ pc[p] = "grant"
       \/ pc[p] = "dispatch" /\ Kind(p) = "topup" /\ ~EventOf[loc[p].event].customer
    /\ IF NotGranted(loc[p].event)
       THEN /\ granted' = granted \cup {loc[p].event}
            /\ row' = [row EXCEPT !.topup = @ + PackCredits]
       ELSE UNCHANGED <<granted, row>>
    /\ Finishing(p, "processed")
    /\ UNCHANGED <<stripe, ledger, bounds>>

(***************************************************************************)
(* Subscription events.                                                    *)
(***************************************************************************)
GrantsAccess(sub) == SubscriptionActive(sub.status)

\* The update applySubscriptionEvent derives from a subscription object.
UpdateFrom(sub, created) ==
    [terminate |-> ~GrantsAccess(sub), metadataOnly |-> FALSE, plan |-> sub.price,
     status |-> sub.status, cancel |-> sub.cancel, start |-> sub.start,
     created |-> created]

TerminationAt(created) ==
    [terminate |-> TRUE, metadataOnly |-> FALSE, plan |-> "starter",
     status |-> "canceled", cancel |-> FALSE, start |-> 0, created |-> created]

\* ApplyStripeSubscription reads the row here and writes it in WriteRow.
ApplyUpdate(p, in) ==
    IF StaleUpdate(row, in)
    THEN Finishing(p, "processed")
    ELSE /\ Start(p, "write", [event |-> loc[p].event, row |-> AppliedUpdate(row, in)])
         /\ UNCHANGED effected

\* A price that belongs to no plan fails closed.
ApplySubscriptionEvent(p, sub, created) ==
    IF sub.price = "unknown" THEN Finishing(p, "failed")
    ELSE ApplyUpdate(p, UpdateFrom(sub, created))

HandleSubscription(p) ==
    LET ev == EventOf[loc[p].event]
    IN  /\ pc[p] = "dispatch"
        /\ \/ Kind(p) = "subscription" /\ ApplySubscriptionEvent(p, ev.payload, ev.created)
           \/ Kind(p) = "deleted" /\ ApplyUpdate(p, TerminationAt(ev.created))
        /\ UNCHANGED <<stripe, ledger, row, granted, bounds>>

\* Invoice events look the subscription up at Stripe and apply what they
\* find under the event's own creation time.
FetchSubscription(p) ==
    /\ pc[p] = "dispatch" /\ Kind(p) = "invoice"
    /\ Start(p, "fetched", [event |-> loc[p].event, sub |-> SubAt[EventOf[loc[p].event].sub][now]])
    /\ UNCHANGED <<stripe, ledger, row, granted, effected, bounds>>

HandleInvoice(p) ==
    /\ pc[p] = "fetched" /\ loc[p].event # Reconcile
    /\ ApplySubscriptionEvent(p, loc[p].sub, EventOf[loc[p].event].created)
    /\ UNCHANGED <<stripe, ledger, row, granted, bounds>>

WriteRow(p) ==
    /\ pc[p] = "write" /\ loc[p].event # Reconcile
    /\ row' = loc[p].row
    /\ Finishing(p, "processed")
    /\ UNCHANGED <<stripe, ledger, granted, bounds>>

\* A Stripe call or a statement of the handler fails.
HandlerFails(p) ==
    /\ pc[p] \in {"dispatch", "grant", "write"} /\ loc[p].event # Reconcile
    /\ Kind(p) \in {"topup", "subscription", "deleted", "invoice"}
    /\ failures < history.failures /\ failures' = failures + 1
    /\ Finishing(p, "failed")
    /\ UNCHANGED <<stripe, ledger, row, granted, crashes, reconciles>>

(***************************************************************************)
(* FinishWebhookEvent writes the outcome without asking who holds the      *)
(* claim; Stripe then gets a 200, or a 400 for a failed handler.           *)
(***************************************************************************)
FinishWebhookEvent(p) ==
    /\ pc[p] = "finish"
    /\ status' = [status EXCEPT ![loc[p].event] = loc[p].outcome]
    /\ acked' = IF loc[p].outcome = "failed" THEN acked ELSE acked \cup {loc[p].event}
    /\ Done(p)
    /\ UNCHANGED <<history, now, lapsed, row, granted, effected, bounds>>

\* The request was cancelled: the row stays in "processing", no 200 is sent.
FinishFails(p) ==
    /\ pc[p] = "finish" /\ failures < history.failures
    /\ failures' = failures + 1
    /\ Done(p)
    /\ UNCHANGED <<stripe, ledger, row, granted, effected, crashes, reconciles>>

(***************************************************************************)
(* ReconcileUser, the admin's recovery: the best subscription of the       *)
(* customer is listed, then applied under the time of the application.     *)
(***************************************************************************)
Rank(st) == CASE st = "active" -> 5 [] st = "trialing" -> 4 [] st = "past_due" -> 3
              [] st = "incomplete" -> 2 [] st \in {"unpaid", "canceled"} -> 1
              [] OTHER -> 0

\* Subscriptions Stripe knows of at a time.
Known(t) == {s \in Subs : SubAt[s][t].status # "none"}

ReconcileList(p) ==
    /\ pc[p] = "idle" /\ now > 0 /\ reconciles < history.reconciles
    /\ reconciles' = reconciles + 1
    /\ IF Known(now) = {}
       THEN /\ row.plan \in Paid \/ row.sub
            /\ Start(p, "none_listed", [event |-> Reconcile])
       ELSE \E s \in Known(now) :
               /\ \A t \in Known(now) : Rank(SubAt[s][now].status) >= Rank(SubAt[t][now].status)
               /\ SubAt[s][now].price # "unknown"
               /\ Start(p, "fetched", [event |-> Reconcile, sub |-> SubAt[s][now]])
    /\ UNCHANGED <<stripe, ledger, row, granted, effected, failures, crashes>>

\* The update is discarded when a newer one was applied; repair follows.
ReconcileApply(p) ==
    /\ loc[p].event = Reconcile /\ pc[p] \in {"fetched", "none_listed"}
    /\ LET in == IF pc[p] = "fetched" THEN UpdateFrom(loc[p].sub, now)
                                      ELSE TerminationAt(now)
           repair == IF in.terminate THEN "none" ELSE in.plan
       IN  Start(p, "reconcile_write",
                 [event |-> Reconcile, plan |-> repair,
                  row |-> IF StaleUpdate(row, in) THEN row ELSE AppliedUpdate(row, in),
                  writes |-> ~StaleUpdate(row, in)])
    /\ UNCHANGED <<stripe, ledger, row, granted, effected, bounds>>

ReconcileWrite(p) ==
    /\ pc[p] = "reconcile_write"
    /\ row' = IF loc[p].writes THEN loc[p].row ELSE row
    /\ IF loc[p].plan = "none" THEN Done(p) ELSE Goto(p, "repair")
    /\ UNCHANGED <<stripe, ledger, granted, effected, bounds>>

RepairRead(p) ==
    /\ pc[p] = "repair"
    /\ IF row.allow >= Grant[loc[p].plan] THEN Done(p)
       ELSE Start(p, "reconcile_write",
                  [event |-> Reconcile, plan |-> "none", writes |-> TRUE,
                   row |-> RepairedAllowance(row, loc[p].plan)])
    /\ UNCHANGED <<stripe, ledger, row, granted, effected, bounds>>

(***************************************************************************)
(* The environment.                                                        *)
(***************************************************************************)
Tick == /\ now < history.end
        /\ now' = now + 1
        /\ UNCHANGED <<history, acked, ledger, row, granted, effected, bounds>>
        /\ Stay

LeaseLapses(e) ==
    /\ status[e] = "processing" /\ ~lapsed[e]
    /\ lapsed' = [lapsed EXCEPT ![e] = TRUE]
    /\ UNCHANGED <<stripe, status, row, granted, effected, bounds, pc, loc>>

\* The server dies and starts again: every delivery in flight is gone.
Crash == /\ crashes < history.crashes /\ \E p \in Workers : pc[p] # "idle"
         /\ crashes' = crashes + 1
         /\ pc' = [p \in Workers |-> "idle"]
         /\ loc' = [p \in Workers |-> Nothing]
         /\ UNCHANGED <<stripe, ledger, row, granted, effected, failures, reconciles>>

WorkerStep(p) ==
    \/ DispatchWithoutEffect(p)
    \/ StoreCustomerRead(p)
    \/ StoreCustomerWrite(p)
    \/ GrantTopUp(p)
    \/ HandleSubscription(p)
    \/ FetchSubscription(p)
    \/ HandleInvoice(p)
    \/ WriteRow(p)
    \/ FinishWebhookEvent(p)
    \/ ReconcileApply(p)
    \/ ReconcileWrite(p)
    \/ RepairRead(p)

Fault(p) == StoreCustomerFails(p) \/ HandlerFails(p) \/ FinishFails(p)

Delivery(e) == \E p \in Workers : ClaimWebhookEvent(p, e) \/ AcknowledgeAgain(p, e)

Next ==
    \/ \E e \in Events : Delivery(e)
    \/ \E p \in Workers : WorkerStep(p)
    \/ \E p \in Workers : Fault(p)
    \/ \E p \in Workers : ReconcileList(p)
    \/ \E e \in Events : LeaseLapses(e)
    \/ Tick
    \/ Crash

Spec == Init /\ [][Next]_vars

\* Stripe redelivers what it got no 200 for, and every delivery has a
\* goroutine of its own: however busy Workers are, one comes free for it.
Fairness ==
    /\ \A e \in AllEvents : SF_vars(e \in Events /\ e \notin acked /\ Delivery(e))
    /\ \A e \in AllEvents : WF_vars(e \in Events /\ LeaseLapses(e))
    /\ \A p \in AllWorkers : WF_vars(p \in Workers /\ WorkerStep(p))
    /\ WF_vars(Tick)

FairSpec == Spec /\ Fairness

-----------------------------------------------------------------------------
Serving == Events \cup {Reconcile}

LocalStates ==
    {Nothing}
    \cup [event : Events]
    \cup [event : Events, row : Row]
    \cup [event : Serving, sub : Subscription]
    \cup [event : Events, outcome : {"processed", "ignored", "failed"}]
    \cup [event : {Reconcile}]
    \cup [event : {Reconcile}, plan : Paid \cup {"none"}, row : Row, writes : BOOLEAN]

TypeOK ==
    /\ now \in 0..history.end
    /\ status \in [Events -> {"none", "processing", "failed"} \cup Settled]
    /\ lapsed \in [Events -> BOOLEAN]
    /\ acked \subseteq Events /\ granted \subseteq Events /\ effected \subseteq Events
    /\ row \in Row
    /\ failures \in 0..history.failures /\ crashes \in 0..history.crashes /\ reconciles \in 0..history.reconciles
    /\ pc \in [Workers -> {"idle", "dispatch", "customer", "grant", "fetched", "write", "finish",
                           "none_listed", "reconcile_write", "repair"}]
    /\ loc \in [Workers -> LocalStates]

\* Stripe is told 200, and stops sending, only when a handler completed the
\* event: an event is never lost to a crash, a lapsed lease or a concurrent
\* delivery (ProcessEvent, ClaimWebhookEvent, handler Webhook).
AckedMeansEffected == acked \subseteq effected

\* However often they are delivered, claimed and reclaimed, checkouts are
\* credited exactly once before they are acknowledged (GrantTopUpOnce under
\* ProcessEvent).  Top-ups lapse with the period and with the subscription, so
\* the histories that hold a top-up have no event that ends either.
TopUpEvents == {e \in AllEvents : \E h \in Histories : e \in DOMAIN h.events /\ h.events[e].kind = "topup"}

Grants == INSTANCE ExactlyOnce
              WITH Checkouts <- TopUpEvents, credited <- granted,
                   acknowledged <- {e \in acked : EventOf[e].kind = "topup"},
                   credits <- row.topup - InitRow.topup

CheckoutsCreditedOnce == Grants!Spec

Quiet == \A p \in Workers : pc[p] = "idle"

StateKinds == {"subscription", "deleted", "invoice"}
StateEventsOf(h) == {e \in DOMAIN h.events : h.events[e].kind \in StateKinds}
StateEvents == StateEventsOf(history)

Reflects(sub) ==
    IF GrantsAccess(sub)
    THEN row.plan = sub.price /\ row.status = sub.status /\ row.cancel = sub.cancel
    ELSE row.plan = "expired"

AllDelivered ==
    now = history.end /\ Quiet /\ StateEvents # {} /\ StateEvents \subseteq acked

\* The subscription that counts: the best one, as ReconcileUser picks it.
Current == {s \in Subs : \A t \in Subs : Rank(SubAt[s][now].status) >= Rank(SubAt[t][now].status)}

\* When Stripe has nothing more to send, the row says what Stripe says of the
\* subscription, in whatever order the events came and were retried
\* (ApplyStripeSubscription's comparison of creation times).
ConvergesToStripe ==
    AllDelivered /\ reconciles = 0 => \E s \in Current : Reflects(SubAt[s][now])

(***************************************************************************)
(* When the last word of Stripe is true of a history: it is of the         *)
(* subscription that counts in the end.  If that one grants access, the    *)
(* newest events all say so and agree on it; else one of them, at least,   *)
(* ends the plan.  One goroutine serves the events: with two, an older     *)
(* event that was read first may be written last.                          *)
(***************************************************************************)
Newest(h) ==
    {e \in StateEventsOf(h) :
        \A d \in StateEventsOf(h) : h.events[d].created <= h.events[e].created}

LastTime(h) == h.events[CHOOSE e \in Newest(h) : TRUE].created

\* What the handler of an event may be told of its subscription: an invoice
\* looks it up at any time from then on.
Heard(h, e) ==
    IF h.events[e].kind = "subscription" THEN {h.events[e].payload}
    ELSE {h.subs[h.events[e].sub][t] : t \in h.events[e].created..h.end}

\* Every such answer that has a plan ends it.
EndsPlan(h, e) ==
    \/ h.events[e].kind = "deleted"
    \/ \A x \in Heard(h, e) : x.price \in Paid => ~GrantsAccess(x)

\* Every such answer that has a plan is what sub says.
Confirms(h, e, sub) ==
    /\ h.events[e].kind # "deleted"
    /\ \A x \in Heard(h, e) : x.price \in Paid =>
          /\ GrantsAccess(x) /\ x.price = sub.price
          /\ x.status = sub.status /\ x.cancel = sub.cancel

LastWord(h, sub) ==
    IF GrantsAccess(sub) THEN \A e \in Newest(h) : Confirms(h, e, sub)
    ELSE \E e \in Newest(h) : EndsPlan(h, e)

\* The best subscriptions at the end, as Current picks them.
AtEnd(h, s) ==
    /\ s \in DOMAIN h.subs
    /\ \A t \in DOMAIN h.subs : Rank(h.subs[s][h.end].status) >= Rank(h.subs[t][h.end].status)

\* If there are events of a subscription, the newest are of the one that
\* counts, and newer than what the row recorded before.
LastWordIsTrue(h) ==
    /\ \A p, q \in h.workers : p = q
    /\ StateEventsOf(h) # {} =>
          /\ Newest(h) # {} /\ InitRow.ev < LastTime(h)
          /\ \E s \in DOMAIN h.subs : AtEnd(h, s) /\ LastWord(h, h.subs[s][h.end])

\* Every event a plan can be found for is acknowledged in the end, through
\* crashes, failing calls and lapsed leases.
Handleable(e) ==
    EventOf[e].kind \in {"subscription", "invoice"} =>
        /\ EventOf[e].payload.price \in Paid
        /\ \A t \in 0..history.end : SubAt[EventOf[e].sub][t].price \in Paid

EveryEventAcked == \A e \in AllEvents : (e \in Events /\ Handleable(e)) ~> (e \in acked)
=============================================================================
