------------------------ MODULE StripeWebhook_proofs ------------------------
(***************************************************************************)
(* What holds of the webhook processor for every history, any number of    *)
(* goroutines, lapsing leases, failures, crashes and reconciles.           *)
(*                                                                         *)
(* The argument: a goroutine that goes to finish an event with success has *)
(* its effect in the database, and effects are never taken back.  It does  *)
(* not matter who holds the claim when it finishes, nor that two finish    *)
(* the same event with different outcomes.                                 *)
(***************************************************************************)
EXTENDS StripeWebhook, TLAPS

Pcs == {"idle", "dispatch", "customer", "grant", "fetched", "write", "finish",
        "none_listed", "reconcile_write", "repair"}

\* An event that had its effect; a pack was granted.
Handled(e) == e \in effected /\ (EventOf[e].kind = "topup" => e \in granted)

\* What a goroutine knows by where it is.
Serves(p) ==
    /\ pc[p] \in {"dispatch", "customer", "grant", "write", "finish"} => loc[p].event \in Events
    /\ pc[p] \in {"customer", "grant"} => Kind(p) = "topup"
    /\ pc[p] = "fetched" /\ loc[p].event # Reconcile => loc[p].event \in Events /\ Kind(p) = "invoice"
    /\ pc[p] = "write" => Kind(p) \in StateKinds
    /\ pc[p] = "finish" =>
          /\ loc[p].outcome \in {"processed", "ignored", "failed"}
          /\ loc[p].outcome # "failed" => Handled(loc[p].event)

WebhookInv ==
    /\ history \in Histories
    /\ pc \in [Workers -> Pcs] /\ DOMAIN loc = Workers
    /\ DOMAIN status = Events
    /\ \A p \in Workers : Serves(p)
    /\ \A e \in Events : status[e] \in Settled => Handled(e)
    /\ acked \subseteq Events /\ \A e \in acked : Handled(e)

-----------------------------------------------------------------------------
(***************************************************************************)
(* The acknowledgement.                                                    *)
(***************************************************************************)
\* Nothing is settled, acknowledged or under way at first.
LEMMA InitWebhook == ASSUME Init PROVE WebhookInv
  BY DEF Init, WebhookInv, Pcs, Serves, Workers, Events, EventOf, Settled

\* A worker moves to a state of which it knows enough; what had its effect
\* keeps it.
LEMMA Moves ==
    ASSUME WebhookInv, NEW p \in Workers, NEW at \in Pcs, NEW l, Start(p, at, l),
           history' = history, status' = status, acked' = acked,
           effected \subseteq effected', granted \subseteq granted',
           (Serves(p))'
    PROVE  WebhookInv'
<1>1. /\ pc' \in [Workers -> Pcs] /\ DOMAIN loc' = Workers /\ Workers' = Workers
      /\ Events' = Events /\ EventOf' = EventOf
  BY DEF WebhookInv, Start, Workers, Events, EventOf
<1>2. \A e : Handled(e) => Handled(e)'
  BY <1>1 DEF Handled
<1>3. ASSUME NEW q \in Workers PROVE (Serves(q))'
  <2>1. CASE q = p
    BY <2>1
  <2>2. CASE q # p
    <3>1. pc'[q] = pc[q] /\ loc'[q] = loc[q]
      BY <2>2 DEF WebhookInv, Start
    <3>2. Serves(q)
      BY DEF WebhookInv
    <3> QED
      BY <3>1, <3>2, <1>1, <1>2 DEF Serves, Kind
  <2> QED BY <2>1, <2>2
<1> QED
  BY <1>1, <1>2, <1>3 DEF WebhookInv

\* A worker finishes with a success only what had its effect (Finishing).
LEMMA Finishes ==
    ASSUME WebhookInv, NEW p \in Workers, loc[p].event \in Events,
           NEW outcome \in {"processed", "ignored", "failed"}, Finishing(p, outcome),
           history' = history, status' = status, acked' = acked, granted \subseteq granted',
           outcome # "failed" /\ Kind(p) = "topup" => loc[p].event \in granted'
    PROVE  WebhookInv'
<1> DEFINE l == [event |-> loc[p].event, outcome |-> outcome]
<1>1. pc'[p] = "finish" /\ loc'[p] = l
  BY DEF WebhookInv, Finishing, Start
<1>2. effected \subseteq effected' /\ (outcome # "failed" => loc[p].event \in effected')
  BY DEF Finishing
<1>3. (Serves(p))'
  BY <1>1, <1>2 DEF Serves, Handled, Kind, EventOf, Events
<1>4. "finish" \in Pcs /\ Start(p, "finish", l)
  BY DEF Finishing, Pcs
<1> HIDE DEF l
<1> QED
  BY <1>2, <1>3, <1>4, Moves

\* ClaimWebhookEvent takes an event that nobody settled.
LEMMA ClaimStep ==
    ASSUME WebhookInv, NEW p \in Workers, NEW e \in Events, ClaimWebhookEvent(p, e)
    PROVE  WebhookInv'
<1>1. /\ pc' = [pc EXCEPT ![p] = "dispatch"] /\ loc' = [loc EXCEPT ![p] = [event |-> e]]
      /\ status' = [status EXCEPT ![e] = "processing"]
      /\ UNCHANGED <<history, acked, granted, effected>>
  BY DEF ClaimWebhookEvent, Start, stripe
<1>2. \A q \in Workers : (Serves(q))'
  BY <1>1 DEF WebhookInv, Serves, Kind, EventOf, Events, Workers, Handled
<1>3. \A d \in Events : status'[d] \in Settled => Handled(d)'
  BY <1>1 DEF WebhookInv, Handled, Settled, EventOf
<1> QED
  BY <1>1, <1>2, <1>3 DEF WebhookInv, Handled, EventOf, Events, Workers, Pcs

LEMMA AcknowledgeStep ==
    ASSUME WebhookInv, NEW p \in Workers, NEW e \in Events, AcknowledgeAgain(p, e)
    PROVE  WebhookInv'
<1>1. UNCHANGED <<history, status, granted, effected, pc, loc>> /\ acked' = acked \cup {e}
  BY DEF AcknowledgeAgain, ledger, Stay
<1>2. Handled(e)
  BY DEF AcknowledgeAgain, AlreadyProcessed, WebhookInv
<1> QED
  BY <1>1, <1>2 DEF WebhookInv, Serves, Kind, EventOf, Events, Workers, Handled

\* The handlers that only look at the event, or only move.
LEMMA DispatchStep ==
    ASSUME WebhookInv, NEW p \in Workers, DispatchWithoutEffect(p)
    PROVE  WebhookInv'
<1>1. Serves(p) /\ loc[p].event \in Events
  BY DEF WebhookInv, Serves, DispatchWithoutEffect
<1>2. UNCHANGED <<history, status, acked, granted>>
  BY DEF DispatchWithoutEffect, stripe, ledger
<1>3. CASE Kind(p) = "subscription_checkout" /\ Finishing(p, "processed")
  BY <1>1, <1>2, <1>3, Finishes
<1>4. CASE Kind(p) \in {"unpaid_checkout", "other"} /\ Finishing(p, "ignored")
  BY <1>1, <1>2, <1>4, Finishes
<1> QED
  BY <1>3, <1>4 DEF DispatchWithoutEffect

LEMMA StoreCustomerStep ==
    ASSUME WebhookInv, NEW p \in Workers,
           StoreCustomerRead(p) \/ StoreCustomerWrite(p) \/ StoreCustomerFails(p)
    PROVE  WebhookInv'
<1>1. /\ Serves(p) /\ loc[p].event \in Events /\ Kind(p) = "topup"
      /\ UNCHANGED <<history, status, acked, granted, effected>>
  BY DEF WebhookInv, Serves, StoreCustomerRead, StoreCustomerWrite, StoreCustomerFails, stripe, ledger
<1>2. PICK at, l :
          /\ at \in {"customer", "grant"}
          /\ Start(p, at, l) /\ l.event = loc[p].event
  BY DEF StoreCustomerRead, StoreCustomerWrite, StoreCustomerFails
<1>3. pc'[p] = at /\ loc'[p] = l
  BY <1>2 DEF Start, WebhookInv
<1>4. (Serves(p))'
  BY <1>1, <1>2, <1>3 DEF Serves, Kind, EventOf, Events
<1> QED
  BY <1>1, <1>2, <1>4, Moves DEF Pcs

\* The grant is unique in the event; it is there when the handler is done.
LEMMA GrantStep ==
    ASSUME WebhookInv, NEW p \in Workers, GrantTopUp(p)
    PROVE  WebhookInv'
<1>1. loc[p].event \in Events
  BY DEF WebhookInv, Serves, GrantTopUp
<1>2. UNCHANGED <<history, status, acked>> /\ Finishing(p, "processed")
  BY DEF GrantTopUp, stripe, ledger
<1>3. granted \subseteq granted' /\ loc[p].event \in granted'
  BY DEF GrantTopUp, NotGranted
<1> QED
  BY <1>1, <1>2, <1>3, Finishes

\* Either the update is stale or of no plan, and the event is finished, or
\* the worker goes on to write the row.
LEMMA ApplyStep ==
    ASSUME WebhookInv, NEW p \in Workers, loc[p].event \in Events, Kind(p) \in StateKinds,
           NEW in, ApplyUpdate(p, in) \/ Finishing(p, "failed"),
           UNCHANGED <<history, status, acked, granted>>
    PROVE  WebhookInv'
<1>1. CASE Finishing(p, "processed") \/ Finishing(p, "failed")
  BY <1>1, Finishes DEF StateKinds
<1>2. CASE \E r : Start(p, "write", [event |-> loc[p].event, row |-> r]) /\ UNCHANGED effected
  <2>1. PICK r : Start(p, "write", [event |-> loc[p].event, row |-> r]) /\ UNCHANGED effected
    BY <1>2
  <2> DEFINE l == [event |-> loc[p].event, row |-> r]
  <2>2. pc'[p] = "write" /\ loc'[p] = l
    BY <2>1 DEF Start, WebhookInv
  <2>3. (Serves(p))'
    BY <2>2 DEF Serves, Kind, EventOf, Events
  <2>4. "write" \in Pcs /\ Start(p, "write", l)
    BY <2>1 DEF Pcs
  <2> HIDE DEF l
  <2> QED
    BY <2>1, <2>3, <2>4, Moves
<1> QED
  BY <1>1, <1>2 DEF ApplyUpdate

LEMMA HandleStep ==
    ASSUME WebhookInv, NEW p \in Workers, HandleSubscription(p) \/ HandleInvoice(p)
    PROVE  WebhookInv'
<1>1. loc[p].event \in Events /\ Kind(p) \in StateKinds /\ UNCHANGED <<history, status, acked, granted>>
  BY DEF WebhookInv, Serves, HandleSubscription, HandleInvoice, StateKinds, stripe, ledger
<1>2. PICK in : ApplyUpdate(p, in) \/ Finishing(p, "failed")
  BY DEF HandleSubscription, HandleInvoice, ApplySubscriptionEvent
<1> QED
  BY <1>1, <1>2, ApplyStep

LEMMA FetchStep ==
    ASSUME WebhookInv, NEW p \in Workers, FetchSubscription(p)
    PROVE  WebhookInv'
<1> DEFINE l == [event |-> loc[p].event, sub |-> SubAt[EventOf[loc[p].event].sub][now]]
<1>1. Start(p, "fetched", l) /\ "fetched" \in Pcs /\ UNCHANGED <<history, status, acked, granted, effected>>
  BY DEF FetchSubscription, stripe, ledger, Pcs
<1>2. pc'[p] = "fetched" /\ loc'[p] = l
  BY <1>1 DEF Start, WebhookInv
<1>3. loc[p].event \in Events /\ Kind(p) = "invoice" /\ l.event = loc[p].event
  BY DEF FetchSubscription, WebhookInv, Serves
<1> HIDE DEF l
<1>4. (Serves(p))'
  BY <1>1, <1>2, <1>3 DEF Serves, Kind, EventOf, Events
<1> QED
  BY <1>1, <1>4, Moves

LEMMA WriteStep ==
    ASSUME WebhookInv, NEW p \in Workers, WriteRow(p) \/ HandlerFails(p)
    PROVE  WebhookInv'
<1>1. Serves(p) /\ UNCHANGED <<history, status, acked, granted>>
  BY DEF WebhookInv, WriteRow, HandlerFails, stripe, ledger
<1>2. loc[p].event \in Events /\ (WriteRow(p) => Kind(p) \in StateKinds)
  BY <1>1 DEF Serves, WriteRow, HandlerFails
<1>3. CASE WriteRow(p)
  BY <1>1, <1>2, <1>3, Finishes DEF WriteRow, StateKinds
<1>4. CASE HandlerFails(p)
  BY <1>1, <1>2, <1>4, Finishes DEF HandlerFails
<1> QED
  BY <1>3, <1>4

\* FinishWebhookEvent settles and acknowledges what had its effect, whoever
\* holds the claim by then.
LEMMA FinishStep ==
    ASSUME WebhookInv, NEW p \in Workers, FinishWebhookEvent(p)
    PROVE  WebhookInv'
<1>1. /\ pc' = [pc EXCEPT ![p] = "idle"] /\ loc' = [loc EXCEPT ![p] = Nothing]
      /\ status' = [status EXCEPT ![loc[p].event] = loc[p].outcome]
      /\ acked' = IF loc[p].outcome = "failed" THEN acked ELSE acked \cup {loc[p].event}
      /\ UNCHANGED <<history, granted, effected>>
  BY DEF FinishWebhookEvent, Done, Start
<1>2. Serves(p) /\ pc[p] = "finish"
  BY DEF WebhookInv, FinishWebhookEvent
<1>3. loc[p].event \in Events /\ (loc[p].outcome # "failed" => Handled(loc[p].event))
  BY <1>2 DEF Serves
<1>4. \A q \in Workers : (Serves(q))'
  BY <1>1 DEF WebhookInv, Serves, Kind, EventOf, Events, Workers, Handled
<1>5. \A d \in Events : status'[d] \in Settled => Handled(d)'
  BY <1>1, <1>3 DEF WebhookInv, Handled, Settled, EventOf
<1>6. acked' \subseteq Events /\ \A d \in acked' : Handled(d)'
  BY <1>1, <1>3 DEF WebhookInv, Handled, EventOf
<1> QED
  BY <1>1, <1>4, <1>5, <1>6 DEF WebhookInv, EventOf, Events, Workers, Pcs

\* A worker that comes to rest, or goes on with an admin's reconcile.
LEMMA OtherMovesStep ==
    ASSUME WebhookInv, NEW p \in Workers,
           FinishFails(p) \/ ReconcileList(p) \/ ReconcileApply(p) \/ ReconcileWrite(p) \/ RepairRead(p)
    PROVE  WebhookInv'
<1>1. UNCHANGED <<history, status, acked, granted, effected>>
  BY DEF FinishFails, ReconcileList, ReconcileApply, ReconcileWrite, RepairRead, stripe, ledger
<1>2. PICK at, l :
          /\ at \in {"idle", "none_listed", "fetched", "reconcile_write", "repair"}
          /\ Start(p, at, l)
          /\ (at = "fetched" => l.event = Reconcile)
  <2>1. CASE ReconcileList(p)
    <3>1. CASE Start(p, "none_listed", [event |-> Reconcile])
      BY <3>1
    <3>2. CASE \E s : Start(p, "fetched", [event |-> Reconcile, sub |-> SubAt[s][now]])
      <4>1. PICK s : Start(p, "fetched", [event |-> Reconcile, sub |-> SubAt[s][now]])
        BY <3>2
      <4>2. [event |-> Reconcile, sub |-> SubAt[s][now]].event = Reconcile
        OBVIOUS
      <4> QED
        BY <4>1, <4>2
    <3> QED
      BY <2>1, <3>1, <3>2 DEF ReconcileList
  <2>3. CASE ReconcileApply(p)
    BY <2>3 DEF ReconcileApply
  <2>2. CASE FinishFails(p) \/ ReconcileWrite(p) \/ RepairRead(p)
    BY <2>2 DEF FinishFails, ReconcileWrite, RepairRead, Done, Goto
  <2> QED
    BY <2>1, <2>2, <2>3
<1>3. pc'[p] = at /\ loc'[p] = l
  BY <1>2 DEF Start, WebhookInv
<1>4. (Serves(p))'
  BY <1>2, <1>3 DEF Serves
<1> QED
  BY <1>1, <1>2, <1>4, Moves DEF Pcs

\* Time, leases and crashes.
LEMMA EnvironmentStep ==
    ASSUME WebhookInv, Tick \/ Crash \/ (\E e \in Events : LeaseLapses(e))
    PROVE  WebhookInv'
<1>1. UNCHANGED <<history, status, acked, granted, effected>>
  BY DEF Tick, Crash, LeaseLapses, stripe, ledger
<1>2. CASE UNCHANGED <<pc, loc>>
  BY <1>1, <1>2 DEF WebhookInv, Serves, Kind, EventOf, Events, Workers, Handled
<1>3. CASE Crash
  BY <1>1, <1>3 DEF Crash, WebhookInv, Serves, EventOf, Events, Workers, Handled, Pcs
<1> QED
  BY <1>2, <1>3 DEF Tick, LeaseLapses, Stay

LEMMA WebhookNext == ASSUME WebhookInv, [Next]_vars PROVE WebhookInv'
<1>1. CASE UNCHANGED vars
  BY <1>1 DEF vars, WebhookInv, Serves, Kind, EventOf, Events, Workers, Handled
<1>2. CASE \E e \in Events : Delivery(e)
  BY <1>2, ClaimStep, AcknowledgeStep DEF Delivery
<1>3. ASSUME NEW p \in Workers, WorkerStep(p) PROVE WebhookInv'
  BY <1>3, DispatchStep, StoreCustomerStep, GrantStep, HandleStep, FetchStep, WriteStep,
     FinishStep, OtherMovesStep DEF WorkerStep
<1>4. ASSUME NEW p \in Workers, Fault(p) \/ ReconcileList(p) PROVE WebhookInv'
  BY <1>4, StoreCustomerStep, WriteStep, OtherMovesStep DEF Fault
<1>5. CASE Tick \/ Crash \/ (\E e \in Events : LeaseLapses(e))
  BY <1>5, EnvironmentStep
<1> QED
  BY <1>1, <1>2, <1>3, <1>4, <1>5 DEF Next

LEMMA WebhookInvariant == Spec => []WebhookInv
  BY InitWebhook, WebhookNext, PTL DEF Spec

\* Stripe is told 200, and stops sending, only when a handler completed the
\* event, for every history, any number of goroutines, whoever holds the
\* claim when a handler finishes and however often leases lapse
\* (ProcessEvent, ClaimWebhookEvent, FinishWebhookEvent).
THEOREM AcknowledgedIsEffected == Spec => []AckedMeansEffected
<1>1. WebhookInv => AckedMeansEffected
  BY DEF WebhookInv, Handled, AckedMeansEffected
<1> QED
  BY <1>1, WebhookInvariant, PTL

\* An acknowledged top-up is on record as granted, and a granted one is never
\* granted again (GrantTopUpOnce): no history loses a paid pack to a claim
\* that lapsed or a handler that failed after its grant.
AckedTopUpsGranted == \A e \in acked : EventOf[e].kind = "topup" => e \in granted

THEOREM NoPackIsLost == Spec => []AckedTopUpsGranted
<1>1. WebhookInv => AckedTopUpsGranted
  BY DEF WebhookInv, Handled, AckedTopUpsGranted
<1> QED
  BY <1>1, WebhookInvariant, PTL

-----------------------------------------------------------------------------
(***************************************************************************)
(* Exactly-once credits.  A subscription that ends or rolls over takes the *)
(* top-ups with it, and the customer's id is stored with a write of the    *)
(* whole row that loses what another goroutine granted meanwhile: the      *)
(* promise is that of histories with neither.                              *)
(***************************************************************************)
LeavesCredits(ev) ==
    \/ ev.kind \in {"subscription_checkout", "unpaid_checkout", "topup", "other"}
    \/ ev.kind = "subscription" /\ ev.payload.price = "unknown"

Undisturbed(h) ==
    /\ h.reconciles = 0
    /\ \A e \in DOMAIN h.events : LeavesCredits(h.events[e])
    /\ \A e \in DOMAIN h.events : h.events[e].customer =>
          \A p, q \in h.workers : p = q

\* The row as it was read is the row: nobody else is there to write it.
Alone(p) ==
    /\ pc[p] \in {"idle", "dispatch", "customer", "grant", "finish"}
    /\ pc[p] = "customer" => loc[p].row = row /\ \A q \in Workers : p = q

CreditInv ==
    /\ Undisturbed(history) /\ reconciles = 0
    /\ row \in Row
    /\ \A p \in Workers : Alone(p)

LEMMA InitCredit == ASSUME Init, Undisturbed(history) PROVE CreditInv
  BY WebhookAssumption DEF Init, CreditInv, Alone, Workers

\* A worker that moves leaves the others alone.
LEMMA AloneMoves ==
    ASSUME WebhookInv, CreditInv, NEW p \in Workers, NEW at, NEW l, Start(p, at, l),
           UNCHANGED <<history, reconciles>>, row' \in Row,
           row' # row => \A q \in Workers : pc[q] = "customer" => q = p,
           (Alone(p))'
    PROVE  CreditInv'
<1>1. ASSUME NEW q \in Workers PROVE (Alone(q))'
  <2>1. CASE q = p
    BY <2>1
  <2>2. CASE q # p
    <3>1. pc'[q] = pc[q] /\ loc'[q] = loc[q] /\ Workers' = Workers
      BY <2>2 DEF WebhookInv, Start, Workers
    <3>2. Alone(q)
      BY DEF CreditInv
    <3> QED
      BY <2>2, <3>1, <3>2 DEF Alone
  <2> QED BY <2>1, <2>2
<1>2. Workers' = Workers
  BY DEF Workers
<1> QED
  BY <1>1, <1>2 DEF CreditInv

\* A worker that goes to a state in which it carries no row.
LEMMA AlonePlain ==
    ASSUME WebhookInv, CreditInv, NEW p \in Workers, NEW at \in {"idle", "dispatch", "grant", "finish"},
           NEW l, Start(p, at, l), UNCHANGED <<history, reconciles>>, row' \in Row,
           row' # row => \A q \in Workers : pc[q] = "customer" => q = p
    PROVE  CreditInv'
<1>1. pc'[p] = at
  BY DEF WebhookInv, Start
<1>2. (Alone(p))'
  BY <1>1 DEF Alone
<1> QED
  BY <1>2, AloneMoves

\* GrantTopUp is the only step that writes the row, and it adds a pack to it.
LEMMA CreditSteps ==
    ASSUME WebhookInv, CreditInv, NEW p \in Workers
    PROVE  /\ WorkerStep(p) \/ Fault(p) \/ ReconcileList(p) => CreditInv' /\ (row' # row => GrantTopUp(p))
           /\ \A e \in Events : ClaimWebhookEvent(p, e) => CreditInv'
<1>1. ASSUME NEW e \in Events, ClaimWebhookEvent(p, e) PROVE CreditInv'
  <2>1. Start(p, "dispatch", [event |-> e]) /\ UNCHANGED <<history, reconciles, row>>
    BY <1>1 DEF ClaimWebhookEvent, stripe, bounds
  <2> QED
    BY <2>1, AlonePlain DEF CreditInv
<1>2. Alone(p) /\ Serves(p)
  BY DEF WebhookInv, CreditInv
<1>3. CASE DispatchWithoutEffect(p)
  BY <1>3, AlonePlain DEF CreditInv, DispatchWithoutEffect, Finishing, stripe, bounds
<1>4. CASE StoreCustomerRead(p)
  <2> DEFINE l == [event |-> loc[p].event, row |-> row]
  <2>1. Start(p, "customer", l) /\ UNCHANGED <<history, reconciles, row>> /\ EventOf[loc[p].event].customer
    BY <1>4 DEF StoreCustomerRead, stripe, bounds
  <2>2. pc'[p] = "customer" /\ loc'[p].row = row
    BY <2>1 DEF WebhookInv, Start
  <2>3. \A q \in Workers : p = q
    BY <1>2, <1>4, <2>1 DEF Serves, StoreCustomerRead, CreditInv, Undisturbed, Events, EventOf, Workers
  <2>4. (Alone(p))'
    BY <2>1, <2>2, <2>3 DEF Alone, Workers
  <2> HIDE DEF l
  <2> QED
    BY <1>4, <2>1, <2>4, AloneMoves DEF CreditInv
<1>5. CASE StoreCustomerWrite(p)
  <2>1. row' = row
    BY <1>2, <1>5 DEF Alone, StoreCustomerWrite
  <2> QED
    BY <1>5, <2>1, AlonePlain DEF CreditInv, StoreCustomerWrite, stripe, bounds
<1>6. CASE StoreCustomerFails(p)
  BY <1>6, AlonePlain DEF CreditInv, StoreCustomerFails, stripe
<1>7. CASE GrantTopUp(p)
  <2>1. row' \in Row
    <3>1. [row EXCEPT !.topup = @ + PackCredits] \in Row
      BY WebhookAssumption DEF CreditInv, Row
    <3> QED
      BY <1>7, <3>1 DEF GrantTopUp, CreditInv
  <2>2. \A q \in Workers : pc[q] = "customer" => q = p
    BY DEF CreditInv, Alone
  <2> QED
    BY <1>7, <2>1, <2>2, AlonePlain DEF GrantTopUp, Finishing, stripe, bounds
<1>8. CASE HandleSubscription(p)
  <2>1. Kind(p) = "subscription" /\ EventOf[loc[p].event].payload.price = "unknown"
    BY <1>2, <1>8 DEF Serves, HandleSubscription, CreditInv, Undisturbed, LeavesCredits, Events, EventOf, Kind
  <2>2. Finishing(p, "failed") /\ UNCHANGED <<history, reconciles, row>>
    BY <1>8, <2>1 DEF HandleSubscription, ApplySubscriptionEvent, stripe, bounds
  <2> QED
    BY <2>2, AlonePlain DEF CreditInv, Finishing
<1>9. ~FetchSubscription(p)
  BY <1>2 DEF Serves, FetchSubscription, CreditInv, Undisturbed, LeavesCredits, Events, EventOf, Kind
<1>10. /\ ~HandleInvoice(p) /\ ~WriteRow(p) /\ ~ReconcileApply(p) /\ ~ReconcileWrite(p)
       /\ ~RepairRead(p)
  BY <1>2 DEF Alone, HandleInvoice, WriteRow, ReconcileApply, ReconcileWrite, RepairRead
<1>11. ~ReconcileList(p)
  BY DEF CreditInv, Undisturbed, ReconcileList
<1>12. CASE FinishWebhookEvent(p) \/ FinishFails(p)
  BY <1>12, AlonePlain DEF CreditInv, FinishWebhookEvent, FinishFails, Done, stripe, bounds
<1>13. CASE HandlerFails(p)
  BY <1>13, AlonePlain DEF CreditInv, HandlerFails, Finishing, stripe
<1>14. row' # row /\ (WorkerStep(p) \/ Fault(p) \/ ReconcileList(p)) => GrantTopUp(p)
  <2>1. StoreCustomerWrite(p) => row' = row
    BY <1>2 DEF Alone, StoreCustomerWrite
  <2> QED
    BY <2>1, <1>9, <1>10, <1>11
       DEF WorkerStep, Fault, DispatchWithoutEffect, StoreCustomerRead, StoreCustomerFails,
           HandleSubscription, FinishWebhookEvent, FinishFails, HandlerFails
<1> QED
  BY <1>1, <1>3, <1>4, <1>5, <1>6, <1>7, <1>8, <1>9, <1>10, <1>11, <1>12, <1>13, <1>14
     DEF WorkerStep, Fault

LEMMA CreditNext == ASSUME WebhookInv, CreditInv, [Next]_vars PROVE CreditInv'
<1>1. CASE \E e \in Events : LeaseLapses(e) \/ \E p \in Workers : AcknowledgeAgain(p, e)
  BY <1>1 DEF LeaseLapses, AcknowledgeAgain, stripe, bounds, Stay, CreditInv, Alone, Workers
<1>2. CASE Tick \/ UNCHANGED vars
  BY <1>2 DEF Tick, vars, bounds, Stay, CreditInv, Alone, Workers
<1>3. CASE Crash
  BY <1>3 DEF Crash, stripe, CreditInv, Alone, Workers
<1> QED
  BY <1>1, <1>2, <1>3, CreditSteps DEF Next, Delivery

LEMMA CreditInvariant == Spec /\ Undisturbed(history) => [](WebhookInv /\ CreditInv)
  BY InitCredit, CreditNext, WebhookInvariant, PTL DEF Spec

\* Who grants and who acknowledges.
LEMMA WhoGrants ==
    ASSUME NEW p \in Workers, WorkerStep(p) \/ Fault(p) \/ ReconcileList(p)
    PROVE  /\ history' = history
           /\ granted' = granted \/ GrantTopUp(p)
           /\ acked' = acked \/ FinishWebhookEvent(p)
<1>1. CASE DispatchWithoutEffect(p) \/ StoreCustomerRead(p) \/ StoreCustomerWrite(p)
           \/ StoreCustomerFails(p) \/ GrantTopUp(p)
  BY <1>1 DEF DispatchWithoutEffect, StoreCustomerRead, StoreCustomerWrite, StoreCustomerFails,
              GrantTopUp, stripe
<1>2. CASE HandleSubscription(p) \/ FetchSubscription(p) \/ HandleInvoice(p) \/ WriteRow(p)
           \/ HandlerFails(p)
  BY <1>2 DEF HandleSubscription, FetchSubscription, HandleInvoice, WriteRow, HandlerFails, stripe
<1>3. CASE FinishWebhookEvent(p) \/ FinishFails(p) \/ ReconcileApply(p) \/ ReconcileWrite(p)
           \/ RepairRead(p) \/ ReconcileList(p)
  BY <1>3 DEF FinishWebhookEvent, FinishFails, ReconcileApply, ReconcileWrite, RepairRead,
              ReconcileList, stripe
<1> QED
  BY <1>1, <1>2, <1>3 DEF WorkerStep, Fault

TopUpsAcked == {e \in acked : EventOf[e].kind = "topup"}
Credits == row.topup - InitRow.topup

LEMMA AcknowledgeRefines ==
    ASSUME WebhookInv, NEW e \in Events, Handled(e), acked' = acked \cup {e},
           UNCHANGED <<history, granted, row>>
    PROVE  [Grants!Next]_<<granted, TopUpsAcked, Credits>>
<1>1. Credits' = Credits /\ EventOf' = EventOf
  BY DEF Credits, EventOf
<1>2. CASE EventOf[e].kind = "topup"
  <2>1. e \in TopUpEvents /\ e \in granted
    BY <1>2 DEF WebhookInv, TopUpEvents, AllEvents, Events, EventOf, Handled
  <2>2. TopUpsAcked' = TopUpsAcked \cup {e}
    BY <1>1, <1>2 DEF TopUpsAcked
  <2> QED
    BY <1>1, <2>1, <2>2 DEF Grants!Next, Grants!Acknowledge, TopUpsAcked, Credits
<1>3. CASE EventOf[e].kind # "topup"
  BY <1>1, <1>3 DEF TopUpsAcked
<1> QED
  BY <1>2, <1>3

\* A step credits a pack that was not credited, acknowledges one that was, or
\* changes nothing of either.
LEMMA CreditRefines ==
    ASSUME WebhookInv, CreditInv, [Next]_vars
    PROVE  [Grants!Next]_<<granted, TopUpsAcked, Credits>>
<1>1. CASE UNCHANGED <<history, granted, acked, row>>
  BY <1>1 DEF TopUpsAcked, Credits, EventOf
<1>2. ASSUME NEW p \in Workers, GrantTopUp(p) PROVE [Grants!Next]_<<granted, TopUpsAcked, Credits>>
  <2> DEFINE e == loc[p].event
  <2>1. UNCHANGED <<history, acked>> /\ TopUpsAcked' = TopUpsAcked
    BY <1>2 DEF GrantTopUp, stripe, TopUpsAcked, EventOf
  <2>2. CASE e \in granted
    BY <1>2, <2>1, <2>2 DEF GrantTopUp, NotGranted, Credits
  <2>3. CASE e \notin granted
    <3>1. e \in TopUpEvents
      BY <1>2 DEF GrantTopUp, WebhookInv, Serves, Kind, TopUpEvents, AllEvents, Events, EventOf
    <3>2. granted' = granted \cup {e} /\ row' = [row EXCEPT !.topup = @ + PackCredits]
      BY <1>2, <2>3 DEF GrantTopUp, NotGranted
    <3>3. row'.topup = row.topup + PackCredits /\ row.topup \in Nat /\ InitRow.topup \in Nat
      BY <3>2, WebhookAssumption DEF CreditInv, Row
    <3>4. Credits' = Credits + PackCredits
      BY <3>3, WebhookAssumption DEF Credits
    <3> QED
      BY <2>1, <2>3, <3>1, <3>2, <3>4 DEF Grants!Next, Grants!Credit, TopUpsAcked, Credits
  <2> QED
    BY <2>2, <2>3
<1>3. ASSUME NEW p \in Workers, NEW e \in Events, AcknowledgeAgain(p, e)
      PROVE  [Grants!Next]_<<granted, TopUpsAcked, Credits>>
  <2>1. Handled(e) /\ acked' = acked \cup {e} /\ UNCHANGED <<history, granted, row>>
    BY <1>3 DEF AcknowledgeAgain, AlreadyProcessed, WebhookInv
  <2> QED
    BY <2>1, AcknowledgeRefines
<1>4. ASSUME NEW p \in Workers, FinishWebhookEvent(p)
      PROVE  [Grants!Next]_<<granted, TopUpsAcked, Credits>>
  <2>1. UNCHANGED <<history, granted, row>>
    BY <1>4 DEF FinishWebhookEvent
  <2>2. CASE loc[p].outcome = "failed"
    BY <1>1, <1>4, <2>1, <2>2 DEF FinishWebhookEvent
  <2>3. CASE loc[p].outcome # "failed"
    <3>1. loc[p].event \in Events /\ Handled(loc[p].event)
      BY <1>4, <2>3 DEF FinishWebhookEvent, WebhookInv, Serves
    <3>2. acked' = acked \cup {loc[p].event}
      BY <1>4, <2>3 DEF FinishWebhookEvent
    <3> QED
      BY <2>1, <3>1, <3>2, AcknowledgeRefines
  <2> QED
    BY <2>2, <2>3
<1>5. ASSUME NEW p \in Workers, WorkerStep(p) \/ Fault(p) \/ ReconcileList(p)
      PROVE  [Grants!Next]_<<granted, TopUpsAcked, Credits>>
  BY <1>1, <1>2, <1>4, <1>5, WhoGrants, CreditSteps
<1>6. CASE Tick \/ Crash \/ UNCHANGED vars \/ (\E e \in Events : LeaseLapses(e))
           \/ (\E p \in Workers, e \in Events : ClaimWebhookEvent(p, e))
  BY <1>1, <1>6 DEF Tick, Crash, vars, LeaseLapses, ClaimWebhookEvent, stripe
<1> QED
  BY <1>3, <1>5, <1>6 DEF Next, Delivery

\* However often they are delivered, claimed, reclaimed and retried, and
\* whatever crashes, paid checkouts are credited exactly once, and only
\* credited ones are acknowledged (ProcessEvent, GrantTopUpOnce).
THEOREM CreditedExactlyOnce == Spec /\ Undisturbed(history) => CheckoutsCreditedOnce
<1>1. Init => Grants!Init
  BY WebhookAssumption DEF Init, Grants!Init, Row
<1>2. WebhookInv /\ CreditInv /\ [Next]_vars => [Grants!Next]_<<granted, TopUpsAcked, Credits>>
  BY CreditRefines
<1> QED
  BY <1>1, <1>2, CreditInvariant, PTL DEF Spec, CheckoutsCreditedOnce, Grants!Spec, TopUpsAcked, Credits

-----------------------------------------------------------------------------
(***************************************************************************)
(* Convergence.  The row follows the newest event, however late the others *)
(* come, as ApplyStripeSubscription discards what is older than what it    *)
(* recorded; LastWordIsTrue says when that leads to the state at Stripe.   *)
(***************************************************************************)
\* A row that may be after the events in "done" had their effect.
Written(h, sub, r, done) ==
    /\ r \in Row /\ r.ev <= LastTime(h)
    /\ IF GrantsAccess(sub)
       THEN /\ r.ev = LastTime(h) =>
                  /\ r.plan = sub.price /\ r.plan \in Paid
                  /\ r.status = sub.status /\ r.cancel = sub.cancel
            /\ \A e \in done : e \in Newest(h) => r.ev = LastTime(h)
       ELSE \A e \in done : e \in Newest(h) /\ EndsPlan(h, e) =>
                  r.ev = LastTime(h) /\ r.plan = "expired"

\* What the goroutine carries: the row it read is still the row, and the row
\* it writes follows from it.
Carries(p, sub) ==
    /\ pc[p] \in {"idle", "dispatch", "customer", "grant", "fetched", "write", "finish"}
    /\ pc[p] = "dispatch" => EventOf[loc[p].event].created <= now
    /\ pc[p] = "customer" => loc[p].row = row
    /\ pc[p] = "fetched" => loc[p].event \in Events /\ loc[p].sub \in Heard(history, loc[p].event)
    /\ pc[p] = "write" => Written(history, sub, loc[p].row, effected \cup {loc[p].event})

Follows(sub) ==
    /\ Written(history, sub, row, effected)
    /\ \A p \in Workers : Carries(p, sub)

ConvergeInv ==
    /\ \A p, q \in Workers : p = q
    /\ now \in 0..history.end /\ reconciles \in Nat
    /\ StateEventsOf(history) # {} =>
          /\ Newest(history) # {}
          /\ \E s \in DOMAIN history.subs :
                /\ AtEnd(history, s) /\ LastWord(history, history.subs[s][history.end])
                /\ reconciles = 0 => Follows(history.subs[s][history.end])

\* The newest events are those of the last time.
LEMMA LastTimeIs ==
    ASSUME NEW h \in Histories, Newest(h) # {}
    PROVE  /\ LastTime(h) \in Nat
           /\ \A e \in StateEventsOf(h) :
                 /\ h.events[e].created \in Nat /\ h.events[e].created > 0
                 /\ h.events[e].created <= LastTime(h)
                 /\ e \in Newest(h) <=> h.events[e].created = LastTime(h)
<1> DEFINE n == CHOOSE e \in Newest(h) : TRUE
<1>1. n \in Newest(h) /\ LastTime(h) = h.events[n].created
  BY DEF LastTime
<1>2. \A e \in DOMAIN h.events : h.events[e].created \in 1..h.end /\ h.end \in Nat
  BY WebhookAssumption
<1> HIDE DEF n
<1> QED
  BY <1>1, <1>2 DEF Newest, StateEventsOf

\* The row an update leads to: it is stamped with the event's time, an update
\* that ends the plan does, and one that does not says what Stripe says
\* (ApplyStripeSubscription).
LEMMA AppliedSays ==
    ASSUME NEW r \in Row, NEW in \in Update, in.created > 0, ~in.metadataOnly,
           in.terminate = ~SubscriptionActive(in.status)
    PROVE  /\ AppliedUpdate(r, in) \in Row
           /\ AppliedUpdate(r, in).ev = in.created
           /\ in.terminate => AppliedUpdate(r, in).plan = "expired"
           /\ ~in.terminate =>
                 /\ AppliedUpdate(r, in).plan = in.plan
                 /\ AppliedUpdate(r, in).status = in.status
                 /\ AppliedUpdate(r, in).cancel = in.cancel
<1>1. /\ in.plan \in Paid /\ in.status \in Statuses /\ in.cancel \in BOOLEAN
      /\ in.start \in Nat /\ in.created \in Nat
  BY DEF Update
<1>2. /\ in.plan \in Plans /\ "expired" \in Plans /\ "canceled" \in Statuses
      /\ Grant[in.plan] \in Nat
  BY <1>1, GrantAssumption DEF Plans, Statuses
<1>3. /\ r.allow \in Nat /\ r.used \in Nat /\ r.debt \in Nat /\ r.start \in Nat
      /\ Stamp(r, in) = in.created /\ r.debt + Overage(r) \in Nat
  BY <1>1 DEF Row, Stamp, Overage, AtLeast0
<1>4. CASE in.terminate
  <2> DEFINE o == TerminateSubscription(r, in)
  <2>1. o \in Row /\ o.ev = in.created /\ o.plan = "expired"
    BY <1>1, <1>2, <1>3 DEF TerminateSubscription, Row
  <2> QED
    BY <1>4, <2>1 DEF AppliedUpdate
<1>5. CASE ~in.terminate
  <2> DEFINE s == Subscribed(r, in)
             Says(o) == /\ o \in Row /\ o.ev = in.created /\ o.plan = in.plan
                        /\ o.status = in.status /\ o.cancel = in.cancel
  <2>1. Says(s) /\ s.allow = r.allow /\ s.start = r.start
    BY <1>1, <1>2, <1>3 DEF Subscribed, Row
  <2>2. \A a, b \in Nat : Says([s EXCEPT !.allow = a, !.start = b])
    <3> HIDE DEF s
    <3> QED
      BY <2>1 DEF Row
  <2>3. Says(RollOver(r, in))
    <3> DEFINE Renewed(d, a, b) ==
                   [s EXCEPT !.debt = d, !.used = 0, !.topup = 0, !.allow = a, !.start = b]
    <3>1. \A d, a, b \in Nat : Says(Renewed(d, a, b))
      <4> HIDE DEF s
      <4> QED
        BY <2>1 DEF Row
    <3>2. RollOver(r, in) = Renewed(r.debt + Overage(r), Grant[in.plan], in.start)
      <4>1. s.debt = r.debt
        BY <1>3 DEF Subscribed, Row
      <4> HIDE DEF s
      <4> QED
        BY <4>1 DEF RollOver, s
    <3> DEFINE d == r.debt + Overage(r)
               a == Grant[in.plan]
               b == in.start
    <3>3. d \in Nat /\ a \in Nat /\ b \in Nat
      BY <1>1, <1>2, <1>3
    <3>4. RollOver(r, in) = Renewed(d, a, b)
      BY <3>2
    <3> HIDE DEF s, Renewed, d, a, b
    <3>5. Says(Renewed(d, a, b))
      BY <3>1, <3>3
    <3> QED
      BY <3>4, <3>5
  <2> DEFINE a == IF PlanGrantsNow(r, in) THEN Grant[in.plan] ELSE s.allow
             b == IF in.start > 0 THEN in.start ELSE s.start
  <2>4. a \in Nat /\ b \in Nat
    BY <1>1, <1>2, <1>3, <2>1
  <2>5. AppliedUpdate(r, in) \in {s, RollOver(r, in), [s EXCEPT !.allow = a, !.start = b]}
    BY <1>5 DEF AppliedUpdate
  <2> DEFINE u == [s EXCEPT !.allow = a, !.start = b]
  <2>6. Says(s)
    BY <2>1
  <2>7. Says(u)
    <3> HIDE DEF s, a, b
    <3>1. \A m, n \in Nat : Says([s EXCEPT !.allow = m, !.start = n])
      BY <2>2
    <3> HIDE DEF Says
    <3> QED
      BY <2>4, <3>1 DEF u
  <2> HIDE DEF s, u
  <2>8. Says(AppliedUpdate(r, in))
    <3> HIDE DEF Says
    <3> QED
      BY <2>3, <2>5, <2>6, <2>7, Zenon DEF u
  <2> QED
    BY <1>5, <2>8
<1> QED
  BY <1>4, <1>5

\* What the handler of an event makes of it.
UpdateOf(h, e, in) ==
    /\ in \in Update /\ ~in.metadataOnly /\ in.created = h.events[e].created
    /\ in.terminate = ~SubscriptionActive(in.status)
    /\ IF h.events[e].kind = "deleted" THEN in.terminate
       ELSE \E x \in Heard(h, e) :
               in.plan = x.price /\ in.status = x.status /\ in.cancel = x.cancel

\* However the newest event and the row compare, the row follows what is
\* newest once the event had its effect.
LEMMA RowFollows ==
    ASSUME NEW h \in Histories, Newest(h) # {}, NEW sub, LastWord(h, sub),
           NEW r, NEW done, Written(h, sub, r, done),
           NEW e \in StateEventsOf(h), NEW in, UpdateOf(h, e, in)
    PROVE  /\ StaleUpdate(r, in) => Written(h, sub, r, done \cup {e})
           /\ ~StaleUpdate(r, in) => Written(h, sub, AppliedUpdate(r, in), done \cup {e})
<1> DEFINE T == LastTime(h)
           o == AppliedUpdate(r, in)
<1>1. /\ T \in Nat /\ in.created > 0 /\ in.created \in Nat /\ in.created <= T
      /\ e \in Newest(h) <=> in.created = T
  BY LastTimeIs DEF UpdateOf
<1>2. /\ o \in Row /\ o.ev = in.created
      /\ in.terminate => o.plan = "expired"
      /\ ~in.terminate => o.plan = in.plan /\ o.status = in.status /\ o.cancel = in.cancel
  BY <1>1, AppliedSays DEF UpdateOf, Written
<1>3. r \in Row /\ r.ev \in Nat /\ r.ev <= T
  BY DEF Written, Row
<1>4. \A d \in StateEventsOf(h) : d \in Newest(h) <=> h.events[d].created = T
  BY LastTimeIs
<1>5. in.plan \in Paid /\ "expired" \notin Paid
  BY DEF UpdateOf, Update, Paid
<1>6. e \in Newest(h) /\ EndsPlan(h, e) => in.terminate
  BY <1>5 DEF EndsPlan, UpdateOf, GrantsAccess
<1>7. e \in Newest(h) /\ GrantsAccess(sub) =>
          /\ ~in.terminate /\ in.plan = sub.price /\ in.status = sub.status /\ in.cancel = sub.cancel
  BY <1>5 DEF LastWord, Confirms, UpdateOf, GrantsAccess
<1> HIDE DEF T, o
<1>8. CASE StaleUpdate(r, in)
  <2>1. r.ev >= in.created /\ (r.ev = in.created => r.plan = "expired" /\ ~in.terminate)
    BY <1>1, <1>3, <1>8 DEF StaleUpdate
  <2>2. CASE GrantsAccess(sub)
    <3>1. e \notin Newest(h)
      BY <1>1, <1>3, <1>5, <2>1, <2>2 DEF Written, T
    <3> QED
      BY <1>8, <2>2, <3>1 DEF Written
  <2>3. CASE ~GrantsAccess(sub)
    <3>1. ~(e \in Newest(h) /\ EndsPlan(h, e))
      BY <1>1, <1>3, <1>6, <2>1
    <3> QED
      BY <1>8, <2>3, <3>1 DEF Written
  <2> QED BY <2>2, <2>3
<1>9. CASE ~StaleUpdate(r, in)
  <2>1. r.ev <= in.created /\ (r.ev = in.created => r.plan # "expired" \/ in.terminate)
    BY <1>1, <1>3, <1>9 DEF StaleUpdate
  <2>2. o.ev <= T
    BY <1>1, <1>2
  <2>3. CASE GrantsAccess(sub)
    <3>1. o.ev = T => o.plan = sub.price /\ o.plan \in Paid /\ o.status = sub.status /\ o.cancel = sub.cancel
      BY <1>1, <1>2, <1>5, <1>7, <2>3
    <3>2. \A d \in done \cup {e} : d \in Newest(h) => o.ev = T
      BY <1>1, <1>2, <1>3, <2>1, <2>3 DEF Written, T
    <3> QED
      BY <1>2, <1>9, <2>2, <2>3, <3>1, <3>2 DEF Written, T, o
  <2>4. CASE ~GrantsAccess(sub)
    <3>1. \A d \in done \cup {e} : d \in Newest(h) /\ EndsPlan(h, d) => o.ev = T /\ o.plan = "expired"
      BY <1>1, <1>2, <1>3, <1>6, <2>1, <2>4 DEF Written, T
    <3> QED
      BY <1>2, <1>9, <2>2, <2>4, <3>1 DEF Written, T, o
  <2> QED BY <2>3, <2>4
<1> QED
  BY <1>8, <1>9

\* Other events change nothing the newest ones say; nor does a pack.
LEMMA OthersLeaveRow ==
    ASSUME NEW h, NEW sub, NEW r, NEW done, Written(h, sub, r, done),
           NEW e \in DOMAIN h.events, h.events[e].kind \notin StateKinds
    PROVE  /\ Written(h, sub, r, done \cup {e})
           /\ Written(h, sub, [r EXCEPT !.topup = @ + PackCredits], done \cup {e})
<1>1. e \notin Newest(h)
  BY DEF Newest, StateEventsOf
<1>2. Written(h, sub, r, done \cup {e})
  BY <1>1 DEF Written
<1> DEFINE o == [r EXCEPT !.topup = @ + PackCredits]
<1>3. /\ o \in Row /\ o.ev = r.ev /\ o.plan = r.plan /\ o.status = r.status /\ o.cancel = r.cancel
  <2>1. r \in Row
    BY DEF Written
  <2>2. r.topup + PackCredits \in Nat
    BY <2>1, WebhookAssumption DEF Row
  <2> QED
    BY <2>1, <2>2 DEF Row
<1> HIDE DEF o
<1>4. Written(h, sub, o, done \cup {e})
  BY <1>2, <1>3 DEF Written
<1> QED
  BY <1>2, <1>4 DEF o

-----------------------------------------------------------------------------
\* While no admin reconciles: one goroutine, and a row that follows.
Following(sub) ==
    /\ WebhookInv
    /\ \A p, q \in Workers : p = q
    /\ now \in 0..history.end
    /\ Newest(history) # {} /\ LastWord(history, sub)
    /\ Follows(sub)

\* The goroutine moves; there is no other.
LEMMA FollowMoves ==
    ASSUME NEW sub, Following(sub), NEW p \in Workers, NEW at, NEW l, Start(p, at, l),
           UNCHANGED <<history, now>>, Written(history, sub, row', effected'),
           (Carries(p, sub))'
    PROVE  (Follows(sub))'
  BY DEF Following, Follows, Workers

\* It moves to where it carries nothing that this is about.
LEMMA FollowPlain ==
    ASSUME NEW sub, Following(sub), NEW p \in Workers, NEW at \in {"idle", "grant", "finish"},
           NEW l, Start(p, at, l),
           UNCHANGED <<history, now>>, Written(history, sub, row', effected')
    PROVE  (Follows(sub))'
<1>1. pc'[p] = at
  BY DEF Following, WebhookInv, Start
<1>2. (Carries(p, sub))'
  BY <1>1 DEF Carries
<1> QED
  BY <1>2, FollowMoves

LEMMA FollowFinishing ==
    ASSUME NEW sub, Following(sub), NEW p \in Workers, NEW outcome, Finishing(p, outcome),
           UNCHANGED <<history, now>>,
           Written(history, sub, row', IF outcome = "failed" THEN effected
                                       ELSE effected \cup {loc[p].event})
    PROVE  (Follows(sub))'
<1> DEFINE l == [event |-> loc[p].event, outcome |-> outcome]
<1>1. Start(p, "finish", l) /\ Written(history, sub, row', effected')
  BY DEF Finishing
<1> HIDE DEF l
<1> QED
  BY <1>1, FollowPlain

LEMMA FollowClaim ==
    ASSUME NEW sub, Following(sub), NEW p \in Workers, NEW e \in Events, ClaimWebhookEvent(p, e)
    PROVE  (Follows(sub))'
<1> DEFINE l == [event |-> e]
<1>1. Start(p, "dispatch", l) /\ UNCHANGED <<history, now, row, effected>> /\ EventOf[e].created <= now
  BY DEF ClaimWebhookEvent, Delivered, stripe
<1>2. pc'[p] = "dispatch" /\ loc'[p].event = e
  BY <1>1 DEF Following, WebhookInv, Start
<1>3. (Carries(p, sub))'
  BY <1>1, <1>2 DEF Carries, EventOf
<1>4. Written(history, sub, row', effected')
  BY <1>1 DEF Following, Follows
<1> HIDE DEF l
<1> QED
  BY <1>1, <1>3, <1>4, FollowMoves

\* The handlers of checkouts leave the row alone, or add a pack to it.
LEMMA FollowCheckout ==
    ASSUME NEW sub, Following(sub), NEW p \in Workers,
           \/ DispatchWithoutEffect(p) \/ StoreCustomerRead(p) \/ StoreCustomerWrite(p)
           \/ StoreCustomerFails(p) \/ GrantTopUp(p)
    PROVE  (Follows(sub))'
<1>1. Written(history, sub, row, effected) /\ Carries(p, sub) /\ Serves(p)
  BY DEF Following, Follows, WebhookInv
<1>2. loc[p].event \in DOMAIN history.events
  BY <1>1 DEF Serves, Events, EventOf, DispatchWithoutEffect, StoreCustomerRead, StoreCustomerWrite,
              StoreCustomerFails, GrantTopUp
<1>3. CASE DispatchWithoutEffect(p)
  <2>1. Kind(p) \notin StateKinds /\ UNCHANGED <<history, now, row>>
    BY <1>3 DEF DispatchWithoutEffect, StateKinds, stripe
  <2>2. Written(history, sub, row', effected \cup {loc[p].event})
    BY <1>1, <1>2, <2>1, OthersLeaveRow DEF Kind, EventOf
  <2>3. Finishing(p, "processed") \/ Finishing(p, "ignored")
    BY <1>3 DEF DispatchWithoutEffect
  <2> QED
    BY <2>1, <2>2, <2>3, FollowFinishing
<1>4. CASE StoreCustomerRead(p)
  <2> DEFINE l == [event |-> loc[p].event, row |-> row]
  <2>1. Start(p, "customer", l) /\ UNCHANGED <<history, now, row, effected>>
    BY <1>4 DEF StoreCustomerRead, stripe
  <2>2. pc'[p] = "customer" /\ loc'[p].row = row
    BY <2>1 DEF Following, WebhookInv, Start
  <2>3. (Carries(p, sub))'
    BY <2>1, <2>2 DEF Carries
  <2> HIDE DEF l
  <2> QED
    BY <1>1, <2>1, <2>3, FollowMoves
<1>5. CASE StoreCustomerWrite(p) \/ StoreCustomerFails(p)
  <2>1. row' = row /\ effected' = effected /\ UNCHANGED <<history, now>>
    BY <1>1, <1>5 DEF Carries, StoreCustomerWrite, StoreCustomerFails, stripe
  <2>2. Start(p, "grant", [event |-> loc[p].event])
    BY <1>5 DEF StoreCustomerWrite, StoreCustomerFails
  <2> QED
    BY <1>1, <2>1, <2>2, FollowPlain
<1>6. CASE GrantTopUp(p)
  <2>1. Kind(p) = "topup" /\ UNCHANGED <<history, now>> /\ Finishing(p, "processed")
    BY <1>1, <1>6 DEF Serves, GrantTopUp, stripe
  <2>2. /\ Written(history, sub, row, effected \cup {loc[p].event})
        /\ Written(history, sub, [row EXCEPT !.topup = @ + PackCredits], effected \cup {loc[p].event})
    BY <1>1, <1>2, <2>1, OthersLeaveRow DEF Kind, EventOf, StateKinds
  <2>3. row' = row \/ row' = [row EXCEPT !.topup = @ + PackCredits]
    BY <1>6 DEF GrantTopUp
  <2> QED
    BY <2>1, <2>2, <2>3, FollowFinishing
<1> QED
  BY <1>3, <1>4, <1>5, <1>6

\* ApplyStripeSubscription discards the update or prepares the row to write.
LEMMA FollowApply ==
    ASSUME NEW sub, Following(sub), NEW p \in Workers, loc[p].event \in StateEventsOf(history),
           NEW in, UpdateOf(history, loc[p].event, in), ApplyUpdate(p, in),
           UNCHANGED <<history, now, row>>
    PROVE  (Follows(sub))'
<1> DEFINE e == loc[p].event
           next == AppliedUpdate(row, in)
           l == [event |-> e, row |-> next]
<1>0. history \in Histories /\ Newest(history) # {} /\ LastWord(history, sub)
      /\ Written(history, sub, row, effected)
  BY DEF Following, Follows, WebhookInv
<1>1. /\ StaleUpdate(row, in) => Written(history, sub, row, effected \cup {e})
      /\ ~StaleUpdate(row, in) => Written(history, sub, next, effected \cup {e})
  BY <1>0, RowFollows
<1>2. CASE StaleUpdate(row, in)
  BY <1>1, <1>2, FollowFinishing DEF ApplyUpdate
<1>3. CASE ~StaleUpdate(row, in)
  <2>1. Start(p, "write", l) /\ effected' = effected
    BY <1>3 DEF ApplyUpdate
  <2>2. pc'[p] = "write" /\ loc'[p] = l
    BY <2>1 DEF Following, WebhookInv, Start
  <2>3. loc'[p].event = e /\ loc'[p].row = next
    BY <2>2
  <2> HIDE DEF e, l, next
  <2>4. (Carries(p, sub))'
    BY <1>1, <1>3, <2>1, <2>2, <2>3 DEF Carries
  <2> QED
    BY <1>0, <2>1, <2>4, FollowMoves
<1> QED
  BY <1>2, <1>3

\* What the handlers of subscription events derive from what they are told.
LEMMA FollowHandle ==
    ASSUME NEW sub, Following(sub), NEW p \in Workers, HandleSubscription(p) \/ HandleInvoice(p)
    PROVE  (Follows(sub))'
<1> DEFINE e == loc[p].event
           ev == history.events[e]
<1>0. Written(history, sub, row, effected) /\ Carries(p, sub) /\ Serves(p) /\ history \in Histories
  BY DEF Following, Follows, WebhookInv
<1>1. UNCHANGED <<history, now, row>>
  BY DEF HandleSubscription, HandleInvoice, stripe
<1>2. e \in StateEventsOf(history) /\ Kind(p) = ev.kind
  BY <1>0 DEF Serves, HandleSubscription, HandleInvoice, StateEventsOf, StateKinds, Kind, EventOf, Events
<1>3. /\ ev.created \in Nat /\ ev.payload \in Subscription /\ ev.sub \in DOMAIN history.subs
      /\ ev.created \in 1..history.end /\ history.end \in Nat
  BY <1>0, <1>2, WebhookAssumption DEF StateEventsOf
<1>4. ASSUME NEW x \in Heard(history, e), x \in Subscription, ev.kind # "deleted",
             ApplySubscriptionEvent(p, x, ev.created)
      PROVE  (Follows(sub))'
  <2>1. CASE x.price = "unknown"
    BY <1>0, <1>1, <1>4, <2>1, FollowFinishing DEF ApplySubscriptionEvent
  <2>2. CASE x.price # "unknown"
    <3> DEFINE in == UpdateFrom(x, ev.created)
    <3>1. in \in Update
      BY <1>3, <1>4, <2>2 DEF UpdateFrom, Update, Subscription, GrantsAccess, SubscriptionActive
    <3>2. UpdateOf(history, e, in)
      BY <1>4, <3>1 DEF UpdateOf, UpdateFrom, GrantsAccess
    <3>3. ApplyUpdate(p, in)
      BY <1>4, <2>2 DEF ApplySubscriptionEvent
    <3> HIDE DEF in
    <3> QED
      BY <1>1, <1>2, <3>2, <3>3, FollowApply
  <2> QED
    BY <2>1, <2>2
<1>5. CASE HandleSubscription(p) /\ Kind(p) = "subscription"
  <2>1. ApplySubscriptionEvent(p, ev.payload, ev.created)
    BY <1>5 DEF HandleSubscription, EventOf
  <2>2. ev.payload \in Heard(history, e)
    BY <1>2, <1>5 DEF Heard
  <2> QED
    BY <1>2, <1>3, <1>4, <1>5, <2>1, <2>2
<1>6. CASE HandleSubscription(p) /\ Kind(p) = "deleted"
  <2> DEFINE in == TerminationAt(ev.created)
  <2>1. in \in Update
    BY <1>3 DEF TerminationAt, Update, Paid, Statuses
  <2>2. UpdateOf(history, e, in)
    BY <1>2, <1>6, <2>1 DEF UpdateOf, TerminationAt, SubscriptionActive, ActiveStatus
  <2>3. ApplyUpdate(p, in)
    BY <1>6 DEF HandleSubscription, EventOf
  <2> HIDE DEF in
  <2> QED
    BY <1>1, <1>2, <2>2, <2>3, FollowApply
<1>7. CASE HandleInvoice(p)
  <2>1. ApplySubscriptionEvent(p, loc[p].sub, ev.created) /\ loc[p].sub \in Heard(history, e)
    BY <1>0, <1>7 DEF HandleInvoice, EventOf, Carries
  <2>2. ev.kind = "invoice"
    BY <1>0, <1>2, <1>7 DEF HandleInvoice, Serves
  <2>3. loc[p].sub \in Subscription
    <3>1. PICK t \in ev.created..history.end : loc[p].sub = history.subs[ev.sub][t]
      BY <2>1, <2>2 DEF Heard
    <3>2. t \in 0..history.end
      BY <1>3, <3>1
    <3> QED
      BY <1>0, <1>3, <3>1, <3>2, WebhookAssumption
  <2> QED
    BY <1>4, <2>1, <2>2, <2>3
<1> QED
  BY <1>5, <1>6, <1>7 DEF HandleSubscription

\* An invoice's handler asks Stripe after the event was made.
LEMMA FollowFetch ==
    ASSUME NEW sub, Following(sub), NEW p \in Workers, FetchSubscription(p)
    PROVE  (Follows(sub))'
<1> DEFINE e == loc[p].event
           x == SubAt[EventOf[e].sub][now]
           l == [event |-> e, sub |-> x]
<1>0. /\ Written(history, sub, row, effected) /\ Carries(p, sub) /\ Serves(p)
      /\ history \in Histories /\ now \in 0..history.end
  BY DEF Following, Follows, WebhookInv
<1>1. /\ Start(p, "fetched", l) /\ UNCHANGED <<history, now, row, effected>>
      /\ Kind(p) = "invoice" /\ pc[p] = "dispatch"
  BY DEF FetchSubscription, stripe
<1>2. e \in Events /\ EventOf[e].created <= now /\ EventOf[e].created \in Nat
      /\ history.end \in Nat
  BY <1>0, <1>1, WebhookAssumption DEF Serves, Carries, Events, EventOf
<1>3. x \in Heard(history, e)
  <2>1. history.events[e].kind = "invoice"
    BY <1>1 DEF Kind, EventOf
  <2>2. now \in history.events[e].created..history.end
    BY <1>0, <1>2 DEF EventOf
  <2> QED
    BY <2>1, <2>2 DEF Heard, SubAt, EventOf
<1>4. pc'[p] = "fetched" /\ loc'[p].event = e /\ loc'[p].sub = x
  BY <1>1 DEF Following, WebhookInv, Start
<1> HIDE DEF e, x, l
<1>5. (Carries(p, sub))'
  BY <1>1, <1>2, <1>3, <1>4 DEF Carries, Events, EventOf
<1> QED
  BY <1>0, <1>1, <1>5, FollowMoves

\* The row that was prepared is written; or nothing is.
LEMMA FollowWrite ==
    ASSUME NEW sub, Following(sub), NEW p \in Workers,
           WriteRow(p) \/ HandlerFails(p) \/ FinishWebhookEvent(p) \/ FinishFails(p)
    PROVE  (Follows(sub))'
<1>0. Written(history, sub, row, effected) /\ Carries(p, sub)
  BY DEF Following, Follows
<1>1. UNCHANGED <<history, now>>
  BY DEF WriteRow, HandlerFails, FinishWebhookEvent, FinishFails, stripe
<1>2. CASE WriteRow(p)
  <2>1. Written(history, sub, row', effected \cup {loc[p].event})
    BY <1>0, <1>2 DEF Carries, WriteRow
  <2> QED
    BY <1>1, <1>2, <2>1, FollowFinishing DEF WriteRow
<1>3. CASE HandlerFails(p)
  BY <1>0, <1>1, <1>3, FollowFinishing DEF HandlerFails
<1>4. CASE FinishWebhookEvent(p) \/ FinishFails(p)
  BY <1>0, <1>1, <1>4, FollowPlain DEF FinishWebhookEvent, FinishFails, Done
<1> QED
  BY <1>2, <1>3, <1>4

\* No goroutine serves an admin as long as none asked.
LEMMA NoReconcile ==
    ASSUME NEW sub, Following(sub), NEW p \in Workers
    PROVE  ~ReconcileApply(p) /\ ~ReconcileWrite(p) /\ ~RepairRead(p)
<1>1. Carries(p, sub) /\ history \in Histories
  BY DEF Following, Follows, WebhookInv
<1>2. Reconcile \notin Events
  BY <1>1, WebhookAssumption DEF Events, EventOf
<1> QED
  BY <1>1, <1>2 DEF Carries, ReconcileApply, ReconcileWrite, RepairRead

LEMMA FollowEnvironment ==
    ASSUME NEW sub, Following(sub),
           \/ Tick \/ Crash \/ UNCHANGED vars \/ (\E e \in Events : LeaseLapses(e))
           \/ (\E p \in Workers, e \in Events : AcknowledgeAgain(p, e))
    PROVE  (Follows(sub))'
<1>1. UNCHANGED <<history, row, effected>> /\ Workers' = Workers
  BY DEF Tick, Crash, vars, LeaseLapses, AcknowledgeAgain, stripe, Workers
<1>2. CASE Crash
  BY <1>1, <1>2 DEF Crash, Following, Follows, Carries
<1>3. CASE ~Crash
  <2>1. UNCHANGED <<pc, loc>> /\ now' \in {now, now + 1}
    BY <1>3 DEF Tick, vars, LeaseLapses, AcknowledgeAgain, stripe, Stay
  <2>2. ASSUME NEW p \in Workers PROVE (Carries(p, sub))'
    <3>1. Carries(p, sub) /\ now \in Nat /\ history \in Histories /\ Serves(p)
      BY DEF Following, Follows, WebhookInv
    <3>2. pc[p] = "dispatch" => EventOf[loc[p].event].created \in Nat
      BY <3>1, WebhookAssumption DEF Serves, Events, EventOf
    <3>3. pc[p] = "dispatch" => EventOf[loc[p].event].created <= now'
      BY <2>1, <3>1, <3>2 DEF Carries
    <3> QED
      BY <1>1, <2>1, <3>1, <3>3 DEF Carries, Events, EventOf
  <2> QED
    BY <1>1, <2>2 DEF Following, Follows
<1> QED
  BY <1>2, <1>3

LEMMA FollowNext ==
    ASSUME NEW sub, Following(sub), [Next]_vars, ~\E p \in Workers : ReconcileList(p)
    PROVE  (Follows(sub))'
<1>1. ASSUME NEW p \in Workers, WorkerStep(p) \/ Fault(p) PROVE (Follows(sub))'
  BY <1>1, FollowCheckout, FollowHandle, FollowFetch, FollowWrite, NoReconcile DEF WorkerStep, Fault
<1> QED
  BY <1>1, FollowClaim, FollowEnvironment DEF Next, Delivery

\* Who turns the clock and who counts reconciles.
LEMMA ClockStep ==
    ASSUME WebhookInv, now \in 0..history.end, reconciles \in Nat, [Next]_vars
    PROVE  /\ history' = history /\ now' \in 0..history.end
           /\ IF \E p \in Workers : ReconcileList(p) THEN reconciles' = reconciles + 1
              ELSE reconciles' = reconciles
<1>0. history.end \in Nat
  BY WebhookAssumption DEF WebhookInv
<1>1. ASSUME NEW p \in Workers, WorkerStep(p) \/ Fault(p)
      PROVE  UNCHANGED <<history, now, reconciles>>
  <2>1. CASE DispatchWithoutEffect(p) \/ StoreCustomerRead(p) \/ StoreCustomerWrite(p)
             \/ StoreCustomerFails(p) \/ GrantTopUp(p)
    BY <2>1 DEF DispatchWithoutEffect, StoreCustomerRead, StoreCustomerWrite, StoreCustomerFails,
                GrantTopUp, stripe, bounds
  <2>2. CASE HandleSubscription(p) \/ FetchSubscription(p) \/ HandleInvoice(p) \/ WriteRow(p)
             \/ HandlerFails(p)
    BY <2>2 DEF HandleSubscription, FetchSubscription, HandleInvoice, WriteRow, HandlerFails,
                stripe, bounds
  <2>3. CASE FinishWebhookEvent(p) \/ FinishFails(p) \/ ReconcileApply(p) \/ ReconcileWrite(p)
             \/ RepairRead(p)
    BY <2>3 DEF FinishWebhookEvent, FinishFails, ReconcileApply, ReconcileWrite, RepairRead,
                stripe, bounds
  <2> QED
    BY <1>1, <2>1, <2>2, <2>3 DEF WorkerStep, Fault
<1>2. CASE \E p \in Workers : ReconcileList(p)
  BY <1>2 DEF ReconcileList, stripe
<1>3. CASE Tick
  BY <1>0, <1>3 DEF Tick, bounds, ReconcileList
<1>4. CASE Crash \/ UNCHANGED vars \/ (\E e \in Events : LeaseLapses(e) \/ Delivery(e))
  BY <1>4 DEF Crash, vars, LeaseLapses, Delivery, ClaimWebhookEvent, AcknowledgeAgain,
              stripe, bounds, ReconcileList
<1> QED
  BY <1>1, <1>2, <1>3, <1>4 DEF Next

LEMMA ConvergeInit == ASSUME Init, LastWordIsTrue(history) PROVE ConvergeInv
<1>1. ASSUME NEW sub PROVE InitRow.ev < LastTime(history) /\ Newest(history) # {} => Follows(sub)
  <2>1. ASSUME InitRow.ev < LastTime(history), Newest(history) # {}
        PROVE  Written(history, sub, row, effected)
    <3>1. LastTime(history) \in Nat /\ InitRow \in Row /\ InitRow.ev \in Nat
      BY <2>1, LastTimeIs, WebhookAssumption DEF Init, Row
    <3> QED
      BY <2>1, <3>1 DEF Init, Written
  <2>2. \A p \in Workers : Carries(p, sub)
    BY DEF Init, Carries
  <2> QED
    BY <2>1, <2>2 DEF Follows
<1>2. history.end \in Nat
  BY WebhookAssumption DEF Init
<1> QED
  BY <1>1, <1>2 DEF Init, LastWordIsTrue, ConvergeInv, Workers

LEMMA ConvergeNext == ASSUME WebhookInv, ConvergeInv, [Next]_vars PROVE ConvergeInv'
<1>1. /\ history' = history /\ now' \in 0..history.end /\ reconciles' \in Nat
      /\ reconciles' = 0 => reconciles = 0 /\ ~\E p \in Workers : ReconcileList(p)
  BY ClockStep DEF ConvergeInv
<1>2. \A sub : Following(sub) /\ reconciles' = 0 => (Follows(sub))'
  BY <1>1, FollowNext
<1>3. ASSUME StateEventsOf(history) # {}
      PROVE  \E s \in DOMAIN history.subs :
                /\ AtEnd(history, s) /\ LastWord(history, history.subs[s][history.end])
                /\ reconciles' = 0 => (Follows(history.subs[s][history.end]))'
  <2>1. PICK s \in DOMAIN history.subs :
                /\ AtEnd(history, s) /\ LastWord(history, history.subs[s][history.end])
                /\ reconciles = 0 => Follows(history.subs[s][history.end])
    BY <1>3 DEF ConvergeInv
  <2> DEFINE sub == history.subs[s][history.end]
  <2>2. reconciles = 0 => Following(sub)
    BY <1>3, <2>1 DEF Following, ConvergeInv
  <2> QED
    BY <1>1, <1>2, <2>1, <2>2
<1> QED
  BY <1>1, <1>3 DEF ConvergeInv, Workers

LEMMA ConvergeInvariant == Spec /\ LastWordIsTrue(history) => [](WebhookInv /\ ConvergeInv)
  BY ConvergeInit, ConvergeNext, WebhookInvariant, PTL DEF Spec

\* When Stripe has nothing more to send, the row says what Stripe says of the
\* subscription, for every number of events, in whatever order they come and
\* however often they are retried: ApplyStripeSubscription's comparison of
\* creation times does it in every history whose newest events tell the truth,
\* with one goroutine.
THEOREM RowConverges == Spec /\ LastWordIsTrue(history) => []ConvergesToStripe
<1>1. WebhookInv /\ ConvergeInv => ConvergesToStripe
  <2> SUFFICES ASSUME WebhookInv, ConvergeInv, AllDelivered, reconciles = 0
               PROVE  \E s \in Current : Reflects(SubAt[s][now])
    BY DEF ConvergesToStripe
  <2>1. now = history.end /\ StateEvents = StateEventsOf(history) /\ StateEvents # {}
    BY DEF AllDelivered, StateEvents, StateEventsOf, StateKinds, Events, EventOf
  <2>2. StateEvents \subseteq effected
    BY DEF AllDelivered, WebhookInv, Handled
  <2>3. PICK s \in DOMAIN history.subs :
            /\ AtEnd(history, s) /\ LastWord(history, history.subs[s][history.end])
            /\ Follows(history.subs[s][history.end])
    BY <2>1 DEF ConvergeInv
  <2> DEFINE sub == history.subs[s][history.end]
  <2>4. Written(history, sub, row, effected) /\ LastWord(history, sub)
    BY <2>3 DEF Follows
  <2>5. Newest(history) # {} /\ Newest(history) \subseteq effected
    BY <2>1, <2>2 DEF ConvergeInv, Newest
  <2> HIDE DEF sub
  <2>6. Reflects(sub)
    BY <2>4, <2>5 DEF Written, LastWord, Reflects
  <2>7. s \in Current
    BY <2>1, <2>3 DEF Current, AtEnd, Subs, SubAt
  <2> QED
    BY <2>1, <2>6, <2>7 DEF SubAt, sub
<1> QED
  BY <1>1, ConvergeInvariant, PTL

-----------------------------------------------------------------------------
(***************************************************************************)
(* The rows that are written.                                              *)
(***************************************************************************)
\* What an update leads to is a row (ApplyStripeSubscription),
LEMMA UpdatedRow ==
    ASSUME NEW r \in Row, NEW in \in Update
    PROVE  AppliedUpdate(r, in) \in Row
<1>1. /\ in.plan \in Paid /\ in.plan \in Plans /\ in.status \in Statuses /\ in.cancel \in BOOLEAN
      /\ in.start \in Nat /\ in.created \in Nat
  BY DEF Update, Plans
<1>2. Grant[in.plan] \in Nat
  BY <1>1, GrantAssumption
<1>3. Stamp(r, in) \in Nat /\ Overage(r) \in Nat /\ r.start \in Nat /\ r.allow \in Nat /\ r.debt \in Nat
  BY <1>1 DEF Row, Stamp, Overage, AtLeast0
<1>4. TerminateSubscription(r, in) \in Row
  BY <1>3 DEF TerminateSubscription, Row, Plans, Statuses
<1>5. EndingAtPeriodEnd(r, in) \in Row
  BY <1>1, <1>2, <1>3 DEF EndingAtPeriodEnd, Row
<1>6. [r EXCEPT !.status = in.status, !.cancel = in.cancel, !.sub = TRUE] \in Row
  BY <1>1 DEF Row
<1> DEFINE s == Subscribed(r, in)
<1>7. s \in Row /\ s.debt = r.debt /\ s.allow = r.allow /\ s.start = r.start
  BY <1>1, <1>3 DEF Subscribed, Row
<1>8. CASE in.terminate \/ in.metadataOnly
  BY <1>4, <1>6, <1>8 DEF AppliedUpdate
<1>9. CASE ~in.terminate /\ ~in.metadataOnly /\ ~SubscriptionActive(in.status)
  BY <1>4, <1>5, <1>9 DEF AppliedUpdate
<1>10. CASE ~in.terminate /\ ~in.metadataOnly /\ SubscriptionActive(in.status)
  <2>1. CASE DeferRollover(r, in)
    BY <1>7, <1>10, <2>1 DEF AppliedUpdate
  <2>2. CASE ~DeferRollover(r, in) /\ NewPeriod(r, in)
    <3> DEFINE o == [s EXCEPT !.debt = @ + Overage(r), !.used = 0, !.topup = 0,
                              !.allow = Grant[in.plan], !.start = in.start]
    <3>1. AppliedUpdate(r, in) = o
      BY <1>10, <2>2 DEF AppliedUpdate, RollOver, s
    <3>2. s.debt + Overage(r) \in Nat
      BY <1>3, <1>7
    <3> HIDE DEF s
    <3>3. o \in Row
      BY <1>1, <1>2, <1>7, <3>2 DEF Row
    <3> QED BY <3>1, <3>3
  <2>3. CASE ~DeferRollover(r, in) /\ ~NewPeriod(r, in)
    <3> DEFINE a == IF PlanGrantsNow(r, in) THEN Grant[in.plan] ELSE r.allow
               b == IF in.start > 0 THEN in.start ELSE s.start
               o == [s EXCEPT !.allow = a, !.start = b]
    <3>1. AppliedUpdate(r, in) = o
      BY <1>7, <1>10, <2>3 DEF AppliedUpdate, s
    <3>2. a \in Nat /\ b \in Nat
      BY <1>1, <1>2, <1>3, <1>7
    <3> HIDE DEF a, b, s
    <3>3. o \in Row
      BY <1>7, <3>2 DEF Row
    <3> QED BY <3>1, <3>3
  <2> QED BY <2>1, <2>2, <2>3
<1> QED BY <1>8, <1>9, <1>10

\* and so is one that is repaired.
LEMMA RepairedRow ==
    ASSUME NEW r \in Row, NEW plan \in Paid
    PROVE  RepairedAllowance(r, plan) \in Row
<1>1. Grant[plan] \in Nat
  BY GrantAssumption
<1> QED BY <1>1 DEF RepairedAllowance, Row

\* What Stripe says becomes an update, unless no plan has the price.
LEMMA UpdateTypes ==
    ASSUME NEW created \in Nat
    PROVE  /\ TerminationAt(created) \in Update
           /\ \A sub \in Subscription : sub.price # "unknown" => UpdateFrom(sub, created) \in Update
<1>1. TerminationAt(created) \in Update
  BY DEF TerminationAt, Update, Paid, Statuses
<1>2. ASSUME NEW sub \in Subscription, sub.price # "unknown" PROVE UpdateFrom(sub, created) \in Update
  <2>1. /\ sub.price \in Paid /\ sub.status \in Statuses /\ sub.cancel \in BOOLEAN /\ sub.start \in Nat
        /\ GrantsAccess(sub) \in BOOLEAN
    BY <1>2 DEF Subscription, GrantsAccess, SubscriptionActive
  <2> QED BY <2>1 DEF UpdateFrom, Update
<1> QED BY <1>1, <1>2

(***************************************************************************)
(* Types.                                                                  *)
(***************************************************************************)
ReconcilePlan == [event : {Reconcile}, plan : Paid \cup {"none"}, row : Row, writes : BOOLEAN]
\* What a goroutine carries where it is.
Holding(at, l) ==
    /\ at = "idle" => l = Nothing
    /\ at \in {"dispatch", "grant"} => l \in [event : Events]
    /\ at \in {"customer", "write"} => l \in [event : Events, row : Row]
    /\ at = "finish" => l \in [event : Events, outcome : {"processed", "ignored", "failed"}]
    /\ at = "fetched" => /\ l \in [event : Serving, sub : Subscription]
                         /\ l.event = Reconcile => l.sub.price # "unknown"
    /\ at = "none_listed" => l \in [event : {Reconcile}]
    /\ at = "reconcile_write" => l \in ReconcilePlan
    /\ at = "repair" => l \in ReconcilePlan /\ l.plan # "none"

StoreTyped ==
    /\ now \in 0 .. history.end
    /\ status \in [Events -> {"none", "processing", "failed"} \cup Settled]
    /\ lapsed \in [Events -> BOOLEAN]
    /\ granted \subseteq Events /\ effected \subseteq Events
    /\ row \in Row
BoundsTyped ==
    /\ failures \in 0 .. history.failures /\ crashes \in 0 .. history.crashes
    /\ reconciles \in 0 .. history.reconciles
LocalTyped ==
    /\ loc = [p \in Workers |-> loc[p]]
    /\ \A p \in Workers : Holding(pc[p], loc[p])
TypesInv == StoreTyped /\ BoundsTyped /\ LocalTyped

\* What a history says.
LEMMA HistoryTypes ==
    ASSUME history \in Histories
    PROVE  /\ history.end \in Nat /\ {history.failures, history.crashes, history.reconciles} \subseteq Nat
           /\ Reconcile \notin Events
           /\ \A e \in Events : /\ EventOf[e].payload \in Subscription /\ EventOf[e].created \in Nat
                                /\ EventOf[e].sub \in Subs
           /\ \A s \in Subs, t \in 0 .. history.end : SubAt[s][t] \in Subscription
<1>1. /\ history.end \in Nat /\ {history.failures, history.crashes, history.reconciles} \subseteq Nat
      /\ Reconcile \notin Events
      /\ \A e \in Events : EventOf[e] \in [kind : EventKinds, created : 1..history.end, sub : Subs,
                                           payload : Subscription, customer : BOOLEAN]
      /\ \A s \in Subs, t \in 0 .. history.end : SubAt[s][t] \in Subscription
  BY WebhookAssumption DEF Events, EventOf, Subs, SubAt
<1> QED BY <1>1

LEMMA TypesInit == Init => TypesInv
<1> SUFFICES ASSUME Init PROVE TypesInv
  OBVIOUS
<1>1. history \in Histories
  BY DEF Init
<1>2. StoreTyped
  BY <1>1, HistoryTypes, WebhookAssumption DEF Init, StoreTyped
<1>3. BoundsTyped
  BY <1>1, HistoryTypes DEF Init, BoundsTyped
<1>4. LocalTyped
  BY DEF Init, LocalTyped, Holding
<1> QED BY <1>2, <1>3, <1>4 DEF TypesInv

\* A goroutine moves on with what belongs there.
LEMMA HoldsOn ==
    ASSUME WebhookInv, LocalTyped, NEW p \in Workers, NEW at, NEW l, Start(p, at, l), Holding(at, l),
           history' = history
    PROVE  LocalTyped'
<1>1. \A q \in Workers : /\ pc'[q] = IF q = p THEN at ELSE pc[q]
                         /\ loc'[q] = IF q = p THEN l ELSE loc[q]
  BY DEF Start, WebhookInv, LocalTyped
<1>2. Workers' = Workers /\ \A x, y : Holding(x, y)' <=> Holding(x, y)
  BY DEF Workers, Holding, Events, EventOf, Serving
<1>3. loc' = [q \in Workers |-> loc'[q]]
  BY DEF Start, LocalTyped
<1>4. \A q \in Workers : Holding(pc'[q], loc'[q])
  BY <1>1 DEF LocalTyped
<1> QED BY <1>2, <1>3, <1>4 DEF LocalTyped, Holding, Events, EventOf, Serving

LEMMA StillHolds ==
    ASSUME LocalTyped, UNCHANGED <<history, pc, loc>>
    PROVE  LocalTyped'
BY DEF LocalTyped, Workers, Holding, Events, EventOf, Serving

LEMMA FinishHolds ==
    ASSUME WebhookInv, LocalTyped, NEW p \in Workers, loc[p].event \in Events, history' = history,
           NEW outcome \in {"processed", "ignored", "failed"}, Finishing(p, outcome)
    PROVE  LocalTyped'
<1> DEFINE l == [event |-> loc[p].event, outcome |-> outcome]
<1>1. Holding("finish", l)
  BY DEF Holding
<1>2. Start(p, "finish", l)
  BY DEF Finishing
<1> HIDE DEF l
<1> QED BY <1>1, <1>2, HoldsOn

LEMMA UpdateHolds ==
    ASSUME WebhookInv, LocalTyped, row \in Row, NEW p \in Workers, loc[p].event \in Events, history' = history,
           NEW in \in Update, ApplyUpdate(p, in)
    PROVE  LocalTyped'
<1> DEFINE l == [event |-> loc[p].event, row |-> AppliedUpdate(row, in)]
<1>1. Holding("write", l)
  BY UpdatedRow DEF Holding
<1>2. Start(p, "write", l) \/ Finishing(p, "processed")
  BY DEF ApplyUpdate
<1> HIDE DEF l
<1>3. CASE Start(p, "write", l)
  BY <1>1, <1>3, HoldsOn
<1>4. CASE Finishing(p, "processed")
  BY <1>4, FinishHolds
<1> QED BY <1>2, <1>3, <1>4

LEMMA SubscriptionHolds ==
    ASSUME WebhookInv, LocalTyped, row \in Row, NEW p \in Workers, loc[p].event \in Events, history' = history,
           NEW sub \in Subscription, NEW created \in Nat, ApplySubscriptionEvent(p, sub, created)
    PROVE  LocalTyped'
<1>1. CASE sub.price = "unknown"
  BY <1>1, FinishHolds DEF ApplySubscriptionEvent
<1>2. CASE sub.price # "unknown"
  <2>1. UpdateFrom(sub, created) \in Update /\ ApplyUpdate(p, UpdateFrom(sub, created))
    BY <1>2, UpdateTypes DEF ApplySubscriptionEvent
  <2> QED BY <2>1, UpdateHolds
<1> QED BY <1>1, <1>2

\* The handlers of events,
LEMMA HandlerHolds ==
    ASSUME WebhookInv, TypesInv, NEW p \in Workers,
           \/ DispatchWithoutEffect(p) \/ StoreCustomerRead(p) \/ StoreCustomerWrite(p) \/ StoreCustomerFails(p)
           \/ GrantTopUp(p) \/ HandleSubscription(p) \/ FetchSubscription(p) \/ HandleInvoice(p) \/ WriteRow(p)
           \/ HandlerFails(p) \/ FinishWebhookEvent(p) \/ FinishFails(p)
    PROVE  LocalTyped'
<1>0. /\ Holding(pc[p], loc[p]) /\ row \in Row /\ history \in Histories /\ LocalTyped /\ now \in 0 .. history.end
  BY DEF TypesInv, LocalTyped, StoreTyped, WebhookInv
<1>a. \A at, l : Start(p, at, l) /\ Holding(at, l) /\ history' = history => LocalTyped'
  BY <1>0, HoldsOn
<1>b. /\ Reconcile \notin Events
      /\ \A e \in Events : /\ EventOf[e].payload \in Subscription /\ EventOf[e].created \in Nat
                           /\ EventOf[e].sub \in Subs
      /\ \A s \in Subs : SubAt[s][now] \in Subscription
  BY <1>0, HistoryTypes
<1>1. CASE DispatchWithoutEffect(p) \/ HandlerFails(p)
  <2>1. loc[p].event \in Events
    BY <1>0, <1>1 DEF DispatchWithoutEffect, HandlerFails, Holding
  <2>2. history' = history /\ \E outcome \in {"processed", "ignored", "failed"} : Finishing(p, outcome)
    BY <1>1 DEF DispatchWithoutEffect, HandlerFails, stripe
  <2> QED BY <1>0, <2>1, <2>2, FinishHolds
<1>2. CASE StoreCustomerRead(p)
  <2> DEFINE l == [event |-> loc[p].event, row |-> row]
  <2>1. Start(p, "customer", l) /\ Holding("customer", l) /\ history' = history
    BY <1>0, <1>2 DEF StoreCustomerRead, Holding, stripe
  <2> HIDE DEF l
  <2> QED BY <1>a, <2>1
<1>3. CASE StoreCustomerWrite(p) \/ StoreCustomerFails(p)
  <2> DEFINE l == [event |-> loc[p].event]
  <2>1. Start(p, "grant", l) /\ Holding("grant", l) /\ history' = history
    BY <1>0, <1>3 DEF StoreCustomerWrite, StoreCustomerFails, Holding, stripe
  <2> HIDE DEF l
  <2> QED BY <1>a, <2>1
<1>4. CASE GrantTopUp(p) \/ WriteRow(p)
  <2>1. loc[p].event \in Events /\ history' = history /\ Finishing(p, "processed")
    BY <1>0, <1>4 DEF GrantTopUp, WriteRow, Holding, stripe
  <2> QED BY <1>0, <2>1, FinishHolds
<1>5. CASE HandleSubscription(p)
  <2> DEFINE e == loc[p].event
  <2>1. e \in Events /\ history' = history
    BY <1>0, <1>5 DEF HandleSubscription, Holding, stripe
  <2>2. EventOf[e].payload \in Subscription /\ EventOf[e].created \in Nat
    BY <1>b, <2>1
  <2>3. \/ ApplySubscriptionEvent(p, EventOf[e].payload, EventOf[e].created)
        \/ ApplyUpdate(p, TerminationAt(EventOf[e].created))
    BY <1>5 DEF HandleSubscription
  <2>4. TerminationAt(EventOf[e].created) \in Update
    BY <2>2, UpdateTypes
  <2> QED BY <1>0, <2>1, <2>2, <2>3, <2>4, SubscriptionHolds, UpdateHolds
<1>6. CASE FetchSubscription(p)
  <2> DEFINE e == loc[p].event
             sub == SubAt[EventOf[e].sub][now]
             l == [event |-> e, sub |-> sub]
  <2>1. e \in Events /\ history' = history /\ Start(p, "fetched", l)
    BY <1>0, <1>6 DEF FetchSubscription, Holding, stripe
  <2>2. sub \in Subscription
    BY <1>b, <2>1
  <2> HIDE DEF e, sub
  <2>3. Holding("fetched", l)
    BY <1>b, <2>1, <2>2 DEF Holding, Serving
  <2> HIDE DEF l
  <2> QED BY <1>a, <2>1, <2>3
<1>7. CASE HandleInvoice(p)
  <2> DEFINE e == loc[p].event
  <2>1. e \in Events /\ history' = history /\ loc[p].sub \in Subscription
    BY <1>0, <1>7 DEF HandleInvoice, Holding, Serving, stripe
  <2>2. EventOf[e].created \in Nat
    BY <1>b, <2>1
  <2>3. ApplySubscriptionEvent(p, loc[p].sub, EventOf[e].created)
    BY <1>7 DEF HandleInvoice
  <2> QED BY <1>0, <2>1, <2>2, <2>3, SubscriptionHolds
<1>8. CASE FinishWebhookEvent(p) \/ FinishFails(p)
  <2>1. Start(p, "idle", Nothing) /\ Holding("idle", Nothing) /\ history' = history
    BY <1>8 DEF FinishWebhookEvent, FinishFails, Done, Holding, stripe
  <2> QED BY <1>a, <2>1
<1> QED BY <1>1, <1>2, <1>3, <1>4, <1>5, <1>6, <1>7, <1>8

\* and an admin's reconcile.
LEMMA ReconcileHolds ==
    ASSUME WebhookInv, TypesInv, NEW p \in Workers,
           ReconcileList(p) \/ ReconcileApply(p) \/ ReconcileWrite(p) \/ RepairRead(p)
    PROVE  LocalTyped'
<1>0. /\ Holding(pc[p], loc[p]) /\ row \in Row /\ history \in Histories /\ LocalTyped /\ now \in 0 .. history.end
  BY DEF TypesInv, LocalTyped, StoreTyped, WebhookInv
<1>a. \A at, l : Start(p, at, l) /\ Holding(at, l) => LocalTyped'
  <2>1. history' = history
    BY DEF ReconcileList, ReconcileApply, ReconcileWrite, RepairRead, stripe
  <2> QED BY <1>0, <2>1, HoldsOn
<1>b. (\A s \in Subs : SubAt[s][now] \in Subscription) /\ now \in Nat
  <2>1. history.end \in Nat
    BY <1>0, HistoryTypes
  <2> QED BY <1>0, <2>1, HistoryTypes
<1>1. CASE ReconcileList(p)
  <2>1. CASE Known(now) = {}
    <3> DEFINE l == [event |-> Reconcile]
    <3>1. Start(p, "none_listed", l) /\ Holding("none_listed", l)
      BY <1>1, <2>1 DEF ReconcileList, Holding
    <3> HIDE DEF l
    <3> QED BY <1>a, <3>1
  <2>2. CASE Known(now) # {}
    <3>1. PICK s \in Known(now) : SubAt[s][now].price # "unknown"
                                 /\ Start(p, "fetched", [event |-> Reconcile, sub |-> SubAt[s][now]])
      BY <1>1, <2>2 DEF ReconcileList
    <3> DEFINE sub == SubAt[s][now]
               l == [event |-> Reconcile, sub |-> sub]
    <3>2. sub \in Subscription /\ sub.price # "unknown" /\ Start(p, "fetched", l)
      BY <1>b, <3>1 DEF Known
    <3> HIDE DEF sub
    <3>3. Holding("fetched", l)
      BY <3>2 DEF Holding, Serving
    <3> HIDE DEF l
    <3> QED BY <1>a, <3>2, <3>3
  <2> QED BY <2>1, <2>2
<1>2. CASE ReconcileApply(p)
  <2> DEFINE in == IF pc[p] = "fetched" THEN UpdateFrom(loc[p].sub, now) ELSE TerminationAt(now)
             repair == IF in.terminate THEN "none" ELSE in.plan
             stale == StaleUpdate(row, in)
             r == IF stale THEN row ELSE AppliedUpdate(row, in)
             l == [event |-> Reconcile, plan |-> repair, row |-> r, writes |-> ~stale]
  <2>1. Start(p, "reconcile_write", l)
    BY <1>2 DEF ReconcileApply
  <2>2. in \in Update
    <3>1. CASE pc[p] = "fetched"
      <4>1. loc[p].sub \in Subscription /\ loc[p].sub.price # "unknown"
        BY <1>0, <1>2, <3>1 DEF ReconcileApply, Holding
      <4> QED BY <1>b, <3>1, <4>1, UpdateTypes
    <3>2. CASE pc[p] # "fetched"
      BY <1>b, <3>2, UpdateTypes
    <3> QED BY <3>1, <3>2
  <2>3. repair \in Paid \cup {"none"} /\ r \in Row /\ (~stale) \in BOOLEAN
    <3> HIDE DEF in
    <3>1. in.plan \in Paid /\ AppliedUpdate(row, in) \in Row
      BY <1>0, <2>2, UpdatedRow DEF Update
    <3>2. repair \in Paid \cup {"none"}
      BY <3>1
    <3>3. r \in Row
      BY <1>0, <3>1
    <3> QED BY <3>2, <3>3
  <2> HIDE DEF in, repair, stale, r
  <2>4. Holding("reconcile_write", l)
    BY <2>3 DEF Holding, ReconcilePlan
  <2> HIDE DEF l
  <2> QED BY <1>a, <2>1, <2>4
<1>3. CASE ReconcileWrite(p)
  <2>1. \/ Start(p, "idle", Nothing) /\ Holding("idle", Nothing)
        \/ Start(p, "repair", loc[p]) /\ Holding("repair", loc[p])
    BY <1>0, <1>3 DEF ReconcileWrite, Done, Goto, Holding
  <2> QED BY <1>a, <2>1
<1>4. CASE RepairRead(p)
  <2> DEFINE l == [event |-> Reconcile, plan |-> "none", writes |-> TRUE, row |-> RepairedAllowance(row, loc[p].plan)]
  <2>1. loc[p].plan \in Paid
    BY <1>0, <1>4 DEF RepairRead, Holding, ReconcilePlan
  <2>2. Holding("reconcile_write", l)
    BY <1>0, <2>1, RepairedRow DEF Holding, ReconcilePlan
  <2>3. Start(p, "idle", Nothing) \/ Start(p, "reconcile_write", l)
    BY <1>4 DEF RepairRead, Done
  <2> HIDE DEF l
  <2>4. Holding("idle", Nothing)
    BY DEF Holding
  <2> QED BY <1>a, <2>2, <2>3, <2>4
<1> QED BY <1>1, <1>2, <1>3, <1>4

LEMMA LocalStep ==
    ASSUME WebhookInv, TypesInv, [Next]_vars
    PROVE  LocalTyped'
<1>0. LocalTyped
  BY DEF TypesInv
<1>1. CASE UNCHANGED <<history, pc, loc>>
  BY <1>0, <1>1, StillHolds
<1>2. ASSUME NEW p \in Workers, WorkerStep(p) \/ Fault(p) \/ ReconcileList(p) PROVE LocalTyped'
  BY <1>2, HandlerHolds, ReconcileHolds DEF WorkerStep, Fault
<1>3. ASSUME NEW e \in Events, NEW p \in Workers, ClaimWebhookEvent(p, e) PROVE LocalTyped'
  <2> DEFINE l == [event |-> e]
  <2>1. Start(p, "dispatch", l) /\ Holding("dispatch", l) /\ history' = history
    BY <1>3 DEF ClaimWebhookEvent, Holding, stripe
  <2> HIDE DEF l
  <2> QED BY <1>0, <2>1, HoldsOn
<1>4. CASE Crash
  <2>1. pc' = [p \in Workers |-> "idle"] /\ loc' = [p \in Workers |-> Nothing] /\ Workers' = Workers
    BY <1>4 DEF Crash, stripe, Workers
  <2> QED BY <2>1 DEF LocalTyped, Holding
<1>5. CASE Tick \/ (\E e \in Events : LeaseLapses(e)) \/ (\E e \in Events, p \in Workers : AcknowledgeAgain(p, e))
           \/ UNCHANGED vars
  BY <1>1, <1>5 DEF Tick, LeaseLapses, AcknowledgeAgain, Stay, stripe, vars
<1> QED BY <1>2, <1>3, <1>4, <1>5 DEF Next, Delivery

(***************************************************************************)
(* The tables.                                                             *)
(***************************************************************************)
\* What an event may have had its effect, or a grant, is an event.
LEMMA StoreKept ==
    ASSUME TypesInv, UNCHANGED history, now' \in 0 .. history.end, row' \in Row,
           status' \in [Events -> {"none", "processing", "failed"} \cup Settled], lapsed' \in [Events -> BOOLEAN],
           granted' \subseteq Events, effected' \subseteq Events
    PROVE  StoreTyped'
BY DEF StoreTyped, Events, EventOf

LEMMA StoreStep ==
    ASSUME WebhookInv, TypesInv, [Next]_vars
    PROVE  StoreTyped'
<1>0. /\ now \in 0 .. history.end /\ row \in Row /\ lapsed \in [Events -> BOOLEAN]
      /\ status \in [Events -> {"none", "processing", "failed"} \cup Settled]
      /\ granted \subseteq Events /\ effected \subseteq Events
  BY DEF TypesInv, StoreTyped
<1>a. \A p \in Workers : Holding(pc[p], loc[p])
  BY DEF TypesInv, LocalTyped
<1> USE DEF stripe, ledger
<1>1. CASE UNCHANGED vars
  BY <1>0, <1>1, StoreKept DEF vars
<1>2. ASSUME NEW e \in Events, NEW p \in Workers, ClaimWebhookEvent(p, e) \/ AcknowledgeAgain(p, e) PROVE StoreTyped'
  BY <1>0, <1>2, StoreKept DEF ClaimWebhookEvent, AcknowledgeAgain
<1>3. ASSUME NEW p \in Workers, loc[p].event \in Events, NEW outcome, Finishing(p, outcome),
             UNCHANGED <<history, now, status, lapsed>>, granted' \subseteq Events, row' \in Row
      PROVE  StoreTyped'
  BY <1>0, <1>3, StoreKept DEF Finishing
<1>4. ASSUME NEW p \in Workers, UNCHANGED <<history, now, status, lapsed, granted, effected>>, row' \in Row
      PROVE  StoreTyped'
  BY <1>0, <1>4, StoreKept
<1>5. ASSUME NEW p \in Workers, DispatchWithoutEffect(p) \/ HandlerFails(p) \/ WriteRow(p) PROVE StoreTyped'
  <2>1. loc[p].event \in Events /\ (pc[p] = "write" => loc[p].row \in Row)
    BY <1>5, <1>a DEF DispatchWithoutEffect, HandlerFails, WriteRow, Holding
  <2>2. /\ UNCHANGED <<history, now, status, lapsed, granted>> /\ row' \in Row
        /\ \E outcome : Finishing(p, outcome)
    BY <1>0, <1>5, <2>1 DEF DispatchWithoutEffect, HandlerFails, WriteRow
  <2> QED BY <1>0, <1>3, <2>1, <2>2
<1>6. ASSUME NEW p \in Workers, GrantTopUp(p) PROVE StoreTyped'
  <2>1. loc[p].event \in Events
    BY <1>6, <1>a DEF GrantTopUp, Holding
  <2>2. [row EXCEPT !.topup = @ + PackCredits] \in Row
    BY <1>0, WebhookAssumption DEF Row
  <2>3. granted' \subseteq Events /\ row' \in Row
    BY <1>0, <1>6, <2>1, <2>2 DEF GrantTopUp
  <2> QED BY <1>3, <1>6, <2>1, <2>3 DEF GrantTopUp
<1>7. ASSUME NEW p \in Workers, HandleSubscription(p) \/ HandleInvoice(p) PROVE StoreTyped'
  <2>1. UNCHANGED <<history, now, status, lapsed, granted, row>>
    BY <1>7 DEF HandleSubscription, HandleInvoice
  <2>2. loc[p].event \in Events
    BY <1>7, <1>a DEF HandleSubscription, HandleInvoice, Holding, Serving
  <2>3. UNCHANGED effected \/ \E outcome : Finishing(p, outcome)
    BY <1>7 DEF HandleSubscription, HandleInvoice, ApplySubscriptionEvent, ApplyUpdate
  <2> QED BY <1>0, <1>3, <1>4, <2>1, <2>2, <2>3
<1>8. ASSUME NEW p \in Workers,
             \/ StoreCustomerRead(p) \/ StoreCustomerWrite(p) \/ StoreCustomerFails(p) \/ FetchSubscription(p)
             \/ FinishFails(p) \/ ReconcileList(p) \/ ReconcileApply(p) \/ ReconcileWrite(p) \/ RepairRead(p)
      PROVE  StoreTyped'
  <2>1. UNCHANGED <<history, now, status, lapsed, granted, effected>>
    BY <1>8 DEF StoreCustomerRead, StoreCustomerWrite, StoreCustomerFails, FetchSubscription, FinishFails,
           ReconcileList, ReconcileApply, ReconcileWrite, RepairRead
  <2>2. pc[p] \in {"customer", "reconcile_write"} => loc[p].row \in Row
    BY <1>a DEF Holding, ReconcilePlan
  <2>3. row' \in Row
    BY <1>0, <1>8, <2>2 DEF StoreCustomerRead, StoreCustomerWrite, StoreCustomerFails, FetchSubscription, FinishFails,
           ReconcileList, ReconcileApply, ReconcileWrite, RepairRead
  <2> QED BY <1>4, <2>1, <2>3
<1>9. ASSUME NEW p \in Workers, FinishWebhookEvent(p) PROVE StoreTyped'
  <2>1. loc[p].outcome \in {"none", "processing", "failed"} \cup Settled
    BY <1>9, <1>a DEF FinishWebhookEvent, Holding, Settled
  <2> HIDE DEF Settled
  <2> QED BY <1>0, <1>9, <2>1, StoreKept DEF FinishWebhookEvent
<1>10. CASE Tick \/ Crash \/ (\E e \in Events : LeaseLapses(e))
  <2>1. history.end \in Nat
    BY HistoryTypes DEF WebhookInv
  <2>2. CASE Tick
    BY <1>0, <2>1, <2>2, StoreKept DEF Tick
  <2>3. CASE Crash
    BY <1>0, <2>3, StoreKept DEF Crash
  <2>4. CASE \E e \in Events : LeaseLapses(e)
    BY <1>0, <2>4, StoreKept DEF LeaseLapses
  <2> QED BY <1>10, <2>2, <2>3, <2>4
<1> QED BY <1>1, <1>2, <1>5, <1>6, <1>7, <1>8, <1>9, <1>10 DEF Next, Delivery, WorkerStep, Fault

LEMMA BoundsStep ==
    ASSUME WebhookInv, TypesInv, [Next]_vars
    PROVE  BoundsTyped'
<1>0. /\ history.failures \in Nat /\ history.crashes \in Nat /\ history.reconciles \in Nat
      /\ failures \in 0 .. history.failures /\ crashes \in 0 .. history.crashes
      /\ reconciles \in 0 .. history.reconciles
  BY HistoryTypes DEF TypesInv, BoundsTyped, WebhookInv
<1>1. /\ history' = history
      /\ failures' = failures \/ (failures < history.failures /\ failures' = failures + 1)
      /\ crashes' = crashes \/ (crashes < history.crashes /\ crashes' = crashes + 1)
      /\ reconciles' = reconciles \/ (reconciles < history.reconciles /\ reconciles' = reconciles + 1)
  BY DEF Next, Delivery, WorkerStep, Fault, ClaimWebhookEvent, AcknowledgeAgain, DispatchWithoutEffect, StoreCustomerRead,
         StoreCustomerWrite, StoreCustomerFails, GrantTopUp, HandleSubscription, FetchSubscription, HandleInvoice, WriteRow,
         HandlerFails, FinishWebhookEvent, FinishFails, ReconcileList, ReconcileApply, ReconcileWrite, RepairRead, Tick,
         LeaseLapses, Crash, stripe, bounds, vars
<1> QED BY <1>0, <1>1 DEF BoundsTyped

\* Whatever arrives, twice or late, fails or is repaired by an admin: the row that a handler writes
\* is a well-formed row, no price that no plan has gets into it (ApplyStripeSubscription,
\* TerminateSubscription, RepairReconcileAllowance), and each goroutine carries what its place calls for.
THEOREM WebhookTypeCorrect == Spec => []TypeOK
<1> DEFINE Inv == WebhookInv /\ TypesInv
<1>1. Init => Inv
  BY InitWebhook, TypesInit
<1>2. Inv /\ [Next]_vars => Inv'
  BY WebhookNext, StoreStep, BoundsStep, LocalStep DEF TypesInv
<1>3. Inv => TypeOK
  <2> SUFFICES ASSUME Inv PROVE TypeOK
    OBVIOUS
  <2>1. \A p \in Workers : loc[p] \in LocalStates
    <3> SUFFICES ASSUME NEW p \in Workers PROVE loc[p] \in LocalStates
      OBVIOUS
    <3>1. Holding(pc[p], loc[p]) /\ pc[p] \in Pcs
      BY DEF TypesInv, LocalTyped, WebhookInv
    <3>2. \/ loc[p] = Nothing
          \/ loc[p] \in [event : Events]
          \/ loc[p] \in [event : Events, row : Row]
          \/ loc[p] \in [event : Serving, sub : Subscription]
          \/ loc[p] \in [event : Events, outcome : {"processed", "ignored", "failed"}]
          \/ loc[p] \in [event : {Reconcile}]
          \/ loc[p] \in ReconcilePlan
      BY <3>1, Zenon DEF Holding, Pcs
    <3> QED BY <3>2, Zenon DEF LocalStates, ReconcilePlan
  <2>2. loc \in [Workers -> LocalStates]
    BY <2>1 DEF TypesInv, LocalTyped
  <2> QED BY <2>2 DEF TypesInv, StoreTyped, BoundsTyped, WebhookInv, Pcs, TypeOK
<1> QED BY <1>1, <1>2, <1>3, PTL DEF Spec
=============================================================================
