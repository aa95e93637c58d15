-------------------------- MODULE MCStripeWebhook --------------------------
(***************************************************************************)
(* Histories of a Stripe customer to model-check StripeWebhook with.       *)
(***************************************************************************)
EXTENDS StripeWebhook, TLC

CONSTANTS a, b,             \* subscriptions
          w1, w2            \* goroutines

Grants2 == [starter |-> 2, pro |-> 3]

\* A user in the period that started before the history begins.
PaidRow == [plan |-> "starter", status |-> "active", enforce |-> TRUE,
            trial |-> 0, trialOver |-> FALSE, allow |-> 2, used |-> 1, debt |-> 0,
            topup |-> 0, start |-> 1, ev |-> 0, sub |-> TRUE, cancel |-> FALSE]

Unborn == [price |-> "starter", status |-> "none", cancel |-> FALSE, start |-> 0]
Live(price, st, from) == [price |-> price, status |-> st, cancel |-> FALSE, start |-> from]
Ending(sub) == [sub EXCEPT !.cancel = TRUE]
Ended(sub) == [sub EXCEPT !.status = "canceled"]

Event(kind, created, sub, payload) ==
    [kind |-> kind, created |-> created, sub |-> sub, payload |-> payload, customer |-> FALSE]
Checkout(kind, created, customer) ==
    [kind |-> kind, created |-> created, sub |-> a, payload |-> Unborn, customer |-> customer]

\* A paid pack, the session that opened the subscription and a subscription
\* with a price no plan has, delivered to two goroutines.
Checkouts ==
    [events |->
        [first  |-> Checkout("topup", 1, FALSE),
         second |-> Checkout("subscription_checkout", 1, FALSE),
         third  |-> Event("subscription", 1, a, Live("unknown", "active", 1))],
     subs |-> a :> [t \in 0..1 |-> Live("unknown", "active", 1)],
     end |-> 1, workers |-> {w1, w2}, failures |-> 1, crashes |-> 1, reconciles |-> 0]

\* A paid pack whose session names the customer: its id is stored first, while
\* nothing else writes the row.
Pack ==
    [events |-> [first |-> Checkout("topup", 1, TRUE)],
     subs |-> a :> [t \in 0..1 |-> Unborn],
     end |-> 1, workers |-> {w1}, failures |-> 2, crashes |-> 1, reconciles |-> 0]

\* An unpaid session, and an admin who finds no subscription at Stripe.
Unlisted ==
    [events |-> [first |-> Checkout("unpaid_checkout", 1, FALSE)],
     subs |-> a :> [t \in 0..1 |-> Unborn],
     end |-> 1, workers |-> {w1, w2}, failures |-> 1, crashes |-> 1, reconciles |-> 2]

\* Subscription a is set to end and ended within one second, and an invoice
\* of it failed; the user then subscribes again as b.
Resubscribed ==
    [events |->
        [first  |-> Event("subscription", 1, a, Ending(Live("starter", "active", 1))),
         second |-> Event("deleted", 1, a, Ended(Live("starter", "active", 1))),
         third  |-> Event("invoice", 1, a, Unborn),
         fourth |-> Event("subscription", 2, b, Live("pro", "active", 2))],
     subs |-> a :> (0 :> Live("starter", "active", 1)
                    @@ 1 :> Ended(Live("starter", "active", 1))
                    @@ 2 :> Ended(Live("starter", "active", 1)))
              @@ b :> (0 :> Unborn @@ 1 :> Unborn @@ 2 :> Live("pro", "active", 2)),
     end |-> 2, workers |-> {w1}, failures |-> 1, crashes |-> 0, reconciles |-> 1]

\* The history of subscriptions is one of those that the promise of convergence is about.
ASSUME ResubscribedIsTold == LastWordIsTrue(Resubscribed)

MCHistories == {Checkouts, Pack, Unlisted, Resubscribed}
=============================================================================
