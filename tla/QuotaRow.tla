------------------------------ MODULE QuotaRow ------------------------------
(***************************************************************************)
(* The credit row of one user (table user_quota) and what the quota        *)
(* service computes from it: the balance, the burn of a charge, and the    *)
(* row a Stripe subscription update leads to.  Everything here is a pure   *)
(* function of a row, and what the overrides an administrator sets for the *)
(* user make of it; the modules that EXTEND this one decide when a row is  *)
(* read and when the result is written back.                               *)
(*                                                                         *)
(* Amounts are whole credits.  Times (period starts, event creation) are   *)
(* naturals, 0 standing for an absent time.                                *)
(***************************************************************************)
EXTENDS Integers

CONSTANT Grant              \* monthly credits of a paid plan, by plan

Paid == {"starter", "pro"}
Plans == Paid \cup {"trial", "expired"}
ActiveStatus == {"active", "trialing", "past_due"}
Statuses == ActiveStatus
            \cup {"none", "incomplete", "incomplete_expired", "unpaid", "canceled"}

ASSUME GrantAssumption == Grant \in [Paid -> Nat]

Row == [plan : Plans, status : Statuses, enforce : BOOLEAN,
        trial : Nat, trialOver : BOOLEAN,
        allow : Nat, used : Nat, debt : Nat, topup : Nat,
        start : Nat, ev : Nat, sub : BOOLEAN, cancel : BOOLEAN]

AtLeast0(n) == IF n < 0 THEN 0 ELSE n
Least(m, n) == IF m < n THEN m ELSE n

(***************************************************************************)
(* What an administrator overrides for one user, kept beside the row: an   *)
(* allowance, the enforcement (an empty set where nothing is set), and the *)
(* trial allowance in effect.                                              *)
(***************************************************************************)
UserOverrides == [allow : SUBSET Nat, enforce : SUBSET BOOLEAN, trial : Nat]

Given(option, otherwise) ==
    IF option = {} THEN otherwise ELSE CHOOSE v \in option : TRUE

\* applyOverridesToRow: the allowance of a trial is left alone.
ApplyOverrides(row, o) ==
    [row EXCEPT !.enforce = Given(o.enforce, @),
                !.allow = IF row.plan = "trial" THEN @ ELSE Given(o.allow, @)]

\* What is left of a trial whose allowance changes: what was used stays used.
ReconcileTrial(left, old, new) == AtLeast0(new - AtLeast0(old - left))

(***************************************************************************)
(* Balance.                                                                *)
(***************************************************************************)

TrialExpired(row) == row.trialOver \/ row.trial = 0

MonthlyRemaining(row) == row.allow - row.used - row.debt

TotalRemaining(row) ==
    IF row.plan = "trial"
    THEN IF TrialExpired(row) THEN 0 ELSE row.trial
    ELSE AtLeast0(MonthlyRemaining(row)) + row.topup

SubscriptionActive(status) == status \in ActiveStatus

SubscriptionAllowsUsage(row) ==
    row.plan \in Paid /\ SubscriptionActive(row.status)

TopUpEligible(row) == row.plan \in Paid /\ row.status \in {"active", "trialing"}

BlocksNewSubscriptionCheckout(row) == row.sub /\ row.status # "canceled"

(***************************************************************************)
(* Burning credits.                                                        *)
(***************************************************************************)
\* Mutant of DeductPaid: everything is booked on the month.
DeductPaidMonthOnly(row, n) == [row EXCEPT !.used = @ + n]

\* The month pays first, then the top-ups; what neither covers is grace
\* overage and is booked on the month as well.
DeductPaid(row, n) ==
    LET month == Least(n, AtLeast0(MonthlyRemaining(row)))
        bought == Least(n - month, row.topup)
    IN  [row EXCEPT !.used = @ + (n - bought), !.topup = @ - bought]

ApplyBurn(row, n) ==
    IF row.plan = "trial" THEN [row EXCEPT !.trial = AtLeast0(@ - n)]
                          ELSE DeductPaid(row, n)

Overage(row) == AtLeast0(row.used - row.allow)

GraceUse(row, n) == AtLeast0(n - TotalRemaining(row))

\* Mutant of StrictBurnAllowed: what is already overdrawn is not counted.
StrictBurnEachAlone(row, n, inGrace, grace) ==
    GraceUse(row, n) = 0 \/ (inGrace /\ GraceUse(row, n) <= grace)

\* CommitTransactionalBurn with StrictBalance: the charge is covered, or the
\* caller was in a grace session and the overage stays within its allowance.
StrictBurnAllowed(row, n, inGrace, grace) ==
    \/ GraceUse(row, n) = 0
    \/ inGrace /\ Overage(row) + GraceUse(row, n) <= grace

(***************************************************************************)
(* Stripe subscription state.  An update is what the webhook processor     *)
(* derives from one Stripe subscription object; period ends follow starts  *)
(* and are not modelled.                                                   *)
(***************************************************************************)
Update == [terminate : BOOLEAN, metadataOnly : BOOLEAN,
           plan : Paid, status : Statuses, cancel : BOOLEAN,
           start : Nat, created : Nat]

\* Mutant of StaleUpdate: creation times are compared only for a revival.
StaleOnlyAtExpiry(row, in) ==
    in.created > 0 /\ row.ev = in.created /\ row.plan = "expired" /\ ~in.terminate

\* Older than what is recorded, or as old but would revive an expired plan.
StaleUpdate(row, in) ==
    /\ in.created > 0
    /\ \/ row.ev > in.created
       \/ row.ev = in.created /\ row.plan = "expired" /\ ~in.terminate

Stamp(row, in) == IF in.created > 0 THEN in.created ELSE row.ev

TerminateSubscription(row, in) ==
    [row EXCEPT !.plan = "expired", !.status = "canceled", !.allow = 0,
                !.used = 0, !.topup = 0, !.sub = FALSE, !.cancel = FALSE,
                !.ev = Stamp(row, in)]

NewPeriod(row, in) == in.start > row.start

\* Stripe may advance the period before the renewal is paid for.
DeferRollover(row, in) ==
    in.status = "past_due" /\ NewPeriod(row, in) /\ row.start > 0

IsPlanDowngrade(from, to) == from = "pro" /\ to = "starter"

PlanGrantsNow(row, in) ==
    /\ row.plan \notin {in.plan, "trial"}
    /\ ~IsPlanDowngrade(row.plan, in.plan)

EndingAtPeriodEnd(row, in) ==
    [row EXCEPT !.plan = in.plan, !.status = in.status, !.cancel = in.cancel,
                !.sub = TRUE, !.allow = Grant[in.plan], !.ev = Stamp(row, in)]

\* The paid plan with its identity fields set and nothing granted yet.
Subscribed(row, in) ==
    [row EXCEPT !.plan = in.plan, !.status = in.status, !.cancel = in.cancel,
                !.sub = TRUE, !.trial = 0, !.trialOver = FALSE,
                !.ev = Stamp(row, in)]

RollOver(row, in) ==
    [Subscribed(row, in) EXCEPT
        !.debt = @ + Overage(row), !.used = 0, !.topup = 0,
        !.allow = Grant[in.plan], !.start = in.start]

\* ApplyStripeSubscription on an update that StaleUpdate does not discard.
AppliedUpdate(row, in) ==
    IF in.terminate THEN TerminateSubscription(row, in)
    ELSE IF in.metadataOnly
         THEN [row EXCEPT !.status = in.status, !.cancel = in.cancel, !.sub = TRUE]
    ELSE IF ~SubscriptionActive(in.status)
         THEN IF in.cancel THEN EndingAtPeriodEnd(row, in)
                           ELSE TerminateSubscription(row, in)
    ELSE IF DeferRollover(row, in) THEN Subscribed(row, in)
    ELSE IF NewPeriod(row, in) THEN RollOver(row, in)
    ELSE [Subscribed(row, in) EXCEPT
             !.allow = IF PlanGrantsNow(row, in) THEN Grant[in.plan] ELSE @,
             !.start = IF in.start > 0 THEN in.start ELSE @]

\* RepairReconcileAllowance raises an under-allocated month, never lowers it.
RepairedAllowance(row, plan) ==
    IF row.allow >= Grant[plan] THEN row ELSE [row EXCEPT !.allow = Grant[plan]]
=============================================================================
