---------------------------- MODULE QuotaService ----------------------------
(***************************************************************************)
(* The quota service of one user: goroutines that charge the shared row    *)
(* inside a SQL transaction, others that read the row with one statement,  *)
(* the user's overrides with a second and write the whole row back with a  *)
(* third, an administrator who changes the overrides, and the in-memory    *)
(* grace session of a running automation.                                  *)
(*                                                                         *)
(* A step is one SQL statement outside a transaction, one whole            *)
(* transaction, or one critical section of Service.mu.  SQLite serialises  *)
(* writers, so the burn and the top-up transactions are atomic; nothing    *)
(* protects the read ... write pairs from each other or from a             *)
(* transaction that commits in between, and a charge applies the overrides *)
(* it read before its transaction began.                                   *)
(***************************************************************************)
EXTENDS QuotaRow

CONSTANTS Workers,          \* goroutines using the service
          Keys,             \* idempotency keys of charges
          Costs,            \* credits a charge may cost
          TopUps,           \* Stripe checkout events that buy a pack
          PackCredits,      \* credits of a pack
          Grace,            \* SubscriberGraceCredits
          TrialCredits,     \* trial allowance of a user without overrides
          Updates,          \* subscription updates Stripe may send
          AdminOverrides,   \* overrides an administrator may save
          InitRows,         \* rows the user may start from
          MaxSessions,      \* bound: automation sessions ever begun
          MaxPhantom,       \* bound: session credits at a failing commit
          MaxOperations,    \* bound: operations other than charges ever begun
          RowWriters        \* which read-then-write operations run

ASSUME QuotaAssumption ==
    /\ Costs \subseteq Nat \ {0}
    /\ PackCredits \in Nat \ {0}
    /\ Grace \in Nat /\ TrialCredits \in Nat
    /\ Grant["starter"] <= Grant["pro"]
    /\ AdminOverrides \subseteq UserOverrides
    /\ MaxSessions \in Nat /\ MaxPhantom \in Int /\ MaxOperations \in Nat
    /\ RowWriters \subseteq {"settle", "update", "customer", "repair", "overrides"}

\* applySubscriptionEvent terminates whatever does not grant access.
ASSUME UpdatesAssumption ==
    \A in \in Updates : in \in Update /\ (in.terminate \/ SubscriptionActive(in.status))

ASSUME InitRowsAssumption ==
    \A r \in InitRows : /\ r \in Row
                        /\ r.used <= r.allow /\ r.allow <= Grant["pro"]
                        /\ r.plan = "expired" => r.allow = 0

VARIABLES row,              \* the user_quota row
          overrides,        \* the user's overrides, in the settings table
          recorded,         \* idempotency keys in the usage event tables
          charged,          \* sum of credits_burned over the usage events
          granted,          \* top-up events in stripe_credit_grants
          live,             \* session in Service.sessions, 0 for none
          begun,            \* sessions begun so far
          usedCredits,      \* usedCredits of every session object
          pc,               \* where each worker is
          loc,              \* what each worker carries between its steps
          operations,       \* operations other than charges begun so far
          overdrawn,        \* history: credits burned beyond the balance
          peak,             \* history: the highest allowance the row ever had
          overridden        \* history: an allowance override was ever saved

tables == <<row, overrides, recorded, charged, granted, overdrawn, peak, overridden>>
sessions == <<live, begun, usedCredits>>
vars == <<tables, sessions, pc, loc, operations>>

Sessions == 0..MaxSessions
Nothing == [op |-> "none"]
NoOverrides == [allow |-> {}, enforce |-> {}, trial |-> TrialCredits]

Start(p, at, l) == /\ pc' = [pc EXCEPT ![p] = at]
                   /\ loc' = [loc EXCEPT ![p] = l]
Go(p, at, l) == Start(p, at, l) /\ UNCHANGED operations
Done(p) == Go(p, "idle", Nothing)

\* An idle worker takes up an operation other than a charge.
Begin(p, at, l) == /\ pc[p] = "idle"
                   /\ operations < MaxOperations /\ operations' = operations + 1
                   /\ Start(p, at, l)

SetRow(r) == /\ row' = r
             /\ peak' = IF r.allow > peak THEN r.allow ELSE peak
KeepRow == UNCHANGED <<row, peak>>

Init == /\ row \in InitRows /\ peak = row.allow
        /\ overrides = NoOverrides /\ overridden = FALSE
        /\ recorded = {} /\ charged = 0 /\ overdrawn = 0 /\ granted = {}
        /\ live = 0 /\ begun = 0 /\ operations = 0
        /\ usedCredits = [s \in Sessions |-> 0]
        /\ pc = [p \in Workers |-> "idle"]
        /\ loc = [p \in Workers |-> Nothing]

(***************************************************************************)
(* getOrCreateRow, by the operations that go on from it: the row, and in   *)
(* the next statement the overrides, applied to the row read before.       *)
(***************************************************************************)
Requests == [kind : {"preflight"}, cost : Costs]
         \cup [kind : {"session", "customer"}]
         \cup [kind : {"update"}, in : Updates]
         \cup [kind : {"repair"}, plan : Paid]

GetRow(p, task) ==
    /\ task.kind \in RowWriters \cup {"preflight", "session"}
    /\ task.kind = "session" => begun < MaxSessions
    /\ Begin(p, "fetched", [op |-> "fetched", task |-> task, row |-> row])
    /\ UNCHANGED <<tables, sessions>>

Fetched(p, kind) == pc[p] = "fetched" /\ loc[p].task.kind = kind
Effective(p) == ApplyOverrides(loc[p].row, overrides)
ToWrite(p, r) == Go(p, "write", [op |-> "write", row |-> r])

(***************************************************************************)
(* Preflight: BeforeCreditUse and BeforeLLM.  A refusal ends the call; so  *)
(* does a balance that covers the cost.  Otherwise the caller needs room   *)
(* in the grace session, checked outside the lock and reserved under it.   *)
(***************************************************************************)
Refused(r, n) ==
    \/ r.plan = "trial" /\ TotalRemaining(r) < n
    \/ r.plan = "expired"
    \/ r.plan \in Paid /\ ~SubscriptionAllowsUsage(r)

PreflightRead(p) ==
    /\ Fetched(p, "preflight")
    /\ LET r == Effective(p)
           n == loc[p].task.cost
       IN  IF r.enforce /\ ~Refused(r, n) /\ TotalRemaining(r) < n
           THEN Go(p, "preflight", [op |-> "preflight", over |-> GraceUse(r, n)])
           ELSE Done(p)
    /\ UNCHANGED <<tables, sessions>>

PreflightCheck(p) ==
    /\ pc[p] = "preflight"
    /\ IF live # 0 /\ usedCredits[live] + loc[p].over <= Grace
       THEN Go(p, "reserve", [op |-> "reserve", over |-> loc[p].over, sess |-> live])
       ELSE Done(p)
    /\ UNCHANGED <<tables, sessions>>

PreflightReserve(p) ==
    /\ pc[p] = "reserve"
    /\ usedCredits' = [usedCredits EXCEPT ![loc[p].sess] = @ + loc[p].over]
    /\ Done(p)
    /\ UNCHANGED <<tables, live, begun>>

(***************************************************************************)
(* A charge: PrepareTransactionalBurnStrict reads the overrides and looks  *)
(* for a grace session, then one transaction checks the idempotency key,   *)
(* applies those overrides, burns and records.                             *)
(***************************************************************************)
PrepareBurn(p, k, n) ==
    /\ pc[p] = "idle"
    /\ Go(p, "prepare", [op |-> "prepare", key |-> k, cost |-> n, over |-> overrides])
    /\ UNCHANGED <<tables, sessions>>

PrepareGrace(p) ==
    /\ pc[p] = "prepare"
    /\ Go(p, "burn", [op |-> "burn", key |-> loc[p].key, cost |-> loc[p].cost,
                      over |-> loc[p].over, inGrace |-> live # 0])
    /\ UNCHANGED <<tables, sessions>>

\* The row the transaction charges.
BurnRow(p) == ApplyOverrides(row, loc[p].over)

BurnAccepted(p) ==
    /\ loc[p].key \notin recorded
    /\ BurnRow(p).enforce =>
         StrictBurnAllowed(BurnRow(p), loc[p].cost, loc[p].inGrace, Grace)

\* The session of the moment, not the one seen when preparing, is told.
TellSession(n) ==
    usedCredits' = IF live = 0 THEN usedCredits
                   ELSE [usedCredits EXCEPT ![live] = @ + n]

CommitBurn(p) ==
    /\ pc[p] = "burn" /\ BurnAccepted(p)
    /\ recorded' = recorded \cup {loc[p].key}
    /\ IF BurnRow(p).enforce
       THEN /\ SetRow(ApplyBurn(BurnRow(p), loc[p].cost))
            /\ charged' = charged + loc[p].cost
            /\ overdrawn' = overdrawn + GraceUse(BurnRow(p), loc[p].cost)
            /\ TellSession(GraceUse(BurnRow(p), loc[p].cost))
       ELSE KeepRow /\ UNCHANGED <<charged, overdrawn, usedCredits>>
    /\ Done(p)
    /\ UNCHANGED <<overrides, overridden, granted, live, begun>>

\* The commit fails (the request was cancelled): the row rolls back, what
\* was added to the session in memory does not.
BurnRollback(p) ==
    /\ pc[p] = "burn" /\ BurnAccepted(p)
    /\ usedCredits[live] <= MaxPhantom
    /\ IF BurnRow(p).enforce THEN TellSession(GraceUse(BurnRow(p), loc[p].cost))
                             ELSE UNCHANGED usedCredits
    /\ Done(p)
    /\ UNCHANGED <<tables, live, begun>>

\* A key already recorded, or a balance that does not cover the charge.
BurnRefused(p) ==
    /\ pc[p] = "burn" /\ ~BurnAccepted(p)
    /\ Done(p)
    /\ UNCHANGED <<tables, sessions>>

\* GrantTopUpOnce: one transaction, unique in the event.
GrantTopUpOnce(g) ==
    /\ g \notin granted
    /\ granted' = granted \cup {g}
    /\ SetRow([row EXCEPT !.topup = @ + PackCredits])
    /\ UNCHANGED <<overrides, overridden, recorded, charged, overdrawn, sessions, pc, loc, operations>>

(***************************************************************************)
(* The grace session of an automation run.                                 *)
(***************************************************************************)
BeginSubscriberSession(p) ==
    /\ Fetched(p, "session")
    /\ IF Effective(p).plan # "trial" /\ Effective(p).enforce
       THEN begun < MaxSessions /\ begun' = begun + 1 /\ live' = begun + 1
       ELSE UNCHANGED <<begun, live>>
    /\ Done(p)
    /\ UNCHANGED <<tables, usedCredits>>

EndSubscriberSession(p) ==
    /\ "settle" \in RowWriters
    /\ live # 0 /\ live' = 0
    /\ Begin(p, "settle", [op |-> "settle", sess |-> live])
    /\ UNCHANGED <<tables, begun, usedCredits>>

\* The settlement reads the row as it is stored, without the overrides.
SettleRead(p) ==
    /\ pc[p] = "settle"
    /\ IF Overage(row) > 0
       THEN ToWrite(p, [row EXCEPT !.debt =
                           @ + Least(Overage(row), usedCredits[loc[p].sess])])
       ELSE Done(p)
    /\ UNCHANGED <<tables, sessions>>

(***************************************************************************)
(* Operations that compute a new row from the one they fetched and write   *)
(* all of it.                                                              *)
(***************************************************************************)
ApplyStripeSubscription(p) ==
    /\ Fetched(p, "update")
    /\ IF StaleUpdate(Effective(p), loc[p].task.in)
       THEN Done(p)
       ELSE ToWrite(p, AppliedUpdate(Effective(p), loc[p].task.in))
    /\ UNCHANGED <<tables, sessions>>

\* The customer id is written with the rest of the row.
SetStripeCustomer(p) ==
    /\ Fetched(p, "customer")
    /\ ToWrite(p, Effective(p))
    /\ UNCHANGED <<tables, sessions>>

RepairReconcileAllowance(p) ==
    /\ Fetched(p, "repair")
    /\ IF Effective(p).allow >= Grant[loc[p].task.plan]
       THEN Done(p)
       ELSE ToWrite(p, RepairedAllowance(Effective(p), loc[p].task.plan))
    /\ UNCHANGED <<tables, sessions>>

WriteRow(p) ==
    /\ pc[p] = "write"
    /\ SetRow(loc[p].row)
    /\ Done(p)
    /\ UNCHANGED <<overrides, overridden, recorded, charged, overdrawn, granted, sessions>>

(***************************************************************************)
(* An administrator saves overrides (PUT /api/admin/users/{id}): a changed *)
(* trial allowance first goes to the row of a trial, then the overrides    *)
(* are stored, and an enforcement that was given is written to the row.    *)
(***************************************************************************)
SaveUserOverrides(p, o) ==
    /\ "overrides" \in RowWriters
    /\ IF o.trial # overrides.trial
       THEN Begin(p, "reconcile", [op |-> "reconcile", over |-> o, old |-> overrides.trial])
       ELSE Begin(p, "save", [op |-> "save", over |-> o])
    /\ UNCHANGED <<tables, sessions>>

ReconcileRead(p) ==
    /\ pc[p] = "reconcile"
    /\ IF row.plan = "trial"
       THEN Go(p, "reconciled",
                  [op |-> "reconciled", over |-> loc[p].over,
                   row |-> [row EXCEPT !.trial =
                               ReconcileTrial(@, loc[p].old, loc[p].over.trial)]])
       ELSE Go(p, "save", [op |-> "save", over |-> loc[p].over])
    /\ UNCHANGED <<tables, sessions>>

ReconcileWrite(p) ==
    /\ pc[p] = "reconciled"
    /\ SetRow(loc[p].row)
    /\ Go(p, "save", [op |-> "save", over |-> loc[p].over])
    /\ UNCHANGED <<overrides, overridden, recorded, charged, overdrawn, granted, sessions>>

SaveOverrides(p) ==
    /\ pc[p] = "save"
    /\ overrides' = loc[p].over
    /\ overridden' = (overridden \/ loc[p].over.allow # {})
    /\ IF loc[p].over.enforce = {}
       THEN Done(p)
       ELSE Go(p, "enforce", [op |-> "enforce", enabled |-> Given(loc[p].over.enforce, TRUE)])
    /\ KeepRow
    /\ UNCHANGED <<recorded, charged, overdrawn, granted, sessions>>

EnforcementRead(p) ==
    /\ pc[p] = "enforce"
    /\ Go(p, "fetched",
             [op |-> "fetched", row |-> row,
              task |-> [kind |-> "enforcement", enabled |-> loc[p].enabled]])
    /\ UNCHANGED <<tables, sessions>>

SetEnforcement(p) ==
    /\ Fetched(p, "enforcement")
    /\ ToWrite(p, [Effective(p) EXCEPT !.enforce = loc[p].task.enabled])
    /\ UNCHANGED <<tables, sessions>>

Charging(p) ==
    \/ \E k \in Keys, n \in Costs : PrepareBurn(p, k, n)
    \/ PrepareGrace(p)
    \/ CommitBurn(p)
    \/ BurnRollback(p)
    \/ BurnRefused(p)

Computing(p) ==
    \/ PreflightRead(p)
    \/ PreflightCheck(p)
    \/ PreflightReserve(p)
    \/ BeginSubscriberSession(p)
    \/ EndSubscriberSession(p)
    \/ SettleRead(p)
    \/ ApplyStripeSubscription(p)
    \/ SetStripeCustomer(p)
    \/ RepairReconcileAllowance(p)

Administering(p) ==
    \/ \E o \in AdminOverrides : SaveUserOverrides(p, o)
    \/ ReconcileRead(p)
    \/ ReconcileWrite(p)
    \/ SaveOverrides(p)
    \/ EnforcementRead(p)
    \/ SetEnforcement(p)

Next ==
    \/ \E p \in Workers :
          \/ \E task \in Requests : GetRow(p, task)
          \/ Charging(p)
          \/ Computing(p)
          \/ Administering(p)
          \/ WriteRow(p)
    \/ \E g \in TopUps : GrantTopUpOnce(g)

Spec == Init /\ [][Next]_vars

-----------------------------------------------------------------------------
QuotaStages == {"idle", "fetched", "preflight", "reserve", "prepare", "burn", "settle",
                "write", "reconcile", "reconciled", "save", "enforce"}

LocalStates ==
    {Nothing}
    \cup [op : {"fetched"}, row : Row,
          task : Requests \cup [kind : {"enforcement"}, enabled : BOOLEAN]]
    \cup [op : {"preflight"}, over : Nat]
    \cup [op : {"reserve"}, over : Nat, sess : Sessions]
    \cup [op : {"prepare"}, key : Keys, cost : Costs, over : UserOverrides]
    \cup [op : {"burn"}, key : Keys, cost : Costs, over : UserOverrides, inGrace : BOOLEAN]
    \cup [op : {"settle"}, sess : Sessions]
    \cup [op : {"write"}, row : Row]
    \cup [op : {"reconcile"}, over : UserOverrides, old : Nat]
    \cup [op : {"reconciled"}, over : UserOverrides, row : Row]
    \cup [op : {"save"}, over : UserOverrides]
    \cup [op : {"enforce"}, enabled : BOOLEAN]

TypeOK ==
    /\ row \in Row /\ overrides \in UserOverrides
    /\ recorded \subseteq Keys
    /\ operations \in Nat
    /\ charged \in Nat /\ overdrawn \in Nat /\ peak \in Nat /\ overridden \in BOOLEAN
    /\ granted \subseteq TopUps
    /\ live \in Sessions /\ begun \in Sessions
    /\ usedCredits \in [Sessions -> Nat]
    /\ pc \in [Workers -> QuotaStages]
    /\ loc \in [Workers -> LocalStates]
    /\ \A p \in Workers : loc[p].op = IF pc[p] = "idle" THEN "none" ELSE pc[p]

WithinPeak == row.used <= peak + Grace
WithinAllowance == ~overridden => row.used <= row.allow + Grace

\* No charge takes the month past the grace allowance, whatever the order of
\* charges, sessions, whole-row writes and overrides: it stays within grace of
\* the highest allowance the row ever had, and of the allowance it has while
\* no administrator has set one.  CommitTransactionalBurn checks the row it
\* reads inside the transaction that burns; an allowance lowered by an override
\* leaves a month that is overdrawn already.
OverageWithinGrace == WithinPeak /\ WithinAllowance

\* Credits are burned beyond a balance only for a user who began an automation
\* session, also by a charge that was prepared before other charges committed
\* or before an override changed what it may spend (CommitTransactionalBurn,
\* StrictBalance).
OverdrawnNeedsSession == overdrawn > 0 => begun > 0

\* What the buckets of a row say was spent.
Spent(r) == r.used - r.topup - r.trial

\* A charge takes exactly the credits its usage event records.  Outside grace
\* they come off what the user could still spend, given the allowance the
\* charge itself writes to the row; in grace of a paid plan they are booked on
\* the buckets in full, where the settlement finds them (deductPaid,
\* applyBurn, CommitTransactionalBurn).
ChargeIsExact ==
    [][charged' # charged =>
         LET before == [row EXCEPT !.allow = row'.allow]
         IN  /\ overdrawn' = overdrawn =>
                  TotalRemaining(before) - TotalRemaining(row') = charged' - charged
             /\ row.plan # "trial" => Spent(row') - Spent(row) = charged' - charged]_vars

\* "roll genuine overage into debt only when used exceeded allowance at period
\* end" (docs/billing.md): a user owes no more than what was burned beyond the
\* balance.
DebtIsGenuine == \E r \in InitRows : row.debt <= r.debt + overdrawn
=============================================================================
