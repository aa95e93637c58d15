-------------------------- MODULE SharedState_proofs --------------------------
(***************************************************************************)
(* What all activities of one user share: the row of credits that every    *)
(* paid call charges, and the coordinator that keeps the clean-up of       *)
(* documents out of every work on them.  The two have no state in common.  *)
(*                                                                         *)
(* The quota service, for every number of workers, sessions, charges,      *)
(* updates and overrides: the row keeps its shape, no interleaving of      *)
(* charges with whole-row writes and overrides takes it past the grace     *)
(* allowance, a charge takes exactly its credits, and only users who began *)
(* a session are charged beyond their balance.                             *)
(*                                                                         *)
(* The coordinator and the clean-up, for any number of goroutines and      *)
(* evictors and any nesting: work guards and evictions of one user exclude *)
(* each other.  The argument: the counter is the number of guards held, so *)
(* a counter of zero means that no task holds one.  Submissions, document  *)
(* writes and clean-ups use the coordinator only through its operations,   *)
(* so what is proved of it holds of the whole retention subsystem,         *)
(* whatever the documents are.                                             *)
(***************************************************************************)
EXTENDS QuotaService, Retention, FiniteSetTheorems, SequenceTheorems, TLAPS

-----------------------------------------------------------------------------
(* The quota service: rows. *)

\* A burn of a well-formed row is a well-formed row (applyBurn).
LEMMA BurnType ==
    ASSUME NEW r \in Row, NEW n \in Nat
    PROVE  /\ ApplyBurn(r, n) \in Row
           /\ TotalRemaining(r) \in Nat
           /\ GraceUse(r, n) \in Nat
           /\ Overage(r) \in Nat
<1>1. /\ r.allow \in Nat /\ r.used \in Nat /\ r.debt \in Nat
      /\ r.topup \in Nat /\ r.trial \in Nat
  BY DEF Row
<1>2. TotalRemaining(r) \in Nat
  BY <1>1 DEF TotalRemaining, AtLeast0, MonthlyRemaining, TrialExpired
<1>3. GraceUse(r, n) \in Nat /\ Overage(r) \in Nat
  BY <1>1, <1>2 DEF GraceUse, Overage, AtLeast0
<1>4. DeductPaid(r, n) \in Row
  <2> DEFINE month == Least(n, AtLeast0(MonthlyRemaining(r)))
             bought == Least(n - month, r.topup)
  <2>1. month \in 0..n
    BY <1>1 DEF Least, AtLeast0, MonthlyRemaining
  <2>2. bought \in 0..r.topup /\ bought <= n
    BY <1>1, <2>1 DEF Least
  <2> HIDE DEF month, bought
  <2>3. r.used + (n - bought) \in Nat /\ r.topup - bought \in Nat
    BY <1>1, <2>2
  <2>4. [r EXCEPT !.used = @ + (n - bought), !.topup = @ - bought] \in Row
    BY <2>3 DEF Row
  <2> QED BY <2>4 DEF DeductPaid, month, bought
<1>5. [r EXCEPT !.trial = AtLeast0(@ - n)] \in Row
  BY <1>1 DEF Row, AtLeast0
<1> QED BY <1>2, <1>3, <1>4, <1>5 DEF ApplyBurn

\* An option that is set gives one of its values.
LEMMA GivenType ==
    ASSUME NEW S, NEW option \in SUBSET S, NEW otherwise \in S
    PROVE  Given(option, otherwise) \in S
<1>1. option # {} => (CHOOSE v \in option : TRUE) \in option
  OBVIOUS
<1> QED BY <1>1 DEF Given

\* Overrides touch the enforcement, and the allowance of a row that is no trial
\* (applyOverridesToRow).
LEMMA OverridesType ==
    ASSUME NEW r \in Row, NEW o \in UserOverrides
    PROVE  /\ ApplyOverrides(r, o) \in Row
           /\ \E a \in Nat, e \in BOOLEAN :
                 /\ ApplyOverrides(r, o) = [r EXCEPT !.allow = a, !.enforce = e]
                 /\ o.allow = {} => a = r.allow
<1> DEFINE a == IF r.plan = "trial" THEN r.allow ELSE Given(o.allow, r.allow)
           e == Given(o.enforce, r.enforce)
<1>1. /\ r.allow \in Nat /\ r.enforce \in BOOLEAN
      /\ o.allow \in SUBSET Nat /\ o.enforce \in SUBSET BOOLEAN
  BY DEF Row, UserOverrides
<1>2. Given(o.allow, r.allow) \in Nat /\ e \in BOOLEAN
  BY <1>1, GivenType
<1>3. a \in Nat /\ (o.allow = {} => a = r.allow)
  BY <1>1, <1>2 DEF Given
<1>4. ApplyOverrides(r, o) = [r EXCEPT !.allow = a, !.enforce = e]
  BY DEF ApplyOverrides, Row
<1> HIDE DEF a, e
<1>5. [r EXCEPT !.allow = a, !.enforce = e] \in Row
  BY <1>2, <1>3 DEF Row
<1> QED BY <1>2, <1>3, <1>4, <1>5

\* What overrides leave of a row.
LEMMA Overridden ==
    ASSUME NEW r \in Row, NEW o \in UserOverrides
    PROVE  /\ ApplyOverrides(r, o) \in Row
           /\ ApplyOverrides(r, o).used = r.used
           /\ ApplyOverrides(r, o).plan = r.plan
           /\ o.allow = {} => ApplyOverrides(r, o).allow = r.allow
<1>1. PICK a \in Nat, e \in BOOLEAN :
         /\ ApplyOverrides(r, o) = [r EXCEPT !.allow = a, !.enforce = e]
         /\ o.allow = {} => a = r.allow
  BY OverridesType
<1>2. LET s == [r EXCEPT !.allow = a, !.enforce = e]
      IN  s.used = r.used /\ s.plan = r.plan /\ s.allow = a
  BY DEF Row
<1> QED BY <1>1, <1>2, OverridesType

\* A subscription update of a well-formed row is a well-formed row, also when
\* the status ends the plan (ApplyStripeSubscription).
LEMMA UpdateType ==
    ASSUME NEW r \in Row, NEW in \in Update
    PROVE  AppliedUpdate(r, in) \in Row
<1>1. /\ in.plan \in Paid /\ in.status \in Statuses /\ in.cancel \in BOOLEAN
      /\ in.start \in Nat /\ in.created \in Nat
  BY DEF Update
<1>2. /\ in.plan \in Plans /\ "expired" \in Plans /\ "canceled" \in Statuses
      /\ Grant[in.plan] \in Nat
  BY <1>1, GrantAssumption DEF Plans, Statuses
<1>3. /\ r.allow \in Nat /\ r.used \in Nat /\ r.debt \in Nat /\ r.start \in Nat
      /\ r.ev \in Nat /\ Stamp(r, in) \in Nat
      /\ r.debt + Overage(r) \in Nat
  BY <1>1 DEF Row, Stamp, Overage, AtLeast0
<1>4. TerminateSubscription(r, in) \in Row
  BY <1>2, <1>3 DEF TerminateSubscription, Row
<1>5. [r EXCEPT !.status = in.status, !.cancel = in.cancel, !.sub = TRUE] \in Row
  BY <1>1 DEF Row
<1>6. EndingAtPeriodEnd(r, in) \in Row
  BY <1>1, <1>2, <1>3 DEF EndingAtPeriodEnd, Row
<1> DEFINE s == Subscribed(r, in)
<1>7. s \in Row /\ s.debt = r.debt /\ s.allow = r.allow /\ s.start = r.start
  BY <1>1, <1>2, <1>3 DEF Subscribed, Row
<1> HIDE DEF s
<1>8. [s EXCEPT !.debt = @ + Overage(r), !.used = 0, !.topup = 0,
                !.allow = Grant[in.plan], !.start = in.start] \in Row
  BY <1>1, <1>2, <1>3, <1>7 DEF Row
<1>9. ASSUME NEW a \in Nat, NEW b \in Nat
      PROVE  [s EXCEPT !.allow = a, !.start = b] \in Row
  BY <1>7 DEF Row
<1>10. [s EXCEPT !.allow = IF PlanGrantsNow(r, in) THEN Grant[in.plan] ELSE @,
                 !.start = IF in.start > 0 THEN in.start ELSE @] \in Row
  <2> DEFINE a == IF PlanGrantsNow(r, in) THEN Grant[in.plan] ELSE s.allow
             b == IF in.start > 0 THEN in.start ELSE s.start
  <2>1. a \in Nat /\ b \in Nat
    BY <1>1, <1>2, <1>3, <1>7
  <2> HIDE DEF a, b
  <2>2. [s EXCEPT !.allow = a, !.start = b] \in Row
    BY <1>9, <2>1
  <2> QED BY <2>2 DEF a, b
<1> QED BY <1>4, <1>5, <1>6, <1>7, <1>8, <1>10 DEF AppliedUpdate, RollOver, s

\* A repair raises the allowance to a grant (RepairReconcileAllowance).
LEMMA RepairType ==
    ASSUME NEW r \in Row, NEW plan \in Paid
    PROVE  /\ RepairedAllowance(r, plan) \in Row
           /\ RepairedAllowance(r, plan).used = r.used
BY GrantAssumption DEF RepairedAllowance, Row

-----------------------------------------------------------------------------
(* Types. *)

\* Whatever a worker starts to carry, the rest of the local state keeps its
\* type.
LEMMA StartType ==
    ASSUME TypeOK, NEW p \in Workers, NEW at, NEW l, Start(p, at, l),
           at \in QuotaStages,
           l \in LocalStates, l.op = IF at = "idle" THEN "none" ELSE at
    PROVE  /\ pc' \in [Workers -> QuotaStages]
           /\ loc' \in [Workers -> LocalStates]
           /\ \A q \in Workers : loc'[q].op = IF pc'[q] = "idle" THEN "none" ELSE pc'[q]
<1> HIDE DEF LocalStates, QuotaStages
<1>1. pc' = [pc EXCEPT ![p] = at] /\ loc' = [loc EXCEPT ![p] = l]
  BY DEF Start
<1>2. \A q \in Workers : /\ pc'[q] = IF q = p THEN at ELSE pc[q]
                         /\ loc'[q] = IF q = p THEN l ELSE loc[q]
  BY <1>1 DEF TypeOK
<1>3. /\ pc' \in [Workers -> QuotaStages]
      /\ loc' \in [Workers -> LocalStates]
  BY <1>1 DEF TypeOK
<1>4. \A q \in Workers : loc'[q].op = IF pc'[q] = "idle" THEN "none" ELSE pc'[q]
  BY <1>2 DEF TypeOK
<1> QED BY <1>3, <1>4

\* What a worker carries, by where it is.
LEMMA Carried ==
    ASSUME TypeOK, NEW p \in Workers
    PROVE  /\ pc[p] = "fetched" =>
                 /\ loc[p].row \in Row
                 /\ loc[p].task \in Requests \cup [kind : {"enforcement"}, enabled : BOOLEAN]
           /\ pc[p] = "preflight" => loc[p].over \in Nat
           /\ pc[p] = "reserve" => loc[p].over \in Nat /\ loc[p].sess \in Sessions
           /\ pc[p] \in {"prepare", "burn"} =>
                 loc[p].key \in Keys /\ loc[p].cost \in Costs /\ loc[p].over \in UserOverrides
           /\ pc[p] = "burn" => loc[p].inGrace \in BOOLEAN
           /\ pc[p] = "settle" => loc[p].sess \in Sessions
           /\ pc[p] \in {"write", "reconciled"} => loc[p].row \in Row
           /\ pc[p] \in {"reconcile", "reconciled", "save"} => loc[p].over \in UserOverrides
           /\ pc[p] = "reconcile" => loc[p].old \in Nat
           /\ pc[p] = "enforce" => loc[p].enabled \in BOOLEAN
<1>1. loc[p] \in LocalStates /\ loc[p].op = IF pc[p] = "idle" THEN "none" ELSE pc[p]
  BY DEF TypeOK
<1> HIDE DEF Requests, UserOverrides, Row
<1> QED BY <1>1 DEF LocalStates, Nothing

\* What the request a worker fetched the row for asks for.
LEMMA Asked ==
    ASSUME TypeOK, NEW p \in Workers
    PROVE  /\ Fetched(p, "preflight") => loc[p].task.cost \in Costs
           /\ Fetched(p, "update") => loc[p].task.in \in Updates
           /\ Fetched(p, "repair") => loc[p].task.plan \in Paid
           /\ Fetched(p, "enforcement") => loc[p].task.enabled \in BOOLEAN
BY Carried DEF Fetched, Requests

\* The row a worker goes on with is a row, with the usage it fetched.
LEMMA EffectiveType ==
    ASSUME TypeOK, NEW p \in Workers, pc[p] = "fetched"
    PROVE  /\ loc[p].row \in Row
           /\ Effective(p) \in Row
           /\ Effective(p).used = loc[p].row.used
           /\ Effective(p).plan = loc[p].row.plan
           /\ overrides.allow = {} => Effective(p).allow = loc[p].row.allow
<1>1. loc[p].row \in Row
  BY Carried
<1>2. overrides \in UserOverrides
  BY DEF TypeOK
<1> QED BY <1>1, <1>2, Overridden DEF Effective

LEMMA TypeInit == Init => TypeOK
<1> SUFFICES ASSUME Init PROVE TypeOK
  OBVIOUS
<1>1. row \in Row /\ peak \in Nat
  BY InitRowsAssumption DEF Init, Row
<1>2. Nothing \in LocalStates /\ Nothing.op = "none"
  BY DEF LocalStates, Nothing
<1>3. 0 \in Sessions
  BY QuotaAssumption DEF Sessions
<1>4. overrides \in UserOverrides
  BY QuotaAssumption DEF Init, NoOverrides, UserOverrides
<1> HIDE DEF LocalStates
<1> QED BY <1>1, <1>2, <1>3, <1>4 DEF Init, TypeOK, QuotaStages

\* The types of what all workers share.
SharedOK ==
    /\ row \in Row /\ overrides \in UserOverrides
    /\ recorded \subseteq Keys /\ operations \in Nat
    /\ charged \in Nat /\ overdrawn \in Nat /\ peak \in Nat /\ overridden \in BOOLEAN
    /\ granted \subseteq TopUps
    /\ live \in Sessions /\ begun \in Sessions
    /\ usedCredits \in [Sessions -> Nat]

\* A step of one worker keeps the types if what it shares and carries has them.
LEMMA StepType ==
    ASSUME TypeOK, NEW p \in Workers, NEW at, NEW l,
           Go(p, at, l) \/ Begin(p, at, l),
           at \in QuotaStages,
           l \in LocalStates, l.op = IF at = "idle" THEN "none" ELSE at,
           operations' \in Nat => SharedOK'
    PROVE  TypeOK'
<1>1. operations' \in Nat
  BY DEF Go, Begin, TypeOK
<1>2. Start(p, at, l)
  BY DEF Go, Begin
<1> HIDE DEF LocalStates, QuotaStages
<1> QED BY <1>1, <1>2, StartType DEF TypeOK, SharedOK

LEMMA DoneType ==
    ASSUME TypeOK, NEW p \in Workers, Done(p), operations' \in Nat => SharedOK'
    PROVE  TypeOK'
<1>1. Nothing \in LocalStates /\ Nothing.op = "none"
  BY DEF LocalStates, Nothing
<1>2. "idle" \in QuotaStages
  BY DEF QuotaStages
<1> HIDE DEF LocalStates
<1> QED BY <1>1, <1>2, StepType DEF Done

\* A row that is set is a row, and the highest allowance a number.
LEMMA SetRowType ==
    ASSUME TypeOK, NEW r \in Row, SetRow(r)
    PROVE  row' \in Row /\ peak' \in Nat
BY DEF SetRow, Row, TypeOK

\* A worker that goes to write carries the row it computed.
LEMMA ToWriteType ==
    ASSUME TypeOK, NEW p \in Workers, NEW r \in Row, ToWrite(p, r),
           UNCHANGED <<tables, sessions>>
    PROVE  TypeOK'
<1> DEFINE l == [op |-> "write", row |-> r]
<1>1. l \in LocalStates /\ l.op = "write" /\ "write" \in QuotaStages
  BY DEF LocalStates, QuotaStages
<1>2. Go(p, "write", l)
  BY DEF ToWrite
<1>3. operations' \in Nat => SharedOK'
  BY DEF TypeOK, SharedOK, tables, sessions
<1> HIDE DEF LocalStates, l
<1> QED BY <1>1, <1>2, <1>3, StepType

LEMMA ChargingType ==
    ASSUME TypeOK, NEW p \in Workers, Charging(p)
    PROVE  TypeOK'
<1>0. SharedOK /\ Costs \subseteq Nat
  BY QuotaAssumption DEF TypeOK, SharedOK
<1>1. ASSUME NEW k \in Keys, NEW n \in Costs, PrepareBurn(p, k, n) PROVE TypeOK'
  <2> DEFINE l == [op |-> "prepare", key |-> k, cost |-> n, over |-> overrides]
  <2>1. l \in LocalStates /\ l.op = "prepare" /\ "prepare" \in QuotaStages
    BY <1>0 DEF LocalStates, QuotaStages, SharedOK
  <2>2. Go(p, "prepare", l) /\ UNCHANGED <<tables, sessions>>
    BY <1>1 DEF PrepareBurn
  <2>3. operations' \in Nat => SharedOK'
    BY <1>0, <2>2 DEF SharedOK, tables, sessions
  <2> HIDE DEF LocalStates, l
  <2> QED BY <2>1, <2>2, <2>3, StepType
<1>2. ASSUME PrepareGrace(p) PROVE TypeOK'
  <2> DEFINE l == [op |-> "burn", key |-> loc[p].key, cost |-> loc[p].cost,
                   over |-> loc[p].over, inGrace |-> live # 0]
  <2>1. loc[p].key \in Keys /\ loc[p].cost \in Costs /\ loc[p].over \in UserOverrides
    BY <1>2, Carried DEF PrepareGrace
  <2>2. l \in LocalStates /\ l.op = "burn" /\ "burn" \in QuotaStages
    BY <2>1 DEF LocalStates, QuotaStages
  <2>3. Go(p, "burn", l) /\ UNCHANGED <<tables, sessions>>
    BY <1>2 DEF PrepareGrace
  <2>4. operations' \in Nat => SharedOK'
    BY <1>0, <2>3 DEF SharedOK, tables, sessions
  <2> HIDE DEF LocalStates, l
  <2> QED BY <2>2, <2>3, <2>4, StepType
<1> DEFINE n == loc[p].cost
           r == BurnRow(p)
<1>3. ASSUME pc[p] = "burn"
      PROVE  /\ n \in Nat /\ r \in Row /\ loc[p].key \in Keys
             /\ ApplyBurn(r, n) \in Row /\ GraceUse(r, n) \in Nat
  <2>1. loc[p].key \in Keys /\ n \in Nat /\ loc[p].over \in UserOverrides
    BY <1>0, <1>3, Carried
  <2>2. r \in Row
    BY <1>0, <2>1, Overridden DEF BurnRow, SharedOK
  <2> QED BY <2>1, <2>2, BurnType
<1>4. ASSUME NEW k \in Nat, TellSession(k) PROVE usedCredits' \in [Sessions -> Nat]
  BY <1>0, <1>4 DEF TellSession, SharedOK
<1>5. ASSUME CommitBurn(p) PROVE TypeOK'
  <2>1. /\ n \in Nat /\ r \in Row /\ loc[p].key \in Keys
        /\ ApplyBurn(r, n) \in Row /\ GraceUse(r, n) \in Nat
    BY <1>3, <1>5 DEF CommitBurn
  <2>2. /\ recorded' = recorded \cup {loc[p].key} /\ Done(p)
        /\ UNCHANGED <<overrides, overridden, granted, live, begun>>
        /\ IF r.enforce
           THEN /\ SetRow(ApplyBurn(r, n)) /\ charged' = charged + n
                /\ overdrawn' = overdrawn + GraceUse(r, n)
                /\ TellSession(GraceUse(r, n))
           ELSE KeepRow /\ UNCHANGED <<charged, overdrawn, usedCredits>>
    BY <1>5 DEF CommitBurn
  <2> HIDE DEF n, r
  <2>3. row' \in Row /\ peak' \in Nat
    BY <1>0, <2>1, <2>2, SetRowType DEF KeepRow, SharedOK
  <2>4. charged' \in Nat /\ overdrawn' \in Nat /\ usedCredits' \in [Sessions -> Nat]
    BY <1>0, <1>4, <2>1, <2>2 DEF SharedOK
  <2>5. operations' \in Nat => SharedOK'
    BY <1>0, <2>1, <2>2, <2>3, <2>4 DEF SharedOK
  <2> QED BY <2>2, <2>5, DoneType
<1>6. ASSUME BurnRollback(p) PROVE TypeOK'
  <2>1. GraceUse(r, n) \in Nat
    BY <1>3, <1>6 DEF BurnRollback
  <2>2. /\ Done(p) /\ UNCHANGED <<tables, live, begun>>
        /\ IF r.enforce THEN TellSession(GraceUse(r, n)) ELSE UNCHANGED usedCredits
    BY <1>6 DEF BurnRollback
  <2> HIDE DEF n, r
  <2>3. usedCredits' \in [Sessions -> Nat]
    BY <1>0, <1>4, <2>1, <2>2 DEF SharedOK
  <2>4. operations' \in Nat => SharedOK'
    BY <1>0, <2>2, <2>3 DEF SharedOK, tables
  <2> QED BY <2>2, <2>4, DoneType
<1>7. ASSUME BurnRefused(p) PROVE TypeOK'
  <2>1. operations' \in Nat => SharedOK'
    BY <1>0, <1>7 DEF BurnRefused, SharedOK, tables, sessions
  <2> QED BY <1>7, <2>1, DoneType DEF BurnRefused
<1> QED BY <1>1, <1>2, <1>5, <1>6, <1>7 DEF Charging

LEMMA ComputingType ==
    ASSUME TypeOK, NEW p \in Workers, Computing(p)
    PROVE  TypeOK'
<1>0. SharedOK /\ Costs \subseteq Nat /\ 0 \in Sessions
  BY QuotaAssumption DEF TypeOK, SharedOK, Sessions
<1>1. ASSUME UNCHANGED <<tables, sessions>> PROVE operations' \in Nat => SharedOK'
  BY <1>0, <1>1 DEF SharedOK, tables, sessions
<1>2. ASSUME UNCHANGED <<tables, sessions>>, Done(p) PROVE TypeOK'
  BY <1>1, <1>2, DoneType
<1>3. ASSUME PreflightRead(p) PROVE TypeOK'
  <2> DEFINE l == [op |-> "preflight", over |-> GraceUse(Effective(p), loc[p].task.cost)]
  <2>1. Effective(p) \in Row /\ loc[p].task.cost \in Nat
    BY <1>0, <1>3, Asked, EffectiveType DEF PreflightRead, Fetched
  <2>2. l \in LocalStates /\ l.op = "preflight" /\ "preflight" \in QuotaStages
    BY <2>1, BurnType DEF LocalStates, QuotaStages
  <2>3. Go(p, "preflight", l) \/ Done(p)
    BY <1>3 DEF PreflightRead
  <2> HIDE DEF LocalStates, l
  <2> QED BY <1>1, <1>2, <1>3, <2>2, <2>3, StepType DEF PreflightRead
<1>4. ASSUME PreflightCheck(p) PROVE TypeOK'
  <2> DEFINE l == [op |-> "reserve", over |-> loc[p].over, sess |-> live]
  <2>1. l \in LocalStates /\ l.op = "reserve" /\ "reserve" \in QuotaStages
    BY <1>0, <1>4, Carried DEF LocalStates, PreflightCheck, SharedOK, QuotaStages
  <2>2. Go(p, "reserve", l) \/ Done(p)
    BY <1>4 DEF PreflightCheck
  <2> HIDE DEF LocalStates, l
  <2> QED BY <1>1, <1>2, <1>4, <2>1, <2>2, StepType DEF PreflightCheck
<1>5. ASSUME PreflightReserve(p) PROVE TypeOK'
  <2>1. loc[p].over \in Nat /\ loc[p].sess \in Sessions
    BY <1>5, Carried DEF PreflightReserve
  <2>2. usedCredits' \in [Sessions -> Nat]
    BY <1>0, <1>5, <2>1 DEF PreflightReserve, SharedOK
  <2>3. operations' \in Nat => SharedOK'
    BY <1>0, <1>5, <2>2 DEF PreflightReserve, SharedOK, tables
  <2> QED BY <1>5, <2>3, DoneType DEF PreflightReserve
<1>6. ASSUME BeginSubscriberSession(p) PROVE TypeOK'
  <2>1. live' \in Sessions /\ begun' \in Sessions
    <3>1. CASE UNCHANGED <<begun, live>>
      BY <1>0, <3>1 DEF SharedOK
    <3>2. CASE begun < MaxSessions /\ begun' = begun + 1 /\ live' = begun + 1
      <4>1. begun \in Nat /\ begun + 1 \in Sessions
        BY <1>0, <3>2, QuotaAssumption DEF SharedOK, Sessions
      <4> QED BY <3>2, <4>1
    <3> QED BY <1>6, <3>1, <3>2 DEF BeginSubscriberSession
  <2>2. operations' \in Nat => SharedOK'
    BY <1>0, <1>6, <2>1 DEF BeginSubscriberSession, SharedOK, tables
  <2> QED BY <1>6, <2>2, DoneType DEF BeginSubscriberSession
<1>7. ASSUME EndSubscriberSession(p) PROVE TypeOK'
  <2> DEFINE l == [op |-> "settle", sess |-> live]
  <2>1. l \in LocalStates /\ l.op = "settle" /\ "settle" \in QuotaStages
    BY <1>0 DEF LocalStates, SharedOK, QuotaStages
  <2>2. /\ Begin(p, "settle", l) /\ live' = 0
        /\ UNCHANGED <<tables, begun, usedCredits>>
    BY <1>7 DEF EndSubscriberSession
  <2>3. operations' \in Nat => SharedOK'
    BY <1>0, <2>2 DEF SharedOK, tables
  <2> HIDE DEF LocalStates, l
  <2> QED BY <2>1, <2>2, <2>3, StepType
<1>8. ASSUME SettleRead(p) PROVE TypeOK'
  <2> DEFINE over == Least(Overage(row), usedCredits[loc[p].sess])
             r == [row EXCEPT !.debt = @ + over]
  <2>1. loc[p].sess \in Sessions
    BY <1>8, Carried DEF SettleRead
  <2>2. over \in Nat
    BY <1>0, <2>1 DEF Least, Overage, AtLeast0, Row, SharedOK
  <2>3. r \in Row
    BY <1>0, <2>2 DEF Row, SharedOK
  <2>4. ToWrite(p, r) \/ Done(p)
    BY <1>8 DEF SettleRead
  <2> HIDE DEF r
  <2> QED BY <1>2, <1>8, <2>3, <2>4, ToWriteType DEF SettleRead
<1>9. ASSUME ApplyStripeSubscription(p) PROVE TypeOK'
  <2>1. Effective(p) \in Row /\ loc[p].task.in \in Update
    BY <1>9, Asked, EffectiveType, UpdatesAssumption DEF ApplyStripeSubscription, Fetched
  <2>2. AppliedUpdate(Effective(p), loc[p].task.in) \in Row
    BY <2>1, UpdateType
  <2> QED BY <1>2, <1>9, <2>2, ToWriteType DEF ApplyStripeSubscription
<1>10. ASSUME SetStripeCustomer(p) PROVE TypeOK'
  <2>1. Effective(p) \in Row
    BY <1>10, EffectiveType DEF SetStripeCustomer, Fetched
  <2> QED BY <1>10, <2>1, ToWriteType DEF SetStripeCustomer
<1>11. ASSUME RepairReconcileAllowance(p) PROVE TypeOK'
  <2>1. Effective(p) \in Row /\ loc[p].task.plan \in Paid
    BY <1>11, Asked, EffectiveType DEF RepairReconcileAllowance, Fetched
  <2>2. RepairedAllowance(Effective(p), loc[p].task.plan) \in Row
    BY <2>1, RepairType
  <2> QED BY <1>2, <1>11, <2>2, ToWriteType DEF RepairReconcileAllowance
<1> QED
  BY <1>3, <1>4, <1>5, <1>6, <1>7, <1>8, <1>9, <1>10, <1>11 DEF Computing

LEMMA AdministeringType ==
    ASSUME TypeOK, NEW p \in Workers, Administering(p)
    PROVE  TypeOK'
<1>0. SharedOK
  BY DEF TypeOK, SharedOK
<1>1. ASSUME UNCHANGED <<tables, sessions>> PROVE operations' \in Nat => SharedOK'
  BY <1>0, <1>1 DEF SharedOK, tables, sessions
<1>2. ASSUME NEW o \in UserOverrides,
             \/ Go(p, "save", [op |-> "save", over |-> o])
             \/ Begin(p, "save", [op |-> "save", over |-> o]),
             operations' \in Nat => SharedOK'
      PROVE  TypeOK'
  <2> DEFINE l == [op |-> "save", over |-> o]
  <2>1. l \in LocalStates /\ l.op = "save" /\ "save" \in QuotaStages
    BY DEF LocalStates, QuotaStages
  <2>2. Go(p, "save", l) \/ Begin(p, "save", l)
    BY <1>2
  <2> HIDE DEF LocalStates, l
  <2> QED BY <1>2, <2>1, <2>2, StepType
<1>3. ASSUME NEW o \in AdminOverrides, SaveUserOverrides(p, o) PROVE TypeOK'
  <2>1. o \in UserOverrides
    BY QuotaAssumption
  <2> DEFINE l == [op |-> "reconcile", over |-> o, old |-> overrides.trial]
  <2>2. l \in LocalStates /\ l.op = "reconcile" /\ "reconcile" \in QuotaStages
    <3>1. overrides.trial \in Nat
      BY <1>0 DEF SharedOK, UserOverrides
    <3> QED BY <2>1, <3>1 DEF LocalStates, QuotaStages
  <2>3. \/ Begin(p, "reconcile", l)
        \/ Begin(p, "save", [op |-> "save", over |-> o])
    BY <1>3 DEF SaveUserOverrides
  <2>4. operations' \in Nat => SharedOK'
    BY <1>1, <1>3 DEF SaveUserOverrides
  <2> HIDE DEF LocalStates, l
  <2> QED BY <1>2, <2>1, <2>2, <2>3, <2>4, StepType
<1>4. ASSUME ReconcileRead(p) PROVE TypeOK'
  <2>1. loc[p].over \in UserOverrides /\ loc[p].old \in Nat
    BY <1>4, Carried DEF ReconcileRead
  <2> DEFINE t == ReconcileTrial(row.trial, loc[p].old, loc[p].over.trial)
             r == [row EXCEPT !.trial = t]
             l == [op |-> "reconciled", over |-> loc[p].over, row |-> r]
  <2>2. t \in Nat
    BY <1>0, <2>1 DEF ReconcileTrial, AtLeast0, SharedOK, Row, UserOverrides
  <2>3. r \in Row
    BY <1>0, <2>2 DEF SharedOK, Row
  <2>4. l \in LocalStates /\ l.op = "reconciled" /\ "reconciled" \in QuotaStages
    BY <2>1, <2>3 DEF LocalStates, QuotaStages
  <2>5. \/ Go(p, "reconciled", l)
        \/ Go(p, "save", [op |-> "save", over |-> loc[p].over])
    BY <1>4 DEF ReconcileRead
  <2>6. operations' \in Nat => SharedOK'
    BY <1>1, <1>4 DEF ReconcileRead
  <2> HIDE DEF LocalStates, l
  <2> QED BY <1>2, <2>1, <2>4, <2>5, <2>6, StepType
<1>5. ASSUME ReconcileWrite(p) PROVE TypeOK'
  <2>1. loc[p].over \in UserOverrides /\ loc[p].row \in Row
    BY <1>5, Carried DEF ReconcileWrite
  <2>2. row' \in Row /\ peak' \in Nat
    BY <1>5, <2>1, SetRowType DEF ReconcileWrite
  <2>3. operations' \in Nat => SharedOK'
    BY <1>0, <1>5, <2>2 DEF ReconcileWrite, SharedOK, sessions
  <2> QED BY <1>2, <1>5, <2>1, <2>3 DEF ReconcileWrite
<1>6. ASSUME SaveOverrides(p) PROVE TypeOK'
  <2>1. loc[p].over \in UserOverrides
    BY <1>6, Carried DEF SaveOverrides
  <2> DEFINE l == [op |-> "enforce", enabled |-> Given(loc[p].over.enforce, TRUE)]
  <2>2. l.enabled \in BOOLEAN
    BY <2>1, GivenType DEF UserOverrides
  <2>3. l \in LocalStates /\ l.op = "enforce" /\ "enforce" \in QuotaStages
    BY <2>2 DEF LocalStates, QuotaStages
  <2>4. Go(p, "enforce", l) \/ Done(p)
    BY <1>6 DEF SaveOverrides
  <2>5. operations' \in Nat => SharedOK'
    BY <1>0, <1>6, <2>1 DEF SaveOverrides, SharedOK, sessions, KeepRow
  <2> HIDE DEF LocalStates, l
  <2> QED BY <2>3, <2>4, <2>5, StepType, DoneType
<1>7. ASSUME EnforcementRead(p) PROVE TypeOK'
  <2> DEFINE t == [kind |-> "enforcement", enabled |-> loc[p].enabled]
             l == [op |-> "fetched", row |-> row, task |-> t]
  <2>1. loc[p].enabled \in BOOLEAN
    BY <1>7, Carried DEF EnforcementRead
  <2>2. t \in [kind : {"enforcement"}, enabled : BOOLEAN]
    BY <2>1
  <2>3. Go(p, "fetched", l) /\ UNCHANGED <<tables, sessions>>
    BY <1>7 DEF EnforcementRead
  <2> HIDE DEF t
  <2>4. l \in LocalStates /\ l.op = "fetched" /\ "fetched" \in QuotaStages
    BY <1>0, <2>2 DEF LocalStates, QuotaStages, SharedOK
  <2> HIDE DEF LocalStates, l
  <2> QED BY <1>1, <2>3, <2>4, StepType
<1>8. ASSUME SetEnforcement(p) PROVE TypeOK'
  <2>1. Effective(p) \in Row /\ loc[p].task.enabled \in BOOLEAN
    BY <1>8, Asked, EffectiveType DEF SetEnforcement, Fetched
  <2>2. [Effective(p) EXCEPT !.enforce = loc[p].task.enabled] \in Row
    BY <2>1 DEF Row
  <2> QED BY <1>8, <2>2, ToWriteType DEF SetEnforcement
<1> QED BY <1>3, <1>4, <1>5, <1>6, <1>7, <1>8 DEF Administering

LEMMA TypeStep == TypeOK /\ [Next]_vars => TypeOK'
<1> SUFFICES ASSUME TypeOK, [Next]_vars PROVE TypeOK'
  OBVIOUS
<1>0. SharedOK
  BY DEF TypeOK, SharedOK
<1>1. ASSUME NEW p \in Workers, NEW request \in Requests, GetRow(p, request) PROVE TypeOK'
  <2> DEFINE l == [op |-> "fetched", task |-> request, row |-> row]
  <2> HIDE DEF Requests
  <2>1. l \in LocalStates /\ l.op = "fetched" /\ "fetched" \in QuotaStages
    BY <1>0 DEF LocalStates, QuotaStages, SharedOK
  <2>2. Begin(p, "fetched", l) /\ UNCHANGED <<tables, sessions>>
    BY <1>1 DEF GetRow
  <2>3. operations' \in Nat => SharedOK'
    BY <1>0, <2>2 DEF SharedOK, tables, sessions
  <2> HIDE DEF LocalStates, l
  <2> QED BY <2>1, <2>2, <2>3, StepType
<1>2. ASSUME NEW p \in Workers, WriteRow(p) PROVE TypeOK'
  <2>1. row' \in Row /\ peak' \in Nat
    BY <1>2, Carried, SetRowType DEF WriteRow
  <2>2. operations' \in Nat => SharedOK'
    BY <1>0, <1>2, <2>1 DEF WriteRow, SharedOK, sessions
  <2> QED BY <1>2, <2>2, DoneType DEF WriteRow
<1>3. ASSUME NEW g \in TopUps, GrantTopUpOnce(g) PROVE TypeOK'
  <2>1. [row EXCEPT !.topup = @ + PackCredits] \in Row
    <3>1. row.topup + PackCredits \in Nat
      BY <1>0, QuotaAssumption DEF Row, SharedOK
    <3> QED BY <1>0, <3>1 DEF Row, SharedOK
  <2>2. row' \in Row /\ peak' \in Nat
    BY <1>3, <2>1, SetRowType DEF GrantTopUpOnce
  <2> QED BY <1>0, <1>3, <2>2 DEF GrantTopUpOnce, TypeOK, SharedOK, sessions
<1>4. CASE UNCHANGED vars
  BY <1>4 DEF vars, tables, sessions, TypeOK
<1> QED
  BY <1>1, <1>2, <1>3, <1>4, ChargingType, ComputingType, AdministeringType DEF Next

\* The row, the overrides, the ledger and what workers carry keep their types,
\* in every interleaving of charges, sessions, whole-row writes and overrides:
\* no burn of any size makes an allowance, a trial or a top-up negative
\* (applyBurn, deductPaid, applyOverridesToRow).
THEOREM QuotaTypeCorrect == Spec => []TypeOK
BY TypeInit, TypeStep, PTL DEF Spec

-----------------------------------------------------------------------------
(* How far a month may be overdrawn. *)

\* The strict check admits only burns that leave the usage where it was or
\* within grace of the allowance of the row it charges
\* (CommitTransactionalBurn).
LEMMA StrictBurnUsed ==
    ASSUME NEW r \in Row, NEW n \in Nat, NEW inGrace,
           StrictBurnAllowed(r, n, inGrace, Grace)
    PROVE  /\ ApplyBurn(r, n).allow = r.allow
           /\ ApplyBurn(r, n).plan = r.plan
           /\ \/ ApplyBurn(r, n).used = r.used
              \/ ApplyBurn(r, n).used <= r.allow + Grace
<1>0. Grace \in Nat
  BY QuotaAssumption
<1>1. /\ r.allow \in Nat /\ r.used \in Nat /\ r.debt \in Nat
      /\ r.topup \in Nat /\ r.trial \in Nat
  BY DEF Row
<1>2. CASE r.plan = "trial"
  <2>1. ApplyBurn(r, n) = [r EXCEPT !.trial = AtLeast0(@ - n)]
    BY <1>2 DEF ApplyBurn
  <2> QED BY <2>1 DEF Row
<1>3. CASE r.plan # "trial"
  <2> DEFINE left == AtLeast0(MonthlyRemaining(r))
             month == Least(n, left)
             bought == Least(n - month, r.topup)
  <2>1. /\ ApplyBurn(r, n).used = r.used + (n - bought)
        /\ ApplyBurn(r, n).allow = r.allow
        /\ ApplyBurn(r, n).plan = r.plan
    BY <1>3 DEF ApplyBurn, DeductPaid, Row
  <2>2. /\ left \in Nat
        /\ left = 0 \/ r.used + left <= r.allow
    BY <1>1 DEF AtLeast0, MonthlyRemaining
  <2>3. GraceUse(r, n) = AtLeast0(n - (left + r.topup))
    BY <1>3 DEF GraceUse, TotalRemaining
  <2> HIDE DEF left
  <2>4. /\ GraceUse(r, n) \in Nat
        /\ n - bought <= left + GraceUse(r, n)
        /\ n - bought \in Nat
    BY <1>1, <2>2, <2>3 DEF AtLeast0, Least
  <2>5. CASE GraceUse(r, n) = 0
    BY <1>0, <1>1, <2>1, <2>2, <2>4, <2>5 DEF Least
  <2>6. CASE Overage(r) + GraceUse(r, n) <= Grace
    BY <1>0, <1>1, <2>1, <2>2, <2>4, <2>6 DEF Overage, AtLeast0, Least
  <2> QED BY <2>1, <2>5, <2>6 DEF StrictBurnAllowed
<1> QED BY <1>2, <1>3

\* A subscription update leaves the usage or resets it.
LEMMA UpdateUsed ==
    ASSUME NEW r \in Row, NEW in \in Update
    PROVE  AppliedUpdate(r, in).used \in {0, r.used}
<1>1. TerminateSubscription(r, in).used = 0
  BY DEF TerminateSubscription, Row
<1>2. [r EXCEPT !.status = in.status, !.cancel = in.cancel, !.sub = TRUE].used = r.used
  BY DEF Row
<1>3. EndingAtPeriodEnd(r, in).used = r.used
  BY DEF EndingAtPeriodEnd, Row
<1> DEFINE s == Subscribed(r, in)
<1>4. s \in Row /\ s.used = r.used
  <2>1. Stamp(r, in) \in Nat /\ in.plan \in Plans
    BY DEF Stamp, Row, Update, Plans
  <2> QED BY <2>1 DEF Subscribed, Row, Update
<1> HIDE DEF s
<1>5. /\ [s EXCEPT !.debt = @ + Overage(r), !.used = 0, !.topup = 0,
                   !.allow = Grant[in.plan], !.start = in.start].used = 0
      /\ \A a, b : [s EXCEPT !.allow = a, !.start = b].used = r.used
  BY <1>4 DEF Row
<1>6. [s EXCEPT !.allow = IF PlanGrantsNow(r, in) THEN Grant[in.plan] ELSE @,
                !.start = IF in.start > 0 THEN in.start ELSE @].used = r.used
  BY <1>5
<1> QED BY <1>1, <1>2, <1>3, <1>4, <1>5, <1>6 DEF AppliedUpdate, RollOver, s

\* Whatever a worker is about to write back, or has fetched to compute it from.
Holding == {"fetched", "write", "reconciled"}

Fits(r) == r.used \in Nat /\ r.used <= peak + Grace

PeakInv ==
    /\ Fits(row)
    /\ \A p \in Workers : pc[p] \in Holding => Fits(loc[p].row)

LEMMA PeakStart ==
    ASSUME TypeOK, PeakInv, NEW p \in Workers, NEW at, NEW l, Start(p, at, l),
           peak' \in Nat, peak' >= peak, Fits(row)',
           at \in Holding => Fits(l.row)
    PROVE  PeakInv'
<1>1. \A q \in Workers : /\ pc'[q] = IF q = p THEN at ELSE pc[q]
                         /\ loc'[q] = IF q = p THEN l ELSE loc[q]
  BY DEF Start, TypeOK
<1>2. peak \in Nat /\ Grace \in Nat
  BY QuotaAssumption DEF TypeOK
<1>3. \A q \in Workers : pc'[q] \in Holding => Fits(loc'[q].row)
  BY <1>1 DEF PeakInv
<1>4. ASSUME NEW r, Fits(r) PROVE Fits(r)'
  BY <1>2, <1>4 DEF Fits
<1> QED BY <1>2, <1>3 DEF PeakInv, Fits

\* A step that leaves the row alone.
LEMMA PeakQuiet ==
    ASSUME TypeOK, PeakInv, NEW p \in Workers, NEW at, NEW l, Start(p, at, l),
           UNCHANGED <<row, peak>>, at \in Holding => Fits(l.row)
    PROVE  PeakInv'
<1>1. peak' \in Nat /\ peak' >= peak /\ Fits(row)'
  BY DEF PeakInv, Fits, TypeOK
<1> QED BY <1>1, PeakStart

\* A step that sets the row to one that fits, or that fits its own allowance.
LEMMA PeakSet ==
    ASSUME TypeOK, PeakInv, NEW p \in Workers, NEW at, NEW l, Start(p, at, l),
           NEW r \in Row, SetRow(r), Fits(r) \/ r.used <= r.allow + Grace,
           at \notin Holding
    PROVE  PeakInv'
<1>1. /\ peak \in Nat /\ Grace \in Nat /\ r.allow \in Nat /\ r.used \in Nat
      /\ row' = r /\ peak' \in Nat /\ peak' >= peak /\ peak' >= r.allow
  BY QuotaAssumption DEF TypeOK, SetRow, Row
<1>2. Fits(row)'
  BY <1>1 DEF Fits
<1> QED BY <1>1, <1>2, PeakStart

LEMMA PeakInit == Init => PeakInv
<1> SUFFICES ASSUME Init PROVE PeakInv
  OBVIOUS
<1>1. row \in Row /\ row.used <= row.allow /\ peak = row.allow
  BY InitRowsAssumption DEF Init
<1>2. Fits(row)
  BY <1>1, QuotaAssumption DEF Fits, Row
<1> QED BY <1>2 DEF Init, PeakInv, Holding

LEMMA PeakCharging ==
    ASSUME TypeOK, PeakInv, NEW p \in Workers, Charging(p)
    PROVE  PeakInv'
<1>1. ASSUME Done(p), UNCHANGED <<row, peak>> PROVE PeakInv'
  BY <1>1, PeakQuiet DEF Done, Go, Holding
<1>2. ASSUME NEW k \in Keys, NEW n \in Costs, PrepareBurn(p, k, n) PROVE PeakInv'
  <2> DEFINE l == [op |-> "prepare", key |-> k, cost |-> n, over |-> overrides]
  <2>1. Start(p, "prepare", l) /\ UNCHANGED <<row, peak>>
    BY <1>2 DEF PrepareBurn, Go, tables
  <2> HIDE DEF l
  <2> QED BY <2>1, PeakQuiet DEF Holding
<1>3. ASSUME PrepareGrace(p) PROVE PeakInv'
  <2> DEFINE l == [op |-> "burn", key |-> loc[p].key, cost |-> loc[p].cost,
                   over |-> loc[p].over, inGrace |-> live # 0]
  <2>1. Start(p, "burn", l) /\ UNCHANGED <<row, peak>>
    BY <1>3 DEF PrepareGrace, Go, tables
  <2> HIDE DEF l
  <2> QED BY <2>1, PeakQuiet DEF Holding
<1>4. ASSUME CommitBurn(p) PROVE PeakInv'
  <2> DEFINE n == loc[p].cost
             r == BurnRow(p)
  <2>1. n \in Nat /\ row \in Row /\ loc[p].over \in UserOverrides
    BY <1>4, Carried, QuotaAssumption DEF CommitBurn, TypeOK
  <2>2. r \in Row /\ r.used = row.used
    BY <2>1, Overridden DEF BurnRow
  <2>3. CASE ~r.enforce
    BY <1>1, <1>4, <2>3 DEF CommitBurn, KeepRow
  <2>4. CASE r.enforce
    <3>1. /\ StrictBurnAllowed(r, n, loc[p].inGrace, Grace)
          /\ SetRow(ApplyBurn(r, n)) /\ Done(p)
      BY <1>4, <2>4 DEF CommitBurn, BurnAccepted
    <3> DEFINE b == ApplyBurn(r, n)
    <3> HIDE DEF n, r
    <3>2. b \in Row
      BY <2>1, <2>2, BurnType
    <3>3. b.used = row.used \/ b.used <= b.allow + Grace
      BY <2>1, <2>2, <3>1, StrictBurnUsed
    <3> HIDE DEF b
    <3>4. Fits(b) \/ b.used <= b.allow + Grace
      BY <3>3 DEF PeakInv, Fits
    <3> QED BY <3>1, <3>2, <3>4, PeakSet DEF b, Done, Go, Holding
  <2> QED BY <2>3, <2>4
<1>5. ASSUME BurnRollback(p) \/ BurnRefused(p) PROVE PeakInv'
  BY <1>1, <1>5 DEF BurnRollback, BurnRefused, tables
<1> QED BY <1>2, <1>3, <1>4, <1>5 DEF Charging

LEMMA PeakComputing ==
    ASSUME TypeOK, PeakInv, NEW p \in Workers, Computing(p)
    PROVE  PeakInv'
<1>1. ASSUME Done(p), UNCHANGED <<row, peak>> PROVE PeakInv'
  BY <1>1, PeakQuiet DEF Done, Go, Holding
<1>2. ASSUME NEW r, Fits(r), ToWrite(p, r), UNCHANGED <<row, peak>> PROVE PeakInv'
  <2> DEFINE l == [op |-> "write", row |-> r]
  <2>1. Start(p, "write", l) /\ l.row = r
    BY <1>2 DEF ToWrite, Go
  <2> HIDE DEF l
  <2> QED BY <1>2, <2>1, PeakQuiet
<1>3. ASSUME pc[p] = "fetched"
      PROVE  /\ Effective(p) \in Row
             /\ \A r : r.used \in {0, Effective(p).used} => Fits(r)
  <2>1. /\ Effective(p) \in Row /\ Effective(p).used = loc[p].row.used
        /\ Fits(loc[p].row)
    BY <1>3, EffectiveType DEF PeakInv, Holding
  <2>2. peak \in Nat /\ Grace \in Nat
    BY QuotaAssumption DEF TypeOK
  <2> QED BY <2>1, <2>2 DEF Fits
<1>4. ASSUME PreflightRead(p) PROVE PeakInv'
  <2> DEFINE l == [op |-> "preflight", over |-> GraceUse(Effective(p), loc[p].task.cost)]
  <2>1. Start(p, "preflight", l) \/ Done(p)
    BY <1>4 DEF PreflightRead, Go
  <2>2. UNCHANGED <<row, peak>>
    BY <1>4 DEF PreflightRead, tables
  <2> HIDE DEF l
  <2> QED BY <1>1, <2>1, <2>2, PeakQuiet DEF Holding
<1>5. ASSUME PreflightCheck(p) PROVE PeakInv'
  <2> DEFINE l == [op |-> "reserve", over |-> loc[p].over, sess |-> live]
  <2>1. Start(p, "reserve", l) \/ Done(p)
    BY <1>5 DEF PreflightCheck, Go
  <2>2. UNCHANGED <<row, peak>>
    BY <1>5 DEF PreflightCheck, tables
  <2> HIDE DEF l
  <2> QED BY <1>1, <2>1, <2>2, PeakQuiet DEF Holding
<1>6. ASSUME PreflightReserve(p) \/ BeginSubscriberSession(p) PROVE PeakInv'
  BY <1>1, <1>6 DEF PreflightReserve, BeginSubscriberSession, tables
<1>7. ASSUME EndSubscriberSession(p) PROVE PeakInv'
  <2> DEFINE l == [op |-> "settle", sess |-> live]
  <2>1. Start(p, "settle", l) /\ UNCHANGED <<row, peak>>
    BY <1>7 DEF EndSubscriberSession, Begin, tables
  <2> HIDE DEF l
  <2> QED BY <2>1, PeakQuiet DEF Holding
<1>8. ASSUME SettleRead(p) PROVE PeakInv'
  <2> DEFINE r == [row EXCEPT !.debt = @ + Least(Overage(row), usedCredits[loc[p].sess])]
  <2>1. r.used = row.used
    BY DEF TypeOK, Row
  <2>2. (ToWrite(p, r) \/ Done(p)) /\ UNCHANGED <<row, peak>>
    BY <1>8 DEF SettleRead, tables
  <2> HIDE DEF r
  <2>3. Fits(r)
    BY <2>1 DEF PeakInv, Fits
  <2> QED BY <1>1, <1>2, <2>2, <2>3
<1>9. ASSUME ApplyStripeSubscription(p) PROVE PeakInv'
  <2> DEFINE r == AppliedUpdate(Effective(p), loc[p].task.in)
  <2>1. loc[p].task.in \in Update
    BY <1>9, Asked, UpdatesAssumption DEF ApplyStripeSubscription
  <2>2. Fits(r)
    BY <1>3, <1>9, <2>1, UpdateUsed DEF ApplyStripeSubscription, Fetched
  <2>3. (ToWrite(p, r) \/ Done(p)) /\ UNCHANGED <<row, peak>>
    BY <1>9 DEF ApplyStripeSubscription, tables
  <2> HIDE DEF r
  <2> QED BY <1>1, <1>2, <2>2, <2>3
<1>10. ASSUME SetStripeCustomer(p) PROVE PeakInv'
  BY <1>2, <1>3, <1>10 DEF SetStripeCustomer, Fetched, tables
<1>11. ASSUME RepairReconcileAllowance(p) PROVE PeakInv'
  <2> DEFINE r == RepairedAllowance(Effective(p), loc[p].task.plan)
  <2>1. loc[p].task.plan \in Paid
    BY <1>11, Asked DEF RepairReconcileAllowance
  <2>2. Fits(r)
    BY <1>3, <1>11, <2>1, RepairType DEF RepairReconcileAllowance, Fetched
  <2>3. (ToWrite(p, r) \/ Done(p)) /\ UNCHANGED <<row, peak>>
    BY <1>11 DEF RepairReconcileAllowance, tables
  <2> HIDE DEF r
  <2> QED BY <1>1, <1>2, <2>2, <2>3
<1> QED
  BY <1>4, <1>5, <1>6, <1>7, <1>8, <1>9, <1>10, <1>11 DEF Computing

LEMMA PeakAdministering ==
    ASSUME TypeOK, PeakInv, NEW p \in Workers, Administering(p)
    PROVE  PeakInv'
<1>1. ASSUME Done(p), UNCHANGED <<row, peak>> PROVE PeakInv'
  BY <1>1, PeakQuiet DEF Done, Go, Holding
<1>2. ASSUME NEW o, Start(p, "save", [op |-> "save", over |-> o]), UNCHANGED <<row, peak>>
      PROVE  PeakInv'
  <2> DEFINE l == [op |-> "save", over |-> o]
  <2>1. Start(p, "save", l)
    BY <1>2
  <2> HIDE DEF l
  <2> QED BY <1>2, <2>1, PeakQuiet DEF Holding
<1>3. ASSUME NEW o \in AdminOverrides, SaveUserOverrides(p, o) PROVE PeakInv'
  <2> DEFINE l == [op |-> "reconcile", over |-> o, old |-> overrides.trial]
  <2>1. /\ Start(p, "reconcile", l) \/ Start(p, "save", [op |-> "save", over |-> o])
        /\ UNCHANGED <<row, peak>>
    BY <1>3 DEF SaveUserOverrides, Begin, tables
  <2> HIDE DEF l
  <2> QED BY <1>2, <2>1, PeakQuiet DEF Holding
<1>4. ASSUME ReconcileRead(p) PROVE PeakInv'
  <2> DEFINE r == [row EXCEPT !.trial = ReconcileTrial(@, loc[p].old, loc[p].over.trial)]
             l == [op |-> "reconciled", over |-> loc[p].over, row |-> r]
  <2>1. r.used = row.used
    BY DEF TypeOK, Row
  <2>2. /\ Start(p, "reconciled", l) \/ Start(p, "save", [op |-> "save", over |-> loc[p].over])
        /\ UNCHANGED <<row, peak>>
    BY <1>4 DEF ReconcileRead, Go, tables
  <2>3. l.row = r
    OBVIOUS
  <2> HIDE DEF l, r
  <2>4. Fits(l.row)
    BY <2>1, <2>3 DEF PeakInv, Fits
  <2> QED BY <1>2, <2>2, <2>4, PeakQuiet
<1>5. ASSUME ReconcileWrite(p) PROVE PeakInv'
  <2> DEFINE l == [op |-> "save", over |-> loc[p].over]
  <2>1. loc[p].row \in Row /\ Fits(loc[p].row)
    BY <1>5, Carried DEF ReconcileWrite, PeakInv, Holding
  <2>2. Start(p, "save", l) /\ SetRow(loc[p].row)
    BY <1>5 DEF ReconcileWrite, Go
  <2> HIDE DEF l
  <2> QED BY <2>1, <2>2, PeakSet DEF Holding
<1>6. ASSUME SaveOverrides(p) PROVE PeakInv'
  <2> DEFINE l == [op |-> "enforce", enabled |-> Given(loc[p].over.enforce, TRUE)]
  <2>1. (Start(p, "enforce", l) \/ Done(p)) /\ UNCHANGED <<row, peak>>
    BY <1>6 DEF SaveOverrides, Go, KeepRow
  <2> HIDE DEF l
  <2> QED BY <1>1, <2>1, PeakQuiet DEF Holding
<1>7. ASSUME EnforcementRead(p) PROVE PeakInv'
  <2> DEFINE l == [op |-> "fetched", row |-> row,
                   task |-> [kind |-> "enforcement", enabled |-> loc[p].enabled]]
  <2>1. Start(p, "fetched", l) /\ UNCHANGED <<row, peak>> /\ l.row = row
    BY <1>7 DEF EnforcementRead, Go, tables
  <2> HIDE DEF l
  <2> QED BY <2>1, PeakQuiet DEF PeakInv
<1>8. ASSUME SetEnforcement(p) PROVE PeakInv'
  <2> DEFINE r == [Effective(p) EXCEPT !.enforce = loc[p].task.enabled]
             l == [op |-> "write", row |-> r]
  <2>1. Effective(p) \in Row /\ Effective(p).used = loc[p].row.used /\ Fits(loc[p].row)
    BY <1>8, EffectiveType DEF SetEnforcement, Fetched, PeakInv, Holding
  <2>2. r.used = loc[p].row.used /\ l.row = r
    BY <2>1 DEF Row
  <2>3. Start(p, "write", l) /\ UNCHANGED <<row, peak>>
    BY <1>8 DEF SetEnforcement, ToWrite, Go, tables
  <2> HIDE DEF l, r
  <2>4. Fits(l.row)
    BY <2>1, <2>2 DEF Fits
  <2> QED BY <2>3, <2>4, PeakQuiet
<1> QED BY <1>3, <1>4, <1>5, <1>6, <1>7, <1>8 DEF Administering

LEMMA PeakStep == TypeOK /\ PeakInv /\ [Next]_vars => PeakInv'
<1> SUFFICES ASSUME TypeOK, PeakInv, [Next]_vars PROVE PeakInv'
  OBVIOUS
<1>1. ASSUME NEW p \in Workers, NEW request \in Requests, GetRow(p, request) PROVE PeakInv'
  <2> DEFINE l == [op |-> "fetched", task |-> request, row |-> row]
  <2>1. Start(p, "fetched", l) /\ UNCHANGED <<row, peak>> /\ l.row = row
    BY <1>1 DEF GetRow, Begin, tables
  <2> HIDE DEF l
  <2> QED BY <2>1, PeakQuiet DEF PeakInv
<1>2. ASSUME NEW p \in Workers, WriteRow(p) PROVE PeakInv'
  <2>1. loc[p].row \in Row /\ Fits(loc[p].row)
    BY <1>2, Carried DEF WriteRow, PeakInv, Holding
  <2> QED BY <1>2, <2>1, PeakSet DEF WriteRow, Done, Go, Holding
<1>3. ASSUME NEW g \in TopUps, GrantTopUpOnce(g) PROVE PeakInv'
  <2> DEFINE r == [row EXCEPT !.topup = @ + PackCredits]
  <2>1. /\ r.used = row.used /\ r.allow = row.allow
        /\ row.allow \in Nat /\ peak \in Nat
    BY DEF TypeOK, Row
  <2>2. SetRow(r) /\ UNCHANGED <<pc, loc>>
    BY <1>3 DEF GrantTopUpOnce
  <2> HIDE DEF r
  <2>3. /\ row' = r /\ peak' \in Nat /\ peak' >= peak
    BY <2>1, <2>2 DEF SetRow
  <2>4. ASSUME NEW s, Fits(s) PROVE Fits(s)'
    BY <2>1, <2>3, <2>4, QuotaAssumption DEF Fits
  <2>5. Fits(row)'
    BY <2>1, <2>3, QuotaAssumption DEF PeakInv, Fits
  <2>6. \A q \in Workers : pc[q] \in Holding => Fits(loc[q].row)
    BY DEF PeakInv
  <2> QED BY <2>1, <2>2, <2>3, <2>5, <2>6, QuotaAssumption DEF PeakInv, Fits
<1>4. CASE UNCHANGED vars
  BY <1>4 DEF vars, tables, PeakInv, Fits
<1> QED
  BY <1>1, <1>2, <1>3, <1>4, PeakCharging, PeakComputing, PeakAdministering DEF Next

\* Whatever an administrator overrides and Stripe updates, a month is never
\* charged past the grace credits over the highest allowance it ever had, for
\* any number of workers, charges, sessions and stale rows written back
\* (CommitTransactionalBurn).
THEOREM OverageStaysWithinPeak == Spec => []WithinPeak
<1>1. TypeOK /\ PeakInv /\ [Next]_vars => PeakInv'
  BY PeakStep
<1>2. PeakInv => WithinPeak
  BY DEF PeakInv, Fits, WithinPeak
<1>3. Spec => []TypeOK
  BY QuotaTypeCorrect
<1> QED BY PeakInit, <1>1, <1>2, <1>3, PTL DEF Spec

-----------------------------------------------------------------------------
(***************************************************************************)
(* The rows the service writes while no allowance is overridden.           *)
(* Repairing an allowance does not look at the plan, so only without it is *)
(* an expired row known to have none.                                      *)
(***************************************************************************)
WithinGrace(r) == r.used <= r.allow + Grace

NeverExpires ==
    /\ \A in \in Updates : ~in.terminate
    /\ \A r \in InitRows : r.plan # "expired"

\* Repairs do not meet updates that end or revive a plan.
RepairSafe == {"update", "repair"} \subseteq RowWriters => NeverExpires

Granted(r) ==
    /\ r.allow <= Grant["pro"]
    /\ "repair" \notin RowWriters => (r.plan = "expired" => r.allow = 0)
    /\ NeverExpires => r.plan # "expired"

SoundRow(r) == r \in Row /\ WithinGrace(r) /\ Granted(r)

\* A burn keeps a row sound (CommitTransactionalBurn).
LEMMA BurnSound ==
    ASSUME NEW r, SoundRow(r), NEW n \in Nat, NEW inGrace,
           StrictBurnAllowed(r, n, inGrace, Grace)
    PROVE  SoundRow(ApplyBurn(r, n))
<1> DEFINE b == ApplyBurn(r, n)
<1>1. r \in Row /\ WithinGrace(r) /\ Granted(r)
  BY DEF SoundRow
<1>2. b \in Row
  BY <1>1, BurnType
<1>3. b.allow = r.allow /\ b.plan = r.plan /\ (b.used = r.used \/ b.used <= r.allow + Grace)
  BY <1>1, StrictBurnUsed
<1> HIDE DEF b
<1>4. SoundRow(b)
  BY <1>1, <1>2, <1>3 DEF SoundRow, Granted, WithinGrace
<1> QED BY <1>4 DEF b

\* Enforcement, debt, trial and top-ups do not count.
LEMMA OtherFieldsSound ==
    ASSUME NEW r, SoundRow(r), NEW s \in Row,
           s.used = r.used, s.allow = r.allow, s.plan = r.plan
    PROVE  SoundRow(s)
BY DEF SoundRow, WithinGrace, Granted

\* A subscription update keeps a row sound (ApplyStripeSubscription,
\* terminateSubscription).
LEMMA UpdateSound ==
    ASSUME NEW r, SoundRow(r), NEW in \in Updates,
           RepairSafe, "update" \in RowWriters
    PROVE  SoundRow(AppliedUpdate(r, in))
<1>0. /\ Grace \in Nat /\ in \in Update
      /\ in.terminate \/ SubscriptionActive(in.status)
      /\ Grant["starter"] <= Grant["pro"]
  BY QuotaAssumption, UpdatesAssumption
<1>1. /\ in.plan \in Paid /\ in.status \in Statuses /\ in.cancel \in BOOLEAN
      /\ in.start \in Nat /\ in.created \in Nat
  BY <1>0 DEF Update
<1>2. Grant["starter"] \in Nat /\ Grant["pro"] \in Nat
  BY GrantAssumption DEF Paid
<1>3. Grant[in.plan] \in Nat /\ Grant[in.plan] <= Grant["pro"]
  BY <1>0, <1>1, <1>2 DEF Paid
<1>4. "expired" \in Plans /\ "canceled" \in Statuses /\ in.plan \in Plans
  BY <1>1 DEF Plans, Statuses
<1>5. /\ r \in Row /\ WithinGrace(r) /\ r.allow <= Grant["pro"]
      /\ r.plan = "expired" => r.allow = 0
      /\ NeverExpires => r.plan # "expired"
  BY DEF SoundRow, Granted, RepairSafe
<1>6. /\ r.allow \in Nat /\ r.used \in Nat /\ r.debt \in Nat /\ r.start \in Nat
      /\ r.ev \in Nat /\ r.plan \in Plans
  BY <1>5 DEF Row
<1>7. Stamp(r, in) \in Nat
  BY <1>1, <1>6 DEF Stamp
<1>8. in.plan # "expired"
  BY <1>1 DEF Paid
<1>9. CASE in.terminate
  <2> DEFINE t == TerminateSubscription(r, in)
  <2>1. t \in Row
    BY <1>4, <1>5, <1>7 DEF TerminateSubscription, Row
  <2>2. t.used = 0 /\ t.allow = 0
    BY <1>5 DEF TerminateSubscription, Row
  <2>3. ~NeverExpires
    BY <1>9 DEF NeverExpires
  <2>4. SoundRow(t)
    BY <1>0, <1>2, <2>1, <2>2, <2>3 DEF SoundRow, WithinGrace, Granted
  <2> QED BY <1>9, <2>4 DEF AppliedUpdate
<1>10. CASE ~in.terminate /\ in.metadataOnly
  <2> DEFINE m == [r EXCEPT !.status = in.status, !.cancel = in.cancel, !.sub = TRUE]
  <2>1. m \in Row /\ m.used = r.used /\ m.allow = r.allow /\ m.plan = r.plan
    BY <1>1, <1>5 DEF Row
  <2>2. SoundRow(m)
    BY <1>5, <2>1 DEF SoundRow, WithinGrace, Granted
  <2> QED BY <1>10, <2>2 DEF AppliedUpdate
<1>11. CASE ~in.terminate /\ ~in.metadataOnly
  <2> DEFINE s == Subscribed(r, in)
  <2>0. SubscriptionActive(in.status)
    BY <1>0, <1>11
  <2>1. /\ s \in Row /\ s.used = r.used /\ s.allow = r.allow
        /\ s.plan = in.plan /\ s.start = r.start /\ s.debt = r.debt
    BY <1>1, <1>4, <1>5, <1>7 DEF Subscribed, Row
  <2> HIDE DEF s
  <2>2. CASE DeferRollover(r, in)
    <3>1. AppliedUpdate(r, in) = s
      BY <1>11, <2>0, <2>2 DEF AppliedUpdate, s
    <3>2. SoundRow(s)
      BY <1>5, <1>8, <2>1 DEF SoundRow, WithinGrace, Granted
    <3> QED BY <3>1, <3>2
  <2>3. CASE ~DeferRollover(r, in) /\ NewPeriod(r, in)
    <3> DEFINE o == [s EXCEPT !.debt = @ + Overage(r), !.used = 0, !.topup = 0,
                              !.allow = Grant[in.plan], !.start = in.start]
    <3>1. AppliedUpdate(r, in) = o
      BY <1>11, <2>0, <2>3 DEF AppliedUpdate, RollOver, s
    <3>2. s.debt + Overage(r) \in Nat
      BY <1>6, <2>1 DEF Overage, AtLeast0
    <3>3. o \in Row /\ o.used = 0 /\ o.allow = Grant[in.plan] /\ o.plan = in.plan
      BY <1>1, <1>3, <2>1, <3>2 DEF Row
    <3>4. SoundRow(o)
      BY <1>0, <1>3, <1>8, <3>3 DEF SoundRow, WithinGrace, Granted
    <3> QED BY <3>1, <3>4
  <2>4. CASE ~DeferRollover(r, in) /\ ~NewPeriod(r, in)
    <3> DEFINE a == IF PlanGrantsNow(r, in) THEN Grant[in.plan] ELSE r.allow
               b == IF in.start > 0 THEN in.start ELSE s.start
               o == [s EXCEPT !.allow = a, !.start = b]
    <3>1. AppliedUpdate(r, in) = o
      BY <1>11, <2>0, <2>1, <2>4 DEF AppliedUpdate, s
    <3>2. a \in Nat /\ a <= Grant["pro"] /\ b \in Nat
      BY <1>1, <1>3, <1>5, <1>6, <2>1
    <3>3. r.used <= a + Grace
      <4>1. CASE ~PlanGrantsNow(r, in)
        BY <1>5, <4>1 DEF WithinGrace
      <4>2. CASE PlanGrantsNow(r, in) /\ r.plan = "expired"
        BY <1>0, <1>3, <1>5, <1>6, <4>2 DEF WithinGrace
      <4>3. CASE PlanGrantsNow(r, in) /\ r.plan # "expired"
        <5>1. in.plan = "pro"
          BY <1>1, <1>6, <4>3 DEF PlanGrantsNow, IsPlanDowngrade, Plans, Paid
        <5> QED BY <1>0, <1>2, <1>5, <1>6, <4>3, <5>1 DEF WithinGrace
      <4> QED BY <4>1, <4>2, <4>3
    <3> HIDE DEF a, b
    <3>4. o \in Row /\ o.used = r.used /\ o.allow = a /\ o.plan = in.plan
      BY <2>1, <3>2 DEF Row
    <3>5. SoundRow(o)
      BY <1>8, <3>2, <3>3, <3>4 DEF SoundRow, WithinGrace, Granted
    <3> QED BY <3>1, <3>5
  <2> QED BY <2>2, <2>3, <2>4
<1> QED BY <1>9, <1>10, <1>11

\* Repairing an allowance keeps a row sound (RepairReconcileAllowance).
LEMMA RepairSound ==
    ASSUME NEW r, SoundRow(r), NEW plan \in Paid, "repair" \in RowWriters
    PROVE  SoundRow(RepairedAllowance(r, plan))
<1>1. Grant[plan] \in Nat /\ Grant[plan] <= Grant["pro"]
  BY GrantAssumption, QuotaAssumption DEF Paid
<1>2. CASE r.allow >= Grant[plan]
  BY <1>2 DEF RepairedAllowance
<1>3. CASE ~(r.allow >= Grant[plan])
  <2> DEFINE o == [r EXCEPT !.allow = Grant[plan]]
  <2>1. o \in Row /\ o.used = r.used /\ o.allow = Grant[plan] /\ o.plan = r.plan
    BY <1>1 DEF SoundRow, Row
  <2>2. r.allow \in Nat /\ r.used \in Nat /\ Grace \in Nat
    BY QuotaAssumption DEF SoundRow, Row
  <2>3. SoundRow(o)
    BY <1>1, <1>3, <2>1, <2>2 DEF SoundRow, WithinGrace, Granted
  <2> QED BY <1>3, <2>3 DEF RepairedAllowance
<1> QED BY <1>2, <1>3

Preparing == {"prepare", "burn"}

Plain ==
    /\ SoundRow(row) /\ overrides.allow = {}
    /\ \A p \in Workers : /\ pc[p] \in Holding => SoundRow(loc[p].row)
                          /\ pc[p] \in Preparing => loc[p].over.allow = {}

PlainInv == ~overridden => Plain

LEMMA PlainStart ==
    ASSUME TypeOK, Plain, NEW p \in Workers, NEW at, NEW l, Start(p, at, l),
           SoundRow(row'), overrides'.allow = {},
           at \in Holding => SoundRow(l.row),
           at \in Preparing => l.over.allow = {}
    PROVE  Plain'
<1>1. \A q \in Workers : /\ pc'[q] = IF q = p THEN at ELSE pc[q]
                         /\ loc'[q] = IF q = p THEN l ELSE loc[q]
  BY DEF Start, TypeOK
<1>2. \A r : SoundRow(r)' <=> SoundRow(r)
  BY DEF SoundRow, WithinGrace, Granted
<1> HIDE DEF SoundRow
<1>3. \A q \in Workers : /\ pc'[q] \in Holding => SoundRow(loc'[q].row)
                         /\ pc'[q] \in Preparing => loc'[q].over.allow = {}
  BY <1>1 DEF Plain
<1> QED BY <1>3 DEF Plain

\* A step that leaves the row and the overrides alone.
LEMMA PlainQuiet ==
    ASSUME TypeOK, Plain, NEW p \in Workers, NEW at, NEW l, Start(p, at, l),
           UNCHANGED <<row, overrides>>,
           at \in Holding => SoundRow(l.row),
           at \in Preparing => l.over.allow = {}
    PROVE  Plain'
<1>1. SoundRow(row') /\ overrides'.allow = {}
  BY DEF Plain
<1> QED BY <1>1, PlainStart

LEMMA PlainDone ==
    ASSUME TypeOK, Plain, NEW p \in Workers, Done(p), UNCHANGED <<row, overrides>>
    PROVE  Plain'
BY PlainQuiet DEF Done, Go, Holding, Preparing

LEMMA PlainToWrite ==
    ASSUME TypeOK, Plain, NEW p \in Workers, NEW r, SoundRow(r), ToWrite(p, r),
           UNCHANGED <<row, overrides>>
    PROVE  Plain'
<1> DEFINE l == [op |-> "write", row |-> r]
<1>1. Start(p, "write", l) /\ l.row = r
  BY DEF ToWrite, Go
<1> HIDE DEF l
<1> QED BY <1>1, PlainQuiet DEF Preparing

\* The row a worker goes on with is sound while no allowance is overridden.
LEMMA EffectiveSound ==
    ASSUME TypeOK, Plain, NEW p \in Workers, pc[p] = "fetched"
    PROVE  SoundRow(Effective(p)) /\ Effective(p) \in Row
<1>1. /\ SoundRow(loc[p].row) /\ Effective(p) \in Row
      /\ Effective(p).used = loc[p].row.used /\ Effective(p).plan = loc[p].row.plan
      /\ Effective(p).allow = loc[p].row.allow
  BY EffectiveType DEF Plain, Holding
<1> QED BY <1>1, OtherFieldsSound

LEMMA PlainInit == Init => PlainInv
<1> SUFFICES ASSUME Init PROVE Plain
  BY DEF PlainInv
<1>1. /\ row \in Row /\ row.used <= row.allow /\ row.allow <= Grant["pro"]
      /\ row.plan = "expired" => row.allow = 0
  BY InitRowsAssumption DEF Init
<1>2. NeverExpires => row.plan # "expired"
  BY DEF Init, NeverExpires
<1>3. SoundRow(row)
  BY <1>1, <1>2, QuotaAssumption DEF SoundRow, WithinGrace, Granted, Row
<1> QED BY <1>3 DEF Init, Plain, NoOverrides, Holding, Preparing

LEMMA PlainCharging ==
    ASSUME TypeOK, Plain, NEW p \in Workers, Charging(p)
    PROVE  Plain'
<1> HIDE DEF SoundRow
<1>1. ASSUME NEW k \in Keys, NEW n \in Costs, PrepareBurn(p, k, n) PROVE Plain'
  <2> DEFINE l == [op |-> "prepare", key |-> k, cost |-> n, over |-> overrides]
  <2>1. Start(p, "prepare", l) /\ UNCHANGED <<row, overrides>> /\ l.over.allow = {}
    BY <1>1 DEF PrepareBurn, Go, tables, Plain
  <2> HIDE DEF l
  <2> QED BY <2>1, PlainQuiet DEF Holding
<1>2. ASSUME PrepareGrace(p) PROVE Plain'
  <2> DEFINE l == [op |-> "burn", key |-> loc[p].key, cost |-> loc[p].cost,
                   over |-> loc[p].over, inGrace |-> live # 0]
  <2>1. Start(p, "burn", l) /\ UNCHANGED <<row, overrides>> /\ l.over.allow = {}
    BY <1>2 DEF PrepareGrace, Go, tables, Plain, Preparing
  <2> HIDE DEF l
  <2> QED BY <2>1, PlainQuiet DEF Holding
<1>3. ASSUME CommitBurn(p) PROVE Plain'
  <2> DEFINE n == loc[p].cost
             r == BurnRow(p)
  <2>1. /\ n \in Nat /\ row \in Row /\ loc[p].over \in UserOverrides
        /\ loc[p].over.allow = {} /\ SoundRow(row)
    BY <1>3, Carried, QuotaAssumption DEF CommitBurn, TypeOK, Plain, Preparing
  <2>2. SoundRow(r)
    BY <2>1, Overridden, OtherFieldsSound DEF BurnRow
  <2>3. CASE ~r.enforce
    BY <1>3, <2>3, PlainDone DEF CommitBurn, KeepRow
  <2>4. CASE r.enforce
    <3>1. /\ StrictBurnAllowed(r, n, loc[p].inGrace, Grace)
          /\ row' = ApplyBurn(r, n) /\ Start(p, "idle", Nothing) /\ overrides' = overrides
      BY <1>3, <2>4 DEF CommitBurn, BurnAccepted, SetRow, Done, Go
    <3> HIDE DEF n, r
    <3>2. SoundRow(row')
      BY <2>1, <2>2, <3>1, BurnSound
    <3> QED BY <3>1, <3>2, PlainStart DEF Plain, Holding, Preparing
  <2> QED BY <2>3, <2>4
<1>4. ASSUME BurnRollback(p) \/ BurnRefused(p) PROVE Plain'
  BY <1>4, PlainDone DEF BurnRollback, BurnRefused, tables
<1> QED BY <1>1, <1>2, <1>3, <1>4 DEF Charging

LEMMA PlainComputing ==
    ASSUME TypeOK, Plain, RepairSafe, NEW p \in Workers, Computing(p),
           pc[p] = "fetched" /\ loc[p].task.kind \in {"update", "repair"}
             => loc[p].task.kind \in RowWriters
    PROVE  Plain'
<1> HIDE DEF SoundRow, RepairSafe
<1>1. ASSUME PreflightRead(p) PROVE Plain'
  <2> DEFINE l == [op |-> "preflight", over |-> GraceUse(Effective(p), loc[p].task.cost)]
  <2>1. Start(p, "preflight", l) \/ Done(p)
    BY <1>1 DEF PreflightRead, Go
  <2>2. UNCHANGED <<row, overrides>>
    BY <1>1 DEF PreflightRead, tables
  <2> HIDE DEF l
  <2> QED BY <2>1, <2>2, PlainDone, PlainQuiet DEF Holding, Preparing
<1>2. ASSUME PreflightCheck(p) PROVE Plain'
  <2> DEFINE l == [op |-> "reserve", over |-> loc[p].over, sess |-> live]
  <2>1. Start(p, "reserve", l) \/ Done(p)
    BY <1>2 DEF PreflightCheck, Go
  <2>2. UNCHANGED <<row, overrides>>
    BY <1>2 DEF PreflightCheck, tables
  <2> HIDE DEF l
  <2> QED BY <2>1, <2>2, PlainDone, PlainQuiet DEF Holding, Preparing
<1>3. ASSUME PreflightReserve(p) \/ BeginSubscriberSession(p) PROVE Plain'
  BY <1>3, PlainDone DEF PreflightReserve, BeginSubscriberSession, tables
<1>4. ASSUME EndSubscriberSession(p) PROVE Plain'
  <2> DEFINE l == [op |-> "settle", sess |-> live]
  <2>1. Start(p, "settle", l) /\ UNCHANGED <<row, overrides>>
    BY <1>4 DEF EndSubscriberSession, Begin, tables
  <2> HIDE DEF l
  <2> QED BY <2>1, PlainQuiet DEF Holding, Preparing
<1>5. ASSUME SettleRead(p) PROVE Plain'
  <2> DEFINE over == Least(Overage(row), usedCredits[loc[p].sess])
             r == [row EXCEPT !.debt = @ + over]
  <2>1. loc[p].sess \in Sessions
    BY <1>5, Carried DEF SettleRead
  <2>2. over \in Nat
    BY <2>1 DEF Least, Overage, AtLeast0, Row, TypeOK
  <2>3. r \in Row /\ r.used = row.used /\ r.allow = row.allow /\ r.plan = row.plan
    BY <2>2 DEF Row, TypeOK
  <2>4. (ToWrite(p, r) \/ Done(p)) /\ UNCHANGED <<row, overrides>>
    BY <1>5 DEF SettleRead, tables
  <2> HIDE DEF r
  <2>5. SoundRow(r)
    BY <2>3, OtherFieldsSound DEF Plain
  <2> QED BY <2>4, <2>5, PlainDone, PlainToWrite
<1>6. ASSUME ApplyStripeSubscription(p) PROVE Plain'
  <2> DEFINE r == AppliedUpdate(Effective(p), loc[p].task.in)
  <2>1. loc[p].task.in \in Updates /\ "update" \in RowWriters
    BY <1>6, Asked DEF ApplyStripeSubscription, Fetched
  <2>2. SoundRow(r)
    BY <1>6, <2>1, EffectiveSound, UpdateSound DEF ApplyStripeSubscription, Fetched
  <2>3. (ToWrite(p, r) \/ Done(p)) /\ UNCHANGED <<row, overrides>>
    BY <1>6 DEF ApplyStripeSubscription, tables
  <2> HIDE DEF r
  <2> QED BY <2>2, <2>3, PlainDone, PlainToWrite
<1>7. ASSUME SetStripeCustomer(p) PROVE Plain'
  BY <1>7, EffectiveSound, PlainToWrite DEF SetStripeCustomer, Fetched, tables
<1>8. ASSUME RepairReconcileAllowance(p) PROVE Plain'
  <2> DEFINE r == RepairedAllowance(Effective(p), loc[p].task.plan)
  <2>1. loc[p].task.plan \in Paid /\ "repair" \in RowWriters
    BY <1>8, Asked DEF RepairReconcileAllowance, Fetched
  <2>2. SoundRow(r)
    BY <1>8, <2>1, EffectiveSound, RepairSound DEF RepairReconcileAllowance, Fetched
  <2>3. (ToWrite(p, r) \/ Done(p)) /\ UNCHANGED <<row, overrides>>
    BY <1>8 DEF RepairReconcileAllowance, tables
  <2> HIDE DEF r
  <2> QED BY <2>2, <2>3, PlainDone, PlainToWrite
<1> QED BY <1>1, <1>2, <1>3, <1>4, <1>5, <1>6, <1>7, <1>8 DEF Computing

LEMMA PlainAdministering ==
    ASSUME TypeOK, Plain, NEW p \in Workers, Administering(p), ~overridden'
    PROVE  Plain'
<1> HIDE DEF SoundRow
<1>2. ASSUME NEW o, Start(p, "save", [op |-> "save", over |-> o]),
             SoundRow(row'), overrides' = overrides
      PROVE  Plain'
  <2> DEFINE l == [op |-> "save", over |-> o]
  <2>1. Start(p, "save", l)
    BY <1>2
  <2> HIDE DEF l
  <2> QED BY <1>2, <2>1, PlainStart DEF Holding, Preparing, Plain
<1>3. ASSUME NEW o \in AdminOverrides, SaveUserOverrides(p, o) PROVE Plain'
  <2> DEFINE l == [op |-> "reconcile", over |-> o, old |-> overrides.trial]
  <2>1. /\ Start(p, "reconcile", l) \/ Start(p, "save", [op |-> "save", over |-> o])
        /\ UNCHANGED <<row, overrides>> /\ SoundRow(row')
    BY <1>3 DEF SaveUserOverrides, Begin, tables, Plain
  <2> HIDE DEF l
  <2> QED BY <1>2, <2>1, PlainQuiet DEF Holding, Preparing
<1>4. ASSUME ReconcileRead(p) PROVE Plain'
  <2>1. loc[p].over \in UserOverrides /\ loc[p].old \in Nat /\ row \in Row
    BY <1>4, Carried DEF ReconcileRead, TypeOK
  <2> DEFINE t == ReconcileTrial(row.trial, loc[p].old, loc[p].over.trial)
             r == [row EXCEPT !.trial = t]
             l == [op |-> "reconciled", over |-> loc[p].over, row |-> r]
  <2>2. t \in Nat
    BY <2>1 DEF ReconcileTrial, AtLeast0, Row, UserOverrides
  <2>3. r \in Row /\ r.used = row.used /\ r.allow = row.allow /\ r.plan = row.plan
    BY <2>1, <2>2 DEF Row
  <2>4. /\ Start(p, "reconciled", l) \/ Start(p, "save", [op |-> "save", over |-> loc[p].over])
        /\ UNCHANGED <<row, overrides>> /\ SoundRow(row')
    BY <1>4 DEF ReconcileRead, Go, tables, Plain
  <2>5. l.row = r
    OBVIOUS
  <2> HIDE DEF l, r
  <2>6. SoundRow(l.row)
    BY <2>3, <2>5, OtherFieldsSound DEF Plain
  <2> QED BY <1>2, <2>4, <2>6, PlainQuiet DEF Preparing
<1>5. ASSUME ReconcileWrite(p) PROVE Plain'
  <2>1. /\ SoundRow(row') /\ overrides' = overrides
        /\ Start(p, "save", [op |-> "save", over |-> loc[p].over])
    BY <1>5 DEF ReconcileWrite, Go, SetRow, Plain, Holding
  <2> QED BY <1>2, <2>1
<1>6. ASSUME SaveOverrides(p) PROVE Plain'
  <2> DEFINE l == [op |-> "enforce", enabled |-> Given(loc[p].over.enforce, TRUE)]
  <2>1. /\ Start(p, "enforce", l) \/ Start(p, "idle", Nothing)
        /\ SoundRow(row') /\ overrides'.allow = {}
    BY <1>6 DEF SaveOverrides, Go, Done, KeepRow, Plain
  <2> HIDE DEF l
  <2> QED BY <2>1, PlainStart DEF Holding, Preparing
<1>7. ASSUME EnforcementRead(p) PROVE Plain'
  <2> DEFINE l == [op |-> "fetched", row |-> row,
                   task |-> [kind |-> "enforcement", enabled |-> loc[p].enabled]]
  <2>1. Start(p, "fetched", l) /\ UNCHANGED <<row, overrides>> /\ l.row = row
    BY <1>7 DEF EnforcementRead, Go, tables
  <2> HIDE DEF l
  <2> QED BY <2>1, PlainQuiet DEF Plain, Preparing
<1>8. ASSUME SetEnforcement(p) PROVE Plain'
  <2> DEFINE e == Effective(p)
             r == [e EXCEPT !.enforce = loc[p].task.enabled]
  <2>1. e \in Row /\ SoundRow(e) /\ loc[p].task.enabled \in BOOLEAN
    BY <1>8, Asked, EffectiveSound DEF SetEnforcement, Fetched
  <2>2. ToWrite(p, r) /\ UNCHANGED <<row, overrides>>
    BY <1>8 DEF SetEnforcement, tables
  <2> HIDE DEF e
  <2>3. r \in Row /\ r.used = e.used /\ r.allow = e.allow /\ r.plan = e.plan
    BY <2>1 DEF Row
  <2> HIDE DEF r
  <2>4. SoundRow(r)
    BY <2>1, <2>3, OtherFieldsSound
  <2> QED BY <2>2, <2>4, PlainToWrite
<1> QED BY <1>3, <1>4, <1>5, <1>6, <1>7, <1>8 DEF Administering

\* Only the operations that run are asked for.
AskedRuns ==
    \A p \in Workers : pc[p] = "fetched" /\ loc[p].task.kind \in {"update", "repair"}
                          => loc[p].task.kind \in RowWriters

LEMMA AskedRunsStep ==
    ASSUME TypeOK, AskedRuns, [Next]_vars
    PROVE  AskedRuns'
<1>1. ASSUME NEW p \in Workers, NEW at, NEW l, Start(p, at, l),
             at = "fetched" /\ l.task.kind \in {"update", "repair"}
               => l.task.kind \in RowWriters
      PROVE  AskedRuns'
  <2>1. \A q \in Workers : /\ pc'[q] = IF q = p THEN at ELSE pc[q]
                           /\ loc'[q] = IF q = p THEN l ELSE loc[q]
    BY <1>1 DEF Start, TypeOK
  <2> QED BY <1>1, <2>1 DEF AskedRuns
<1>2. ASSUME NEW p \in Workers, NEW at, NEW l, Start(p, at, l), at # "fetched"
      PROVE  AskedRuns'
  BY <1>1, <1>2
<1>3. ASSUME NEW p \in Workers, Done(p) PROVE AskedRuns'
  BY <1>2, <1>3 DEF Done, Go
<1>4. ASSUME NEW p \in Workers, Charging(p) PROVE AskedRuns'
  BY <1>2, <1>3, <1>4 DEF Charging, PrepareBurn, PrepareGrace, CommitBurn, BurnRollback,
                          BurnRefused, Go
<1>5. ASSUME NEW p \in Workers, Computing(p) PROVE AskedRuns'
  BY <1>2, <1>3, <1>5 DEF Computing, PreflightRead, PreflightCheck, PreflightReserve,
                          BeginSubscriberSession, EndSubscriberSession, SettleRead,
                          ApplyStripeSubscription, SetStripeCustomer,
                          RepairReconcileAllowance, ToWrite, Go, Begin
<1>6. ASSUME NEW p \in Workers, EnforcementRead(p) PROVE AskedRuns'
  <2> DEFINE l == [op |-> "fetched", row |-> row,
                   task |-> [kind |-> "enforcement", enabled |-> loc[p].enabled]]
  <2>1. Start(p, "fetched", l) /\ l.task.kind = "enforcement"
    BY <1>6 DEF EnforcementRead, Go
  <2> HIDE DEF l
  <2> QED BY <1>1, <2>1
<1>7. ASSUME NEW p \in Workers, Administering(p) PROVE AskedRuns'
  BY <1>2, <1>3, <1>6, <1>7 DEF Administering, SaveUserOverrides, ReconcileRead,
                                ReconcileWrite, SaveOverrides, SetEnforcement, ToWrite,
                                Go, Begin
<1>8. ASSUME NEW p \in Workers, NEW request \in Requests, GetRow(p, request) PROVE AskedRuns'
  <2> DEFINE l == [op |-> "fetched", task |-> request, row |-> row]
  <2>1. /\ Start(p, "fetched", l) /\ l.task = request
        /\ request.kind \in RowWriters \cup {"preflight", "session"}
    BY <1>8 DEF GetRow, Begin
  <2> HIDE DEF l
  <2> QED BY <1>1, <2>1
<1>9. ASSUME NEW p \in Workers, WriteRow(p) PROVE AskedRuns'
  BY <1>3, <1>9 DEF WriteRow
<1>10. CASE UNCHANGED <<pc, loc>>
  BY <1>10 DEF AskedRuns
<1>11. ASSUME NEW g \in TopUps, GrantTopUpOnce(g) PROVE AskedRuns'
  BY <1>10, <1>11 DEF GrantTopUpOnce
<1> QED BY <1>4, <1>5, <1>7, <1>8, <1>9, <1>10, <1>11 DEF Next, vars

LEMMA PlainStep ==
    ASSUME TypeOK, PlainInv, AskedRuns, [Next]_vars, RepairSafe
    PROVE  PlainInv'
<1> HIDE DEF SoundRow, RepairSafe
<1> SUFFICES ASSUME ~overridden' PROVE Plain'
  BY DEF PlainInv
<1>1. ASSUME NEW p \in Workers, Charging(p) PROVE overridden' = overridden
  BY <1>1 DEF Charging, PrepareBurn, PrepareGrace, CommitBurn, BurnRollback, BurnRefused,
              tables
<1>2. ASSUME NEW p \in Workers, Computing(p) PROVE overridden' = overridden
  BY <1>2 DEF Computing, PreflightRead, PreflightCheck, PreflightReserve,
              BeginSubscriberSession, EndSubscriberSession, SettleRead,
              ApplyStripeSubscription, SetStripeCustomer, RepairReconcileAllowance, tables
<1>3. ASSUME NEW p \in Workers, Administering(p) PROVE ~overridden
  BY <1>3 DEF Administering, SaveUserOverrides, ReconcileRead, ReconcileWrite,
              SaveOverrides, EnforcementRead, SetEnforcement, tables
<1>4. ASSUME NEW p \in Workers, NEW request \in Requests, GetRow(p, request) PROVE Plain'
  <2> DEFINE l == [op |-> "fetched", task |-> request, row |-> row]
  <2>1. /\ Start(p, "fetched", l) /\ UNCHANGED <<row, overrides>> /\ l.row = row
        /\ overridden' = overridden
    BY <1>4 DEF GetRow, Begin, tables
  <2> HIDE DEF l
  <2>2. Plain
    BY <2>1 DEF PlainInv
  <2> QED BY <2>1, <2>2, PlainQuiet DEF Plain, Preparing
<1>5. ASSUME NEW p \in Workers, WriteRow(p) PROVE Plain'
  <2>1. Plain
    BY <1>5 DEF WriteRow, PlainInv
  <2>2. SoundRow(row') /\ overrides' = overrides /\ Start(p, "idle", Nothing)
    BY <1>5, <2>1 DEF WriteRow, SetRow, Done, Go, Plain, Holding
  <2> QED BY <2>1, <2>2, PlainStart DEF Plain, Holding, Preparing
<1>6. ASSUME NEW g \in TopUps, GrantTopUpOnce(g) PROVE Plain'
  <2> DEFINE r == [row EXCEPT !.topup = @ + PackCredits]
  <2>1. row.topup + PackCredits \in Nat
    BY QuotaAssumption DEF TypeOK, Row
  <2>2. r \in Row /\ r.used = row.used /\ r.allow = row.allow /\ r.plan = row.plan
    BY <2>1 DEF Row, TypeOK
  <2>3. row' = r /\ UNCHANGED <<pc, loc, overrides, overridden>>
    BY <1>6 DEF GrantTopUpOnce, SetRow
  <2> HIDE DEF r
  <2>4. Plain
    BY <2>3 DEF PlainInv
  <2>5. SoundRow(row')
    BY <2>2, <2>3, <2>4, OtherFieldsSound DEF Plain
  <2>6. \A s : SoundRow(s)' <=> SoundRow(s)
    BY DEF SoundRow, WithinGrace, Granted
  <2> QED BY <2>3, <2>4, <2>5, <2>6 DEF Plain
<1>7. CASE UNCHANGED vars
  <2>1. \A s : SoundRow(s)' <=> SoundRow(s)
    BY DEF SoundRow, WithinGrace, Granted
  <2>2. Plain /\ UNCHANGED <<row, pc, loc, overrides>>
    BY <1>7 DEF vars, tables, PlainInv
  <2> QED BY <2>1, <2>2 DEF Plain
<1>8. ASSUME NEW p \in Workers, Charging(p) PROVE Plain'
  BY <1>1, <1>8, PlainCharging DEF PlainInv
<1>9. ASSUME NEW p \in Workers, Computing(p) PROVE Plain'
  BY <1>2, <1>9, PlainComputing DEF PlainInv, AskedRuns
<1>10. ASSUME NEW p \in Workers, Administering(p) PROVE Plain'
  BY <1>3, <1>10, PlainAdministering DEF PlainInv
<1> QED BY <1>4, <1>5, <1>6, <1>7, <1>8, <1>9, <1>10 DEF Next

\* No interleaving of charges, sessions, whole-row writes and overrides takes a
\* month past the grace credits over the highest allowance it ever had, nor,
\* while no allowance was overridden, over the allowance it has, for any number
\* of workers, charges and updates.  For the second part one combination is
\* left out: repairing an allowance while updates end plans
\* (RepairReconcileAllowance does not look at the plan).
THEOREM OverageStaysWithinGrace ==
    ASSUME RepairSafe
    PROVE  Spec => []OverageWithinGrace
<1>1. Init => AskedRuns
  BY DEF Init, AskedRuns
<1>2. TypeOK /\ AskedRuns /\ [Next]_vars => AskedRuns'
  BY AskedRunsStep
<1>3. TypeOK /\ AskedRuns /\ PlainInv /\ [Next]_vars => PlainInv'
  BY PlainStep
<1>4. PlainInv => WithinAllowance
  BY DEF PlainInv, Plain, SoundRow, WithinGrace, WithinAllowance
<1>5. WithinPeak /\ WithinAllowance <=> OverageWithinGrace
  BY DEF OverageWithinGrace
<1>6. Spec => []TypeOK
  BY QuotaTypeCorrect
<1>7. Spec => []WithinPeak
  BY OverageStaysWithinPeak
<1> QED BY PlainInit, <1>1, <1>2, <1>3, <1>4, <1>5, <1>6, <1>7, PTL DEF Spec

-----------------------------------------------------------------------------
(* Charges. *)

\* A charge that needs no grace takes its credits from what could be spent,
\* from the month or from the top-ups or from both (applyBurn, deductPaid).
LEMMA BurnCovered ==
    ASSUME NEW r \in Row, NEW n \in Nat \ {0}, GraceUse(r, n) = 0
    PROVE  TotalRemaining(r) - TotalRemaining(ApplyBurn(r, n)) = n
<1>1. /\ r.allow \in Nat /\ r.used \in Nat /\ r.debt \in Nat
      /\ r.topup \in Nat /\ r.trial \in Nat
  BY DEF Row
<1>2. n <= TotalRemaining(r)
  <2>1. n \in Nat /\ TotalRemaining(r) \in Nat
    BY BurnType
  <2>2. AtLeast0(n - TotalRemaining(r)) = 0
    BY DEF GraceUse
  <2> QED BY <2>1, <2>2 DEF AtLeast0
<1>3. CASE r.plan = "trial"
  <2>1. /\ n <= r.trial /\ ~TrialExpired(r) /\ TotalRemaining(r) = r.trial
    BY <1>1, <1>2, <1>3 DEF TotalRemaining
  <2> DEFINE b == [r EXCEPT !.trial = AtLeast0(@ - n)]
  <2>2. b.trial = r.trial - n /\ b.plan = r.plan /\ b.trialOver = r.trialOver
    BY <1>1, <2>1 DEF AtLeast0, Row
  <2>3. ApplyBurn(r, n) = b
    BY <1>3 DEF ApplyBurn
  <2> HIDE DEF b
  <2>4. TotalRemaining(b) = r.trial - n
    BY <1>1, <1>3, <2>1, <2>2 DEF TotalRemaining, TrialExpired
  <2> QED BY <1>1, <2>1, <2>3, <2>4
<1>4. CASE r.plan # "trial"
  <2> DEFINE left == AtLeast0(MonthlyRemaining(r))
             month == Least(n, left)
             bought == Least(n - month, r.topup)
             b == [r EXCEPT !.used = @ + (n - bought), !.topup = @ - bought]
  <2>1. /\ left \in Nat /\ left = AtLeast0(r.allow - r.used - r.debt)
        /\ TotalRemaining(r) = left + r.topup
    BY <1>1, <1>4 DEF AtLeast0, MonthlyRemaining, TotalRemaining
  <2>2. /\ b.used = r.used + (n - bought) /\ b.topup = r.topup - bought
        /\ b.plan = r.plan /\ b.allow = r.allow /\ b.debt = r.debt
    BY DEF Row
  <2>3. ApplyBurn(r, n) = b
    BY <1>4 DEF ApplyBurn, DeductPaid
  <2> HIDE DEF b, left
  <2>4. /\ month \in Nat /\ bought \in Nat /\ n - bought = month
        /\ month <= left /\ bought <= r.topup
    BY <1>1, <1>2, <2>1 DEF Least
  <2> HIDE DEF month, bought
  <2>5. AtLeast0(b.allow - b.used - b.debt) = left - month
    BY <1>1, <2>1, <2>2, <2>4 DEF AtLeast0
  <2>6. TotalRemaining(b) = left - month + (r.topup - bought)
    BY <1>4, <2>2, <2>5 DEF TotalRemaining, MonthlyRemaining
  <2>7. TotalRemaining(r) - TotalRemaining(b) = n
    BY <1>1, <2>1, <2>4, <2>6
  <2> QED BY <2>3, <2>7
<1> QED BY <1>3, <1>4

\* A paid plan books every charge in full, what grace covers included.
LEMMA PaidBurnExact ==
    ASSUME NEW r \in Row, NEW n \in Nat \ {0}, r.plan # "trial"
    PROVE  Spent(ApplyBurn(r, n)) = Spent(r) + n
<1>1. /\ r.allow \in Nat /\ r.used \in Nat /\ r.topup \in Nat /\ r.trial \in Nat
      /\ r.debt \in Nat
  BY DEF Row
<1> DEFINE bought == Least(n - Least(n, AtLeast0(MonthlyRemaining(r))), r.topup)
           b == [r EXCEPT !.used = @ + (n - bought), !.topup = @ - bought]
<1>2. bought \in Int
  BY <1>1 DEF Least, AtLeast0, MonthlyRemaining
<1>3. ApplyBurn(r, n) = b
  BY DEF ApplyBurn, DeductPaid
<1> HIDE DEF bought
<1>4. /\ b.used = r.used + (n - bought) /\ b.topup = r.topup - bought
      /\ b.trial = r.trial
  BY DEF Row
<1> HIDE DEF b
<1>5. Spent(b) = Spent(r) + n
  BY <1>1, <1>2, <1>4 DEF Spent
<1> QED BY <1>3, <1>5

\* The allowance of the row that is charged is the one the charge writes, and
\* apart from it the overrides change nothing that is spent.
LEMMA BurnKeepsAllowance ==
    ASSUME NEW r \in Row, NEW o \in UserOverrides, NEW n \in Nat
    PROVE  LET s == ApplyOverrides(r, o)
               before == [r EXCEPT !.allow = ApplyBurn(s, n).allow]
           IN  /\ s \in Row /\ s.plan = r.plan
               /\ TotalRemaining(before) = TotalRemaining(s)
               /\ Spent(s) = Spent(r)
<1>1. PICK a \in Nat, e \in BOOLEAN :
         /\ ApplyOverrides(r, o) = [r EXCEPT !.allow = a, !.enforce = e]
         /\ o.allow = {} => a = r.allow
  BY OverridesType
<1> DEFINE s == [r EXCEPT !.allow = a, !.enforce = e]
           b == [r EXCEPT !.allow = ApplyBurn(s, n).allow]
<1>2. /\ s.plan = r.plan /\ s.trial = r.trial /\ s.trialOver = r.trialOver
      /\ s.used = r.used /\ s.debt = r.debt /\ s.topup = r.topup /\ s.allow = a
  BY DEF Row
<1>3. s \in Row
  BY DEF Row
<1>4. ApplyBurn(s, n).allow = s.allow
  <2> HIDE DEF s
  <2> QED BY <1>3 DEF ApplyBurn, DeductPaid, Row
<1>5. /\ b.plan = r.plan /\ b.trial = r.trial /\ b.trialOver = r.trialOver
      /\ b.used = r.used /\ b.debt = r.debt /\ b.topup = r.topup /\ b.allow = a
  BY <1>2, <1>4 DEF Row
<1> HIDE DEF s, b
<1>6. TotalRemaining(b) = TotalRemaining(s)
  BY <1>2, <1>5 DEF TotalRemaining, TrialExpired, MonthlyRemaining
<1>7. Spent(s) = Spent(r)
  BY <1>2 DEF Spent
<1> QED BY <1>1, <1>2, <1>3, <1>6, <1>7 DEF s, b

\* Only a commit charges.
LEMMA OnlyCommitCharges ==
    ASSUME [Next]_vars, charged' # charged
    PROVE  \E p \in Workers : CommitBurn(p)
<1>1. ASSUME NEW p \in Workers, Charging(p), ~CommitBurn(p) PROVE FALSE
  BY <1>1 DEF Charging, PrepareBurn, PrepareGrace, BurnRollback, BurnRefused, tables
<1>2. ASSUME NEW p \in Workers, Computing(p) PROVE FALSE
  BY <1>2 DEF Computing, PreflightRead, PreflightCheck, PreflightReserve,
              BeginSubscriberSession, EndSubscriberSession, SettleRead,
              ApplyStripeSubscription, SetStripeCustomer, RepairReconcileAllowance, tables
<1>3. ASSUME NEW p \in Workers, Administering(p) PROVE FALSE
  BY <1>3 DEF Administering, SaveUserOverrides, ReconcileRead, ReconcileWrite,
              SaveOverrides, EnforcementRead, SetEnforcement, tables
<1>4. ASSUME NEW p \in Workers, NEW request \in Requests, GetRow(p, request) PROVE FALSE
  BY <1>4 DEF GetRow, tables
<1>5. ASSUME NEW p \in Workers, WriteRow(p) PROVE FALSE
  BY <1>5 DEF WriteRow
<1>6. ASSUME NEW g \in TopUps, GrantTopUpOnce(g) PROVE FALSE
  BY <1>6 DEF GrantTopUpOnce
<1>7. ~UNCHANGED vars
  BY DEF vars, tables
<1> HIDE DEF Requests
<1> QED BY <1>1, <1>2, <1>3, <1>4, <1>5, <1>6, <1>7, Zenon DEF Next

LEMMA ChargeStep ==
    ASSUME TypeOK, [Next]_vars, charged' # charged
    PROVE  LET before == [row EXCEPT !.allow = row'.allow]
           IN  /\ overdrawn' = overdrawn =>
                    TotalRemaining(before) - TotalRemaining(row') = charged' - charged
               /\ row.plan # "trial" => Spent(row') - Spent(row) = charged' - charged
<1>1. PICK p \in Workers : CommitBurn(p)
  BY OnlyCommitCharges
<1> DEFINE n == loc[p].cost
           o == loc[p].over
           s == ApplyOverrides(row, o)
           b == [row EXCEPT !.allow = ApplyBurn(s, n).allow]
<1>2. n \in Nat \ {0} /\ o \in UserOverrides /\ row \in Row
  BY <1>1, Carried, QuotaAssumption DEF CommitBurn, TypeOK
<1>3. row' = ApplyBurn(s, n) /\ charged' = charged + n /\ overdrawn' = overdrawn + GraceUse(s, n)
  BY <1>1 DEF CommitBurn, BurnRow, SetRow
<1>4. charged \in Nat /\ overdrawn \in Nat
  BY DEF TypeOK
<1> HIDE DEF n, o
<1>5. /\ s \in Row /\ s.plan = row.plan
      /\ TotalRemaining(b) = TotalRemaining(s) /\ Spent(s) = Spent(row)
  BY <1>2, BurnKeepsAllowance
<1> HIDE DEF s
<1>6. n \in Nat /\ GraceUse(s, n) \in Nat /\ TotalRemaining(s) \in Nat
  BY <1>2, <1>5, BurnType
<1>7. ASSUME overdrawn' = overdrawn PROVE TotalRemaining(s) - TotalRemaining(row') = n
  <2>1. GraceUse(s, n) = 0
    BY <1>3, <1>4, <1>6, <1>7
  <2> QED BY <1>2, <1>3, <1>5, <2>1, BurnCovered
<1>8. ASSUME row.plan # "trial" PROVE Spent(row') = Spent(row) + n
  BY <1>2, <1>3, <1>5, <1>8, PaidBurnExact
<1>9. Spent(row) \in Int
  BY <1>2 DEF Spent, Row
<1>10. [row EXCEPT !.allow = row'.allow] = b
  BY <1>3
<1> HIDE DEF b
<1>11. charged' - charged = n
  BY <1>3, <1>4, <1>6
<1> QED BY <1>5, <1>6, <1>7, <1>8, <1>9, <1>10, <1>11

\* A charge takes exactly its credits, off what the user could still spend or,
\* in grace, off the buckets of the paid plan, whatever overrides, whole-row
\* writers and other charges run beside it (CommitTransactionalBurn).
THEOREM ChargesAreExact == Spec => ChargeIsExact
<1>1. TypeOK /\ [Next]_vars =>
        [charged' # charged =>
           LET before == [row EXCEPT !.allow = row'.allow]
           IN  /\ overdrawn' = overdrawn =>
                    TotalRemaining(before) - TotalRemaining(row') = charged' - charged
               /\ row.plan # "trial" => Spent(row') - Spent(row) = charged' - charged]_vars
  BY ChargeStep
<1>2. Spec => []TypeOK
  BY QuotaTypeCorrect
<1> QED BY <1>1, <1>2, PTL DEF Spec, ChargeIsExact

-----------------------------------------------------------------------------
(* Grace comes from sessions: before the first session nobody can have seen *)
(* one, so every charge is one the balance of its moment covers.           *)

SessionInv ==
    begun = 0 => /\ live = 0 /\ overdrawn = 0
                 /\ \A p \in Workers : pc[p] = "burn" => loc[p].inGrace = FALSE

\* What a worker goes on with is no charge prepared under a session.
LEMMA SessionStart ==
    ASSUME TypeOK, SessionInv, NEW p \in Workers, NEW at, NEW l, Start(p, at, l),
           at = "burn" => (begun = 0 => l.inGrace = FALSE),
           begun' = 0 => begun = 0, begun = 0 => live' = 0 /\ overdrawn' = 0
    PROVE  SessionInv'
<1>1. \A q \in Workers : /\ pc'[q] = IF q = p THEN at ELSE pc[q]
                         /\ loc'[q] = IF q = p THEN l ELSE loc[q]
  BY DEF Start, TypeOK
<1> QED BY <1>1 DEF SessionInv

LEMMA SessionDone ==
    ASSUME TypeOK, SessionInv, NEW p \in Workers, Done(p),
           begun' = 0 => begun = 0, begun = 0 => live' = 0 /\ overdrawn' = 0
    PROVE  SessionInv'
BY SessionStart DEF Done, Go

\* A step that leaves sessions and tables alone and prepares nothing.
LEMMA SessionQuiet ==
    ASSUME TypeOK, SessionInv, NEW p \in Workers, NEW at, NEW l,
           Go(p, at, l) \/ Begin(p, at, l), at # "burn",
           UNCHANGED <<live, begun, overdrawn>>
    PROVE  SessionInv'
<1>1. Start(p, at, l)
  BY DEF Go, Begin
<1> QED BY <1>1, SessionStart DEF SessionInv

LEMMA SessionCharging ==
    ASSUME TypeOK, SessionInv, NEW p \in Workers, Charging(p)
    PROVE  SessionInv'
<1>1. ASSUME NEW k \in Keys, NEW n \in Costs, PrepareBurn(p, k, n) PROVE SessionInv'
  BY <1>1, SessionQuiet DEF PrepareBurn, tables, sessions
<1>2. CASE PrepareGrace(p)
  <2> DEFINE l == [op |-> "burn", key |-> loc[p].key, cost |-> loc[p].cost,
                   over |-> loc[p].over, inGrace |-> live # 0]
  <2>1. Start(p, "burn", l) /\ UNCHANGED <<live, begun, overdrawn>>
    BY <1>2 DEF PrepareGrace, Go, tables, sessions
  <2>2. begun = 0 => l.inGrace = FALSE
    BY DEF SessionInv
  <2> HIDE DEF l
  <2> QED BY <2>1, <2>2, SessionStart DEF SessionInv
<1>3. CASE CommitBurn(p)
  <2> DEFINE n == loc[p].cost
             r == BurnRow(p)
  <2>1. r \in Row /\ n \in Nat /\ loc[p].inGrace \in BOOLEAN
    BY <1>3, Carried, Overridden, QuotaAssumption DEF CommitBurn, BurnRow, TypeOK
  <2>2. /\ r.enforce => StrictBurnAllowed(r, n, loc[p].inGrace, Grace)
        /\ IF r.enforce THEN overdrawn' = overdrawn + GraceUse(r, n)
                        ELSE overdrawn' = overdrawn
        /\ UNCHANGED <<live, begun>> /\ Done(p) /\ pc[p] = "burn"
    BY <1>3 DEF CommitBurn, BurnAccepted
  <2> HIDE DEF n, r
  <2>3. begun = 0 => overdrawn' = 0
    <3>1. begun = 0 => loc[p].inGrace = FALSE /\ overdrawn = 0
      BY <2>2 DEF SessionInv
    <3>2. ASSUME begun = 0, r.enforce PROVE GraceUse(r, n) = 0
      BY <2>2, <3>1, <3>2 DEF StrictBurnAllowed
    <3> QED BY <2>2, <3>1, <3>2
  <2> QED BY <2>2, <2>3, SessionDone DEF SessionInv
<1>4. CASE BurnRollback(p)
  BY <1>4, SessionDone DEF BurnRollback, tables, SessionInv
<1>5. CASE BurnRefused(p)
  BY <1>5, SessionDone DEF BurnRefused, tables, sessions, SessionInv
<1> QED BY <1>1, <1>2, <1>3, <1>4, <1>5 DEF Charging

LEMMA SessionComputing ==
    ASSUME TypeOK, SessionInv, NEW p \in Workers, Computing(p)
    PROVE  SessionInv'
<1>1. CASE PreflightRead(p)
  <2>1. UNCHANGED <<live, begun, overdrawn>>
    BY <1>1 DEF PreflightRead, tables, sessions
  <2>2. (\E l : Go(p, "preflight", l)) \/ Done(p)
    BY <1>1 DEF PreflightRead
  <2> QED BY <2>1, <2>2, SessionQuiet, SessionDone DEF SessionInv
<1>2. CASE PreflightCheck(p)
  <2>1. UNCHANGED <<live, begun, overdrawn>>
    BY <1>2 DEF PreflightCheck, tables, sessions
  <2>2. (\E l : Go(p, "reserve", l)) \/ Done(p)
    BY <1>2 DEF PreflightCheck
  <2> QED BY <2>1, <2>2, SessionQuiet, SessionDone DEF SessionInv
<1>3. CASE PreflightReserve(p)
  BY <1>3, SessionDone DEF PreflightReserve, tables, SessionInv
<1>4. CASE BeginSubscriberSession(p)
  <2>1. begun \in Nat
    BY DEF TypeOK, Sessions
  <2>2. /\ Done(p) /\ overdrawn' = overdrawn
        /\ \/ begun' = begun + 1
           \/ UNCHANGED <<begun, live>>
    BY <1>4 DEF BeginSubscriberSession, tables
  <2>3. CASE begun' = begun + 1
    BY <2>1, <2>2, <2>3 DEF SessionInv, Done, Go, Start
  <2>4. CASE UNCHANGED <<begun, live>>
    BY <2>2, <2>4, SessionDone DEF SessionInv
  <2> QED BY <2>2, <2>3, <2>4
<1>5. CASE EndSubscriberSession(p)
  <2>1. /\ \E l : Start(p, "settle", l)
        /\ live' = 0 /\ UNCHANGED <<begun, overdrawn>>
    BY <1>5 DEF EndSubscriberSession, Begin, tables
  <2> QED BY <2>1, SessionStart DEF SessionInv
<1>6. ASSUME \/ SettleRead(p) \/ ApplyStripeSubscription(p)
             \/ SetStripeCustomer(p) \/ RepairReconcileAllowance(p)
      PROVE SessionInv'
  <2>1. UNCHANGED <<live, begun, overdrawn>>
    BY <1>6 DEF SettleRead, ApplyStripeSubscription, SetStripeCustomer,
                RepairReconcileAllowance, tables, sessions
  <2>2. (\E l : Go(p, "write", l)) \/ Done(p)
    BY <1>6 DEF SettleRead, ApplyStripeSubscription, SetStripeCustomer,
                RepairReconcileAllowance, ToWrite
  <2> QED BY <2>1, <2>2, SessionQuiet, SessionDone DEF SessionInv
<1> QED BY <1>1, <1>2, <1>3, <1>4, <1>5, <1>6 DEF Computing

LEMMA SessionAdministering ==
    ASSUME TypeOK, SessionInv, NEW p \in Workers, Administering(p)
    PROVE  SessionInv'
<1>1. UNCHANGED <<live, begun, overdrawn>>
  BY DEF Administering, SaveUserOverrides, ReconcileRead, ReconcileWrite,
         SaveOverrides, EnforcementRead, SetEnforcement, tables, sessions
<1>2. \E at, l : at # "burn" /\ (Go(p, at, l) \/ Begin(p, at, l))
  BY DEF Administering, SaveUserOverrides, ReconcileRead, ReconcileWrite,
         SaveOverrides, EnforcementRead, SetEnforcement, ToWrite, Done
<1> QED BY <1>1, <1>2, SessionQuiet

LEMMA SessionStep == TypeOK /\ SessionInv /\ [Next]_vars => SessionInv'
<1> SUFFICES ASSUME TypeOK, SessionInv, [Next]_vars PROVE SessionInv'
  OBVIOUS
<1>1. ASSUME NEW p \in Workers, NEW request \in Requests, GetRow(p, request) PROVE SessionInv'
  BY <1>1, SessionQuiet DEF GetRow, tables, sessions
<1>2. ASSUME NEW p \in Workers, WriteRow(p) PROVE SessionInv'
  BY <1>2, SessionDone DEF WriteRow, sessions, SessionInv
<1>3. ASSUME NEW g \in TopUps, GrantTopUpOnce(g) PROVE SessionInv'
  BY <1>3 DEF GrantTopUpOnce, sessions, SessionInv
<1>4. CASE UNCHANGED vars
  BY <1>4 DEF vars, tables, sessions, SessionInv
<1> HIDE DEF Requests, SessionInv
<1> QED BY <1>1, <1>2, <1>3, <1>4, SessionCharging, SessionComputing,
           SessionAdministering, Zenon DEF Next

\* A user is charged beyond the balance only after an automation session began,
\* also by a charge prepared before others committed or before an override
\* changed what it may spend, whatever whole-row writers run beside it
\* (CommitTransactionalBurn, StrictBalance).
THEOREM OverageComesFromSessions == Spec => []OverdrawnNeedsSession
<1>1. Init => SessionInv
  BY DEF Init, SessionInv
<1>2. SessionInv /\ TypeOK => OverdrawnNeedsSession
  <2> SUFFICES ASSUME SessionInv, TypeOK PROVE OverdrawnNeedsSession
    OBVIOUS
  <2>1. begun \in Nat /\ overdrawn \in Nat
    BY DEF TypeOK, Sessions
  <2> QED BY <2>1 DEF SessionInv, OverdrawnNeedsSession
<1>3. Spec => []TypeOK
  BY QuotaTypeCorrect
<1> QED BY SessionStep, <1>1, <1>2, <1>3, PTL DEF Spec

-----------------------------------------------------------------------------
(* The coordinator and the clean-up. *)


(* The guards held: the n-th guard of t is held while t's depth is n or more. *)
Guards(d) == {g \in Tasks \X (1..MaxNesting) : g[2] <= d[g[1]]}

(* The inductive invariant. *)
CountIsGuards == activeWork = Cardinality(Guards(depth))
FlagIsRunning == evicting <=> Running # {}
RoomToBegin == \A t \in beginning : depth[t] < MaxNesting

CoordinatorInv ==
    /\ CoordinatorTypeOK
    /\ CountIsGuards
    /\ FlagIsRunning
    /\ RoomToBegin
    /\ Exclusive

LEMMA GuardsFinite ==
    ASSUME NEW d \in [Tasks -> 0..MaxNesting]
    PROVE  IsFiniteSet(Guards(d)) /\ Cardinality(Guards(d)) \in Nat
<1>1. IsFiniteSet(Tasks) /\ MaxNesting \in Nat
  BY CoordinatorAssumption
<1>2. IsFiniteSet(1..MaxNesting)
  BY <1>1, FS_Interval
<1>3. IsFiniteSet(Tasks \X (1..MaxNesting))
  BY <1>1, <1>2, FS_Product
<1>4. Guards(d) \in SUBSET (Tasks \X (1..MaxNesting))
  BY DEF Guards
<1>5. IsFiniteSet(Guards(d))
  BY <1>3, <1>4, FS_Subset
<1> QED BY <1>5, FS_CardinalityType

(* No guard is held when and only when every depth is zero. *)
LEMMA NoGuards ==
    ASSUME NEW d \in [Tasks -> 0..MaxNesting]
    PROVE  Cardinality(Guards(d)) = 0 <=> \A t \in Tasks : d[t] = 0
<1>1. Cardinality(Guards(d)) = 0 <=> Guards(d) = {}
  BY GuardsFinite, FS_EmptySet
<1>2. MaxNesting \in Nat \ {0}
  BY CoordinatorAssumption
<1>3. ASSUME Guards(d) = {}, NEW t \in Tasks  PROVE d[t] = 0
  <2>1. d[t] \in 0..MaxNesting
    OBVIOUS
  <2>2. SUFFICES ASSUME d[t] # 0  PROVE FALSE
    OBVIOUS
  <2>3. <<t, 1>> \in Tasks \X (1..MaxNesting) /\ 1 <= d[t]
    BY <1>2, <2>1, <2>2
  <2>4. <<t, 1>> \in Guards(d)
    BY <2>3 DEF Guards
  <2> QED BY <1>3, <2>4
<1>4. ASSUME \A t \in Tasks : d[t] = 0  PROVE Guards(d) = {}
  BY <1>4 DEF Guards
<1> QED BY <1>1, <1>3, <1>4

LEMMA InitInv == CoordinatorInit => CoordinatorInv
<1> SUFFICES ASSUME CoordinatorInit  PROVE CoordinatorInv
  OBVIOUS
<1>1. MaxNesting \in Nat \ {0}
  BY CoordinatorAssumption
<1>2. depth \in [Tasks -> 0..MaxNesting] /\ \A t \in Tasks : depth[t] = 0
  BY <1>1 DEF CoordinatorInit
<1>3. CoordinatorTypeOK
  BY <1>2 DEF CoordinatorInit, CoordinatorTypeOK
<1>4. CountIsGuards
  BY <1>2, NoGuards DEF CoordinatorInit, CountIsGuards
<1>5. Running = {}
  BY DEF CoordinatorInit, Running
<1>6. FlagIsRunning /\ RoomToBegin /\ Exclusive
  BY <1>5 DEF CoordinatorInit, FlagIsRunning, RoomToBegin, Exclusive
<1> QED BY <1>3, <1>4, <1>6 DEF CoordinatorInv

(* One more guard of t. *)
LEMMA GuardTaken ==
    ASSUME CoordinatorInv, NEW t \in beginning, BeginWork(t)
    PROVE  CoordinatorInv'
<1> USE DEF CoordinatorInv
<1>1. /\ t \in Tasks /\ depth[t] \in 0..MaxNesting /\ depth[t] < MaxNesting
      /\ MaxNesting \in Nat \ {0}
  BY CoordinatorAssumption DEF CoordinatorTypeOK, RoomToBegin
<1>2. /\ depth' = [depth EXCEPT ![t] = depth[t] + 1]
      /\ activeWork' = activeWork + 1
      /\ beginning' = beginning \ {t}
      /\ ~evicting /\ evicting' = evicting /\ eviction' = eviction
  BY DEF BeginWork
<1>3. CoordinatorTypeOK'
  BY <1>1, <1>2 DEF CoordinatorTypeOK
<1>4. depth \in [Tasks -> 0..MaxNesting] /\ depth' \in [Tasks -> 0..MaxNesting]
  BY <1>3 DEF CoordinatorTypeOK
<1>5. Guards(depth') = Guards(depth) \cup {<<t, depth[t] + 1>>}
  <2>1. ASSUME NEW s \in Tasks, NEW n \in 1..MaxNesting
        PROVE  n <= depth'[s] <=> n <= depth[s] \/ (s = t /\ n = depth[t] + 1)
    BY <1>1, <1>2, <1>4
  <2>2. <<t, depth[t] + 1>> \in Tasks \X (1..MaxNesting)
    BY <1>1
  <2> QED BY <2>1, <2>2 DEF Guards
<1>6. <<t, depth[t] + 1>> \notin Guards(depth)
  BY <1>1 DEF Guards
<1>7. CountIsGuards'
  BY <1>2, <1>4, <1>5, <1>6, GuardsFinite, FS_AddElement DEF CountIsGuards
<1>8. Running = {} /\ Running' = Running
  BY <1>2 DEF FlagIsRunning, Running
<1>9. FlagIsRunning' /\ Exclusive'
  BY <1>2, <1>8 DEF FlagIsRunning, Exclusive
<1>10. RoomToBegin'
  BY <1>2, <1>3 DEF RoomToBegin, CoordinatorTypeOK
<1> QED BY <1>3, <1>7, <1>9, <1>10

(* The last guard of t is given up; the counter is above zero. *)
LEMMA GuardGiven ==
    ASSUME CoordinatorInv, NEW t \in Tasks, EndWork(t)
    PROVE  CoordinatorInv'
<1> USE DEF CoordinatorInv
<1>1. /\ depth[t] \in 1..MaxNesting /\ depth \in [Tasks -> 0..MaxNesting]
      /\ activeWork \in Nat /\ MaxNesting \in Nat \ {0} /\ t \notin beginning
  BY CoordinatorAssumption DEF CoordinatorTypeOK, EndWork
<1>2. activeWork > 0
  BY <1>1, NoGuards DEF CountIsGuards
<1>3. /\ depth' = [depth EXCEPT ![t] = depth[t] - 1]
      /\ activeWork' = activeWork - 1
      /\ evicting' = evicting /\ beginning' = beginning /\ eviction' = eviction
  BY <1>2 DEF EndWork
<1>4. CoordinatorTypeOK'
  BY <1>1, <1>2, <1>3 DEF CoordinatorTypeOK
<1>5. Guards(depth') = Guards(depth) \ {<<t, depth[t]>>}
  <2>1. ASSUME NEW s \in Tasks, NEW n \in 1..MaxNesting
        PROVE  n <= depth'[s] <=> n <= depth[s] /\ ~(s = t /\ n = depth[t])
    BY <1>1, <1>3
  <2> QED BY <2>1 DEF Guards
<1>6. <<t, depth[t]>> \in Guards(depth)
  BY <1>1 DEF Guards
<1>7. CountIsGuards'
  <2>1. IsFiniteSet(Guards(depth))
    BY <1>1, GuardsFinite
  <2>2. Cardinality(Guards(depth')) = Cardinality(Guards(depth)) - 1
    BY <1>5, <1>6, <2>1, FS_RemoveElement
  <2> QED BY <1>3, <2>2 DEF CountIsGuards
<1>8. Running' = Running
  BY <1>3 DEF Running
<1>9. FlagIsRunning' /\ RoomToBegin'
  BY <1>1, <1>3, <1>8 DEF FlagIsRunning, RoomToBegin, CoordinatorTypeOK
<1>10. Exclusive'
  BY <1>1, <1>3, <1>8 DEF Exclusive, Working
<1> QED BY <1>4, <1>7, <1>9, <1>10

(* An eviction starts: the counter is zero, so no guard is held. *)
LEMMA EvictionStarts ==
    ASSUME CoordinatorInv, NEW e \in Evictors, Evict(e)
    PROVE  CoordinatorInv'
<1> USE DEF CoordinatorInv
<1>1. /\ activeWork = 0 /\ ~evicting /\ evicting' = TRUE
      /\ eviction' = [eviction EXCEPT ![e] = "running"]
      /\ activeWork' = activeWork /\ depth' = depth /\ beginning' = beginning
  BY DEF Evict
<1>2. CoordinatorTypeOK'
  BY <1>1 DEF CoordinatorTypeOK
<1>3. \A t \in Tasks : depth[t] = 0
  BY <1>1, NoGuards DEF CountIsGuards, CoordinatorTypeOK
<1>4. Running = {}
  BY <1>1 DEF FlagIsRunning
<1>5. Running' = {e}
  BY <1>1, <1>4 DEF Running, CoordinatorTypeOK
<1>6. CountIsGuards' /\ FlagIsRunning' /\ RoomToBegin'
  BY <1>1, <1>5 DEF CountIsGuards, FlagIsRunning, RoomToBegin
<1>7. Exclusive'
  BY <1>1, <1>3, <1>5 DEF Exclusive, Working
<1> QED BY <1>2, <1>6, <1>7

(* The running eviction ends, and it was the only one. *)
LEMMA EvictionEnds ==
    ASSUME CoordinatorInv, NEW e \in Evictors, EndEviction(e)
    PROVE  CoordinatorInv'
<1> USE DEF CoordinatorInv
<1>1. /\ eviction[e] = "running" /\ evicting' = FALSE
      /\ eviction' = [eviction EXCEPT ![e] = "none"]
      /\ activeWork' = activeWork /\ depth' = depth /\ beginning' = beginning
  BY DEF EndEviction
<1>2. CoordinatorTypeOK'
  BY <1>1 DEF CoordinatorTypeOK
<1>3. e \in Running
  BY <1>1 DEF Running
<1>4. Running' = {}
  BY <1>1, <1>3 DEF Running, Exclusive, CoordinatorTypeOK
<1>5. CountIsGuards' /\ FlagIsRunning' /\ RoomToBegin' /\ Exclusive'
  BY <1>1, <1>4 DEF CountIsGuards, FlagIsRunning, RoomToBegin, Exclusive
<1> QED BY <1>2, <1>5

LEMMA NextInv == CoordinatorInv /\ [CoordinatorNext]_coordinatorVars => CoordinatorInv'
<1> SUFFICES ASSUME CoordinatorInv, [CoordinatorNext]_coordinatorVars
             PROVE  CoordinatorInv'
  OBVIOUS
<1> USE DEF CoordinatorInv
<1>1. ASSUME NEW t \in Tasks, CallBeginWork(t)  PROVE CoordinatorInv'
  <2>1. /\ depth[t] < MaxNesting /\ beginning' = beginning \cup {t}
        /\ activeWork' = activeWork /\ evicting' = evicting /\ depth' = depth
        /\ eviction' = eviction
    BY <1>1 DEF CallBeginWork
  <2>2. CoordinatorTypeOK' /\ RoomToBegin'
    BY <2>1 DEF CoordinatorTypeOK, RoomToBegin
  <2>3. CountIsGuards' /\ FlagIsRunning' /\ Exclusive'
    BY <2>1 DEF CountIsGuards, FlagIsRunning, Exclusive, Working, Running
  <2> QED BY <2>2, <2>3
<1>2. ASSUME NEW t \in Tasks, BeginWork(t)  PROVE CoordinatorInv'
  BY <1>2, GuardTaken DEF BeginWork
<1>3. ASSUME NEW t \in Tasks, AbandonBeginWork(t)  PROVE CoordinatorInv'
  <2>1. /\ beginning' = beginning \ {t}
        /\ activeWork' = activeWork /\ evicting' = evicting /\ depth' = depth
        /\ eviction' = eviction
    BY <1>3 DEF AbandonBeginWork
  <2>2. CoordinatorTypeOK' /\ RoomToBegin'
    BY <2>1 DEF CoordinatorTypeOK, RoomToBegin
  <2>3. CountIsGuards' /\ FlagIsRunning' /\ Exclusive'
    BY <2>1 DEF CountIsGuards, FlagIsRunning, Exclusive, Working, Running
  <2> QED BY <2>2, <2>3
<1>4. ASSUME NEW t \in Tasks, EndWork(t)  PROVE CoordinatorInv'
  BY <1>4, GuardGiven
<1>5. ASSUME NEW e \in Evictors, CallEviction(e) \/ AbandonEviction(e)
      PROVE  CoordinatorInv'
  <2>1. /\ eviction[e] # "running"
        /\ \/ eviction' = [eviction EXCEPT ![e] = "waiting"]
           \/ eviction' = [eviction EXCEPT ![e] = "none"]
        /\ activeWork' = activeWork /\ evicting' = evicting /\ depth' = depth
        /\ beginning' = beginning
    BY <1>5 DEF CallEviction, AbandonEviction
  <2>2. CoordinatorTypeOK'
    BY <2>1 DEF CoordinatorTypeOK
  <2>3. Running' = Running
    BY <2>1 DEF Running, CoordinatorTypeOK
  <2>4. CountIsGuards' /\ FlagIsRunning' /\ RoomToBegin' /\ Exclusive'
    BY <2>1, <2>3 DEF CountIsGuards, FlagIsRunning, RoomToBegin, Exclusive, Working
  <2> QED BY <2>2, <2>4
<1>6. ASSUME NEW e \in Evictors, Evict(e)  PROVE CoordinatorInv'
  BY <1>6, EvictionStarts
<1>7. ASSUME NEW e \in Evictors, EndEviction(e)  PROVE CoordinatorInv'
  BY <1>7, EvictionEnds
<1>8. CASE Restart
  <2>1. MaxNesting \in Nat \ {0}
    BY CoordinatorAssumption
  <2>2. depth' \in [Tasks -> 0..MaxNesting] /\ \A t \in Tasks : depth'[t] = 0
    BY <1>8, <2>1 DEF Restart
  <2>3. CoordinatorTypeOK' /\ CountIsGuards'
    BY <1>8, <2>2, NoGuards DEF Restart, CoordinatorTypeOK, CountIsGuards
  <2>4. Running' = {}
    BY <1>8 DEF Restart, Running
  <2> QED BY <1>8, <2>3, <2>4 DEF Restart, FlagIsRunning, RoomToBegin, Exclusive
<1>9. CASE UNCHANGED coordinatorVars
  BY <1>9 DEF coordinatorVars, CoordinatorTypeOK, CountIsGuards, FlagIsRunning,
              RoomToBegin, Exclusive, Working, Running
<1> QED BY <1>1, <1>2, <1>3, <1>4, <1>5, <1>6, <1>7, <1>8, <1>9 DEF CoordinatorNext

LEMMA CoordinatorInvariant == CoordinatorSpec => []CoordinatorInv
BY InitInv, NextInv, PTL DEF CoordinatorSpec

(* While an eviction runs no task holds a guard and no other eviction runs *)
(* (BeginWork, EndWork, WithEviction).                                     *)
THEOREM EvictionExclusive == CoordinatorSpec => []Exclusive
<1>1. CoordinatorInv => Exclusive
  BY DEF CoordinatorInv
<1> QED BY <1>1, CoordinatorInvariant, PTL

LEMMA NestedFromInv == CoordinatorInv => NestedNeverBlocked
<1> SUFFICES ASSUME CoordinatorInv, NEW t \in beginning, Working(t), evicting
             PROVE  FALSE
  BY DEF NestedNeverBlocked
<1>1. Running # {} /\ t \in Tasks
  BY DEF CoordinatorInv, FlagIsRunning, CoordinatorTypeOK
<1> QED BY <1>1 DEF CoordinatorInv, Exclusive

(* A task that holds a guard is never made to wait for another one         *)
(* (BeginWork called by MaterializeApplicationDocs inside a submission).   *)
THEOREM NestedGuardsAreFree == CoordinatorSpec => []NestedNeverBlocked
BY NestedFromInv, CoordinatorInvariant, PTL

-----------------------------------------------------------------------------
\* The coordinator inside the retention subsystem.

LEMMA InitRefines == RetentionInit => CoordinatorInit
BY DEF RetentionInit

(* What a task does to the coordinator. *)
LEMMA TaskRefines ==
    ASSUME NEW t \in Tasks, TaskStep(t)
    PROVE  \/ CallBeginWork(t) \/ BeginWork(t) \/ AbandonBeginWork(t) \/ EndWork(t)
           \/ UNCHANGED coordinatorVars
<1>1. ASSUME Approve(t) \/ Prepare(t) \/ AutoApply(t) \/ SetDefault(t)
      PROVE  CallBeginWork(t)
  BY <1>1 DEF Approve, Prepare, AutoApply, SetDefault, Request
<1>2. Materialize(t) => CallBeginWork(t)
  BY DEF Materialize
<1>3. Entered(t) \/ ChooseVersion(t) \/ SaveVersion(t) => BeginWork(t)
  BY DEF Entered, ChooseVersion, SaveVersion
<1>4. NotEntered(t) => AbandonBeginWork(t)
  BY DEF NotEntered
<1>5. Unnest(t) \/ Leave(t) => EndWork(t)
  BY DEF Unnest, Leave
<1>6. ASSUME \/ WriteDefault(t) \/ PutBlob(t) \/ LinkArtifact(t) \/ LinkFails(t)
             \/ MarkReady(t) \/ Export(t)
      PROVE  UNCHANGED coordinatorVars
  BY <1>6 DEF WriteDefault, PutBlob, LinkArtifact, LinkFails, MarkReady, Export
<1>7. ASSUME \/ Submitted(t) \/ NotSubmitted(t) \/ Prepared(t)
             \/ PublishApplied(t) \/ PublishPending(t)
      PROVE  UNCHANGED coordinatorVars
  BY <1>7 DEF Submitted, NotSubmitted, Prepared, PublishApplied, PublishPending
<1> QED BY <1>1, <1>2, <1>3, <1>4, <1>5, <1>6, <1>7 DEF TaskStep

(* What a clean-up does to it. *)
LEMMA CleanUpRefines ==
    ASSUME NEW e \in Evictors, StartReconcile(e) \/ PassStep(e)
    PROVE  \/ CallEviction(e) \/ Evict(e) \/ AbandonEviction(e) \/ EndEviction(e)
           \/ UNCHANGED coordinatorVars
<1>1. StartReconcile(e) \/ NextPass(e) => CallEviction(e)
  BY DEF StartReconcile, NextPass
<1>2. EnterPass(e) => Evict(e)
  BY DEF EnterPass
<1>3. AbandonPass(e) => AbandonEviction(e)
  BY DEF AbandonPass
<1>4. EndPass(e) => EndEviction(e)
  BY DEF EndPass
<1>5. ASSUME \/ Scan(e) \/ IndexLatest(e) \/ IndexListed(e) \/ PassOver(e)
             \/ RemoveFile(e) \/ PersistRow(e) \/ RemoveBlob(e) \/ MarkEvicted(e)
      PROVE  UNCHANGED coordinatorVars
  BY <1>5 DEF Scan, IndexLatest, IndexListed, PassOver, RemoveFile, PersistRow,
              RemoveBlob, MarkEvicted
<1> QED BY <1>1, <1>2, <1>3, <1>4, <1>5 DEF PassStep

LEMMA StepRefines ==
    [RetentionNext]_retentionVars => [CoordinatorNext]_coordinatorVars
<1> SUFFICES ASSUME [RetentionNext]_retentionVars
             PROVE  [CoordinatorNext]_coordinatorVars
  OBVIOUS
<1>1. ASSUME NEW t \in Tasks, TaskStep(t)  PROVE [CoordinatorNext]_coordinatorVars
  BY <1>1, TaskRefines DEF CoordinatorNext
<1>2. ASSUME NEW e \in Evictors, StartReconcile(e) \/ PassStep(e)
      PROVE  [CoordinatorNext]_coordinatorVars
  BY <1>2, CleanUpRefines DEF CoordinatorNext
<1>3. ASSUME HandlerStep  PROVE UNCHANGED coordinatorVars
  BY <1>3 DEF HandlerStep
<1>4. RestartProcess => Restart
  BY DEF RestartProcess
<1>5. UNCHANGED retentionVars => UNCHANGED coordinatorVars
  BY DEF retentionVars
<1> QED BY <1>1, <1>2, <1>3, <1>4, <1>5 DEF RetentionNext, CoordinatorNext

(* The retention subsystem implements the coordinator: no handler, task or *)
(* clean-up changes the guards other than through BeginWork, EndWork and   *)
(* WithEviction.                                                           *)
THEOREM RetentionUsesCoordinator == RetentionSpec => CoordinatorSpec
BY InitRefines, StepRefines, PTL DEF RetentionSpec, CoordinatorSpec

(* No file or blob is removed while a submission, a preparation or a       *)
(* document write of the same user is under way (RunEviction).             *)
THEOREM CleanUpExclusive == RetentionSpec => []Exclusive
BY RetentionUsesCoordinator, EvictionExclusive, PTL

(* The guard that MaterializeApplicationDocs takes inside a submission is  *)
(* never refused because of a clean-up.                                    *)
THEOREM MaterializeNotBlocked == RetentionSpec => []NestedNeverBlocked
BY RetentionUsesCoordinator, NestedGuardsAreFree, PTL
-----------------------------------------------------------------------------
(* What a task makes stays until the task leaves.  The argument: files and *)
(* blobs are removed by running evictions only, a task that has made       *)
(* something holds a guard, and the two exclude each other.                *)

Stages == {"idle", "enter", "default", "materialize", "nested", "put", "link",
           "ready", "export", "unnest", "apply", "insert", "delete", "leave"}
Stored == {"link", "ready", "export", "unnest", "apply", "insert", "delete", "leave"}
Exported == {"unnest", "apply", "insert", "delete", "leave"}

TaskRecord == [pc : Stages, op : {"none", "approve", "prepare", "auto", "default"},
               job : Jobs, doc : Doc, fresh : BOOLEAN, hold : BOOLEAN]

(* A task at pc holds n guards at least: the outer, and then the inner one. *)
Holds(stage, n) ==
    /\ stage \in Stages \ {"idle", "enter"} => n >= 1
    /\ stage \in {"put", "link", "ready", "export", "unnest"} => n >= 2

(* What a task that renders a new version has made so far. *)
Made(r, fs, bs) ==
    /\ r.pc \in {"put", "link"} => r.doc.ver \in Versions
    /\ r.fresh =>
          /\ r.pc \in Stored \union {"put"}
          /\ r.pc \in Stored => Artifact[r.doc.ver] \in bs
          /\ r.pc \in Exported => r.job \in fs

DataType ==
    /\ task \in [Tasks -> TaskRecord]
    /\ versions \subseteq Versions /\ linked \subseteq Versions
    /\ DOMAIN pending \subseteq Jobs
    /\ \A j \in DOMAIN pending : pending[j] \in Doc

GuardsHeld == \A t \in Tasks : Holds(task[t].pc, depth[t])
AllMade == \A t \in Tasks : Made(task[t], files, blobs)

Cleaning == {"scan", "next", "listed", "remove", "persist", "blobs", "mark", "end"}

PassesRun ==
    /\ DOMAIN run = Evictors
    /\ \A e \in Evictors : "pc" \in DOMAIN run[e]
    /\ \A e \in Evictors : run[e].pc \in Cleaning => eviction[e] = "running"

InFlightInv == CoordinatorInv /\ DataType /\ GuardsHeld /\ AllMade /\ PassesRun

LEMMA InFlightInit == RetentionInit => InFlightInv
<1> SUFFICES ASSUME RetentionInit  PROVE InFlightInv
  OBVIOUS
<1>1. CoordinatorInv
  BY InitRefines, InitInv
<1>2. Jobs # {} /\ Versions # {}
  BY RetentionAssumption
<1>3. (CHOOSE j \in Jobs : TRUE) \in Jobs /\ (CHOOSE w \in Versions : TRUE) \in Versions
  BY <1>2
<1>4. NoDoc \in Doc /\ [path |-> TRUE, ver |-> CHOOSE w \in Versions : TRUE] \in Doc
  BY <1>3 DEF NoDoc, Doc
<1>5. Idle \in TaskRecord /\ Idle.pc = "idle" /\ Idle.fresh = FALSE
  BY <1>3, <1>4 DEF Idle, TaskRecord, Stages
<1>6. task = [t \in Tasks |-> Idle]
  BY DEF RetentionInit
<1>7. DataType
  BY <1>3, <1>4, <1>5, <1>6 DEF RetentionInit, DataType
<1>8. GuardsHeld /\ AllMade
  BY <1>5, <1>6 DEF GuardsHeld, AllMade, Holds, Made
<1>9. PassesRun
  BY DEF RetentionInit, PassesRun, Resting, Cleaning
<1> QED BY <1>1, <1>7, <1>8, <1>9 DEF InFlightInv

(* A step of one task that removes nothing and leaves it with its guards. *)
LEMMA TaskMoves ==
    ASSUME InFlightInv, CoordinatorInv', NEW t \in Tasks, NEW r \in TaskRecord,
           task' = [task EXCEPT ![t] = r],
           \A s \in Tasks \ {t} : depth'[s] = depth[s],
           Holds(r.pc, depth'[t]), Made(r, files', blobs'),
           files \subseteq files', blobs \subseteq blobs',
           versions' \subseteq Versions, linked' \subseteq Versions,
           DOMAIN pending' \subseteq Jobs,
           \A j \in DOMAIN pending' : pending'[j] \in Doc,
           run' = run, eviction' = eviction
    PROVE  InFlightInv'
<1>1. task' \in [Tasks -> TaskRecord] /\ \A s \in Tasks : task'[s] = IF s = t THEN r ELSE task[s]
  BY DEF InFlightInv, DataType
<1>2. DataType'
  BY <1>1 DEF DataType
<1>3. GuardsHeld'
  BY <1>1 DEF InFlightInv, GuardsHeld
<1>4. AllMade'
  <2> SUFFICES ASSUME NEW s \in Tasks  PROVE Made(task[s], files', blobs') \/ s = t
    BY <1>1 DEF AllMade
  <2> QED BY DEF InFlightInv, AllMade, Made
<1>5. PassesRun'
  BY DEF InFlightInv, PassesRun
<1> QED BY <1>2, <1>3, <1>4, <1>5 DEF InFlightInv

LEMMA TaskKeeps ==
    ASSUME InFlightInv, CoordinatorInv', NEW t \in Tasks, TaskStep(t)
    PROVE  InFlightInv'
<1>1. /\ task \in [Tasks -> TaskRecord] /\ task[t] \in TaskRecord
      /\ versions \subseteq Versions /\ linked \subseteq Versions
      /\ DOMAIN pending \subseteq Jobs
      /\ \A j \in DOMAIN pending : pending[j] \in Doc
  BY DEF InFlightInv, DataType
<1>2. Holds(task[t].pc, depth[t]) /\ Made(task[t], files, blobs)
  BY DEF InFlightInv, GuardsHeld, AllMade
<1>3. depth \in [Tasks -> 0..MaxNesting] /\ MaxNesting \in Nat /\ depth[t] \in Nat
  BY CoordinatorAssumption DEF InFlightInv, CoordinatorInv, CoordinatorTypeOK
<1>4. Idle \in TaskRecord /\ Idle.pc = "idle" /\ Idle.fresh = FALSE
  BY RetentionAssumption DEF Idle, TaskRecord, Stages, NoDoc, Doc
<1>5. NoDoc \in Doc
  BY DEF NoDoc, Doc
(* The calls: the task asks for its guard, or gives up. *)
<1>10. ASSUME NEW op \in {"approve", "prepare", "auto", "default"}, NEW j \in Jobs,
              NEW d \in Doc, Request(t, op, j, d)
       PROVE  InFlightInv'
  <2> DEFINE r == [Idle EXCEPT !.pc = "enter", !.op = op, !.job = j, !.doc = d]
  <2>1. r \in TaskRecord /\ r.pc = "enter" /\ r.fresh = FALSE
    BY <1>4 DEF TaskRecord, Stages
  <2>2. task' = [task EXCEPT ![t] = r] /\ depth' = depth
    BY <1>10 DEF Request, CallBeginWork, Become
  <2>3. Holds(r.pc, depth'[t]) /\ Made(r, files', blobs')
    BY <2>1 DEF Holds, Made
  <2> HIDE DEF r
  <2> QED BY <1>1, <1>10, <2>1, <2>2, <2>3, TaskMoves DEF Request, CallBeginWork, storage
<1>11. ASSUME Approve(t) \/ Prepare(t) \/ AutoApply(t) \/ SetDefault(t)
       PROVE  InFlightInv'
  <2>1. \A j \in Jobs, v \in Versions \union {NoVersion} : [path |-> FALSE, ver |-> v] \in Doc
    BY DEF Doc
  <2>2. \A j \in DOMAIN pending : j \in Jobs /\ pending[j].ver \in Versions \union {NoVersion}
    BY <1>1 DEF Doc
  <2>3. Idle.job \in Jobs
    BY <1>4 DEF TaskRecord
  <2>4. CASE Approve(t)
    BY <1>1, <1>10, <2>4 DEF Approve
  <2>5. CASE Prepare(t)
    BY <1>10, <2>1, <2>2, <2>5 DEF Prepare
  <2>6. CASE AutoApply(t)
    BY <1>5, <1>10, <2>6 DEF AutoApply
  <2>7. CASE SetDefault(t)
    BY <1>1, <1>10, <2>1, <2>3, <2>7 DEF SetDefault
  <2> QED BY <1>11, <2>4, <2>5, <2>6, <2>7
<1>12. ASSUME NotEntered(t)  PROVE InFlightInv'
  <2>1. task' = [task EXCEPT ![t] = Idle] /\ depth' = depth
    BY <1>12 DEF NotEntered, AbandonBeginWork, Become
  <2>2. Holds(Idle.pc, depth'[t]) /\ Made(Idle, files', blobs')
    BY <1>4 DEF Holds, Made
  <2> QED BY <1>1, <1>4, <1>12, <2>1, <2>2, TaskMoves
          DEF NotEntered, AbandonBeginWork, storage
<1>13. ASSUME Leave(t)  PROVE InFlightInv'
  <2>1. task' = [task EXCEPT ![t] = Idle] /\ depth' = [depth EXCEPT ![t] = @ - 1]
    BY <1>13 DEF Leave, EndWork, Become
  <2>2. Holds(Idle.pc, depth'[t]) /\ Made(Idle, files', blobs')
    BY <1>4 DEF Holds, Made
  <2> QED BY <1>1, <1>3, <1>4, <1>13, <2>1, <2>2, TaskMoves DEF Leave, EndWork, storage
(* The guards are taken and given up. *)
<1>20. ASSUME NEW stage \in Stages
       PROVE  /\ [task[t] EXCEPT !.pc = stage] \in TaskRecord
              /\ [task[t] EXCEPT !.pc = stage].pc = stage
              /\ [task[t] EXCEPT !.pc = stage].fresh = task[t].fresh
              /\ [task[t] EXCEPT !.pc = stage].job = task[t].job
              /\ [task[t] EXCEPT !.pc = stage].doc = task[t].doc
  BY <1>1 DEF TaskRecord
<1>21. ASSUME Entered(t)  PROVE InFlightInv'
  <2> DEFINE stage == CASE task[t].op = "approve" -> "apply"
                        [] task[t].op = "default" -> "default"
                        [] OTHER -> "materialize"
             r == [task[t] EXCEPT !.pc = stage]
  <2>1. stage \in {"apply", "default", "materialize"}
    OBVIOUS
  <2>2. task[t].pc = "enter" /\ task[t].fresh = FALSE
    BY <1>1, <1>2, <1>21 DEF Entered, Made, Stored, TaskRecord
  <2>3. task' = [task EXCEPT ![t] = r] /\ depth' = [depth EXCEPT ![t] = @ + 1]
    BY <1>21 DEF Entered, Goto, Become, BeginWork
  <2> HIDE DEF stage
  <2>4. r \in TaskRecord /\ r.pc = stage /\ r.fresh = FALSE
    BY <1>20, <2>1, <2>2 DEF Stages
  <2>5. Holds(r.pc, depth'[t]) /\ Made(r, files', blobs')
    BY <1>3, <2>1, <2>3, <2>4 DEF Holds, Made
  <2> HIDE DEF r
  <2> QED BY <1>1, <1>3, <1>21, <2>3, <2>4, <2>5, TaskMoves DEF Entered, BeginWork, storage
<1>22. ASSUME Materialize(t)  PROVE InFlightInv'
  <2> DEFINE r == [task[t] EXCEPT !.pc = "nested"]
  <2>1. task[t].pc = "materialize" /\ task[t].fresh = FALSE
    BY <1>1, <1>2, <1>22 DEF Materialize, Made, Stored, TaskRecord
  <2>2. task' = [task EXCEPT ![t] = r] /\ depth' = depth
    BY <1>22 DEF Materialize, Goto, Become, CallBeginWork
  <2>3. r \in TaskRecord /\ r.pc = "nested" /\ r.fresh = FALSE
    BY <1>20, <2>1 DEF Stages
  <2>4. Holds(r.pc, depth'[t]) /\ Made(r, files', blobs')
    BY <1>2, <2>1, <2>2, <2>3 DEF Holds, Made, Stages
  <2> HIDE DEF r
  <2> QED BY <1>1, <1>22, <2>2, <2>3, <2>4, TaskMoves DEF Materialize, CallBeginWork, storage
<1>23. ASSUME ChooseVersion(t)  PROVE InFlightInv'
  <2>1. task[t].pc = "nested" /\ task[t].fresh = FALSE /\ depth[t] >= 1
    BY <1>1, <1>2, <1>23 DEF ChooseVersion, Made, Stored, TaskRecord, Holds, Stages
  <2>2. PICK r \in TaskRecord : /\ task' = [task EXCEPT ![t] = r]
                                /\ r.pc \in {"unnest", "export"} /\ r.fresh = FALSE
    <3>1. /\ [task[t] EXCEPT !.pc = "unnest", !.doc = NoDoc] \in TaskRecord
          /\ [task[t] EXCEPT !.pc = "unnest", !.doc = NoDoc].pc = "unnest"
          /\ [task[t] EXCEPT !.pc = "unnest", !.doc = NoDoc].fresh = FALSE
      BY <1>1, <1>5, <2>1 DEF TaskRecord, Stages
    <3>2. ASSUME NEW v \in linked
          PROVE  /\ [task[t] EXCEPT !.pc = "export", !.doc.ver = v] \in TaskRecord
                 /\ [task[t] EXCEPT !.pc = "export", !.doc.ver = v].pc = "export"
                 /\ [task[t] EXCEPT !.pc = "export", !.doc.ver = v].fresh = FALSE
      BY <1>1, <2>1 DEF TaskRecord, Stages, Doc
    <3> QED BY <1>23, <3>1, <3>2 DEF ChooseVersion, Become
  <2>3. depth' = [depth EXCEPT ![t] = @ + 1]
    BY <1>23 DEF ChooseVersion, BeginWork
  <2>4. Holds(r.pc, depth'[t]) /\ Made(r, files', blobs')
    BY <1>3, <2>1, <2>2, <2>3 DEF Holds, Made
  <2> QED BY <1>1, <1>3, <1>23, <2>2, <2>3, <2>4, TaskMoves DEF ChooseVersion, BeginWork, storage
<1>24. ASSUME SaveVersion(t)  PROVE InFlightInv'
  <2>1. PICK v \in Versions \ versions :
           /\ versions' = versions \union {v}
           /\ Become(t, [task[t] EXCEPT !.pc = "put", !.doc.ver = v, !.fresh = TRUE])
    BY <1>24 DEF SaveVersion
  <2> DEFINE r == [task[t] EXCEPT !.pc = "put", !.doc.ver = v, !.fresh = TRUE]
  <2>2. task[t].pc = "nested" /\ depth[t] >= 1
    BY <1>1, <1>2, <1>24 DEF SaveVersion, Holds, Stages
  <2>3. task' = [task EXCEPT ![t] = r] /\ depth' = [depth EXCEPT ![t] = @ + 1]
    BY <1>24, <2>1 DEF SaveVersion, BeginWork, Become
  <2>4. r \in TaskRecord /\ r.pc = "put" /\ r.doc.ver \in Versions
    BY <1>1 DEF TaskRecord, Stages, Doc
  <2> HIDE DEF r
  <2>5. Holds(r.pc, depth'[t]) /\ Made(r, files', blobs')
    BY <1>3, <2>2, <2>3, <2>4 DEF Holds, Made, Stored, Exported
  <2> QED BY <1>1, <1>3, <1>24, <2>1, <2>3, <2>4, <2>5, TaskMoves DEF SaveVersion, BeginWork
<1>25. ASSUME Unnest(t)  PROVE InFlightInv'
  <2> DEFINE r == [task[t] EXCEPT !.pc = "apply"]
  <2>1. task[t].pc = "unnest" /\ depth[t] >= 2
    BY <1>2, <1>25 DEF Unnest, Holds
  <2>2. task' = [task EXCEPT ![t] = r] /\ depth' = [depth EXCEPT ![t] = @ - 1]
    BY <1>25 DEF Unnest, Goto, Become, EndWork
  <2>3. /\ r \in TaskRecord /\ r.pc = "apply" /\ r.fresh = task[t].fresh
        /\ r.job = task[t].job /\ r.doc = task[t].doc
    BY <1>20 DEF Stages
  <2> HIDE DEF r
  <2>4. files' = files /\ blobs' = blobs
    BY <1>25 DEF Unnest, storage
  <2>5. Holds(r.pc, depth'[t]) /\ Made(r, files', blobs')
    BY <1>2, <1>3, <2>1, <2>2, <2>3, <2>4 DEF Holds, Made, Stored, Exported
  <2> QED BY <1>1, <1>3, <1>25, <2>2, <2>3, <2>5, TaskMoves DEF Unnest, EndWork, storage
(* The steps between, under the guards the task has. *)
<1>30. ASSUME NEW r \in TaskRecord, Become(t, r), UNCHANGED <<coordinatorVars, run>>,
              Holds(r.pc, depth[t]), Made(r, files', blobs'),
              files \subseteq files', blobs \subseteq blobs',
              versions' \subseteq Versions, linked' \subseteq Versions,
              DOMAIN pending' \subseteq Jobs,
              \A j \in DOMAIN pending' : pending'[j] \in Doc
       PROVE  InFlightInv'
  <2>1. task' = [task EXCEPT ![t] = r] /\ depth' = depth /\ eviction' = eviction /\ run' = run
    BY <1>30 DEF Become, coordinatorVars
  <2> QED BY <1>30, <2>1, TaskMoves
<1>31. ASSUME NEW stage \in Stages, Goto(t, stage)
       PROVE  \E r \in TaskRecord :
                 /\ Become(t, r) /\ r.pc = stage /\ r.fresh = task[t].fresh
                 /\ r.job = task[t].job /\ r.doc = task[t].doc
  BY <1>20, <1>31 DEF Goto
<1>32. ASSUME OnHold(t)
       PROVE  \E r \in TaskRecord : Become(t, r) /\ r.pc = "unnest" /\ r.fresh = FALSE
  <2>1. /\ [task[t] EXCEPT !.pc = "unnest", !.doc = NoDoc, !.fresh = FALSE, !.hold = TRUE]
             \in TaskRecord
        /\ [task[t] EXCEPT !.pc = "unnest", !.doc = NoDoc, !.fresh = FALSE, !.hold = TRUE].pc
             = "unnest"
        /\ [task[t] EXCEPT !.pc = "unnest", !.doc = NoDoc, !.fresh = FALSE, !.hold = TRUE].fresh
             = FALSE
    BY <1>1, <1>5 DEF TaskRecord, Stages
  <2> QED BY <1>32, <2>1 DEF OnHold
<1>33. \A j \in Jobs, d \in Doc :
          /\ DOMAIN PutPending(j, d) \subseteq Jobs
          /\ \A k \in DOMAIN PutPending(j, d) : PutPending(j, d)[k] \in Doc
  BY <1>1 DEF PutPending
<1>34. \A j \in Jobs : /\ DOMAIN DeletePending(j) \subseteq Jobs
                       /\ \A k \in DOMAIN DeletePending(j) : DeletePending(j)[k] \in Doc
  BY <1>1 DEF DeletePending
<1>35. task[t].job \in Jobs /\ task[t].doc \in Doc /\ task[t].doc.ver \in Versions \union {NoVersion}
  BY <1>1 DEF TaskRecord, Doc
<1>41. ASSUME WriteDefault(t)  PROVE InFlightInv'
  <2>1. PICK r \in TaskRecord : /\ Become(t, r) /\ r.pc = "leave" /\ r.fresh = task[t].fresh
    BY <1>31, <1>41 DEF WriteDefault, Stages
  <2>2. task[t].pc = "default" /\ task[t].fresh = FALSE
    BY <1>1, <1>2, <1>41 DEF WriteDefault, Made, Stored, TaskRecord
  <2>3. Holds(r.pc, depth[t]) /\ Made(r, files', blobs')
    BY <1>2, <2>1, <2>2 DEF Holds, Made, Stages
  <2> QED BY <1>1, <1>30, <1>41, <2>1, <2>3 DEF WriteDefault
<1>42. ASSUME PutBlob(t)  PROVE InFlightInv'
  <2>1. PICK r \in TaskRecord : /\ Become(t, r) /\ r.pc = "link" /\ r.doc = task[t].doc
    BY <1>31, <1>42 DEF PutBlob, Stages
  <2>2. Holds(r.pc, depth[t]) /\ Made(r, files', blobs')
    BY <1>2, <1>42, <2>1 DEF PutBlob, Holds, Made, Stages, Stored, Exported
  <2> QED BY <1>1, <1>30, <1>42, <2>1, <2>2 DEF PutBlob
<1>43. ASSUME LinkArtifact(t)  PROVE InFlightInv'
  <2>1. PICK r \in TaskRecord : /\ Become(t, r) /\ r.pc = "ready" /\ r.doc = task[t].doc
                                /\ r.fresh = task[t].fresh
    BY <1>31, <1>43 DEF LinkArtifact, Stages
  <2>2. Holds(r.pc, depth[t]) /\ Made(r, files', blobs')
    BY <1>2, <1>43, <2>1 DEF LinkArtifact, Holds, Made, Stages, Stored, Exported
  <2>3. linked' \subseteq Versions
    BY <1>1, <1>2, <1>43 DEF LinkArtifact, Made
  <2> QED BY <1>1, <1>30, <1>43, <2>1, <2>2, <2>3 DEF LinkArtifact
<1>44. ASSUME LinkFails(t)  PROVE InFlightInv'
  <2>1. PICK r \in TaskRecord : Become(t, r) /\ r.pc = "unnest" /\ r.fresh = FALSE
    BY <1>32, <1>44 DEF LinkFails
  <2>2. Holds(r.pc, depth[t]) /\ Made(r, files', blobs')
    BY <1>2, <1>44, <2>1 DEF LinkFails, Holds, Made, Stages
  <2> QED BY <1>1, <1>30, <1>44, <2>1, <2>2 DEF LinkFails
<1>45. ASSUME MarkReady(t)  PROVE InFlightInv'
  <2>1. PICK r \in TaskRecord : /\ Become(t, r) /\ r.pc = "export" /\ r.doc = task[t].doc
                                /\ r.fresh = task[t].fresh
    BY <1>31, <1>45 DEF MarkReady, Stages
  <2>2. Holds(r.pc, depth[t]) /\ Made(r, files', blobs')
    BY <1>2, <1>45, <2>1 DEF MarkReady, Holds, Made, Stages, Stored, Exported
  <2> QED BY <1>1, <1>30, <1>45, <2>1, <2>2 DEF MarkReady
<1>46. ASSUME Export(t)  PROVE InFlightInv'
  <2> DEFINE r == [task[t] EXCEPT !.pc = "unnest", !.doc.path = TRUE]
  <2>1. task[t].pc = "export" /\ UNCHANGED <<coordinatorVars, run, versions, linked, pending, blobs>>
    BY <1>46 DEF Export
  <2>2. Holds("unnest", depth[t])
    BY <1>2, <2>1 DEF Holds, Stages
  <2>3. CASE Become(t, r) /\ files' = files \union {task[t].job}
    <3>1. /\ r \in TaskRecord /\ r.pc = "unnest" /\ r.job = task[t].job
          /\ r.fresh = task[t].fresh /\ r.doc.ver = task[t].doc.ver
      BY <1>1 DEF TaskRecord, Stages, Doc
    <3> HIDE DEF r
    <3>2. Made(r, files', blobs')
      BY <1>2, <2>1, <2>3, <3>1 DEF Made, Stored, Exported
    <3> QED BY <1>1, <1>30, <2>1, <2>2, <2>3, <3>1, <3>2
  <2>4. CASE OnHold(t) /\ files' = files
    <3>1. PICK q \in TaskRecord : Become(t, q) /\ q.pc = "unnest" /\ q.fresh = FALSE
      BY <1>32, <2>4
    <3>2. Made(q, files', blobs')
      BY <3>1 DEF Made
    <3> QED BY <1>1, <1>30, <2>1, <2>2, <2>4, <3>1, <3>2
  <2> QED BY <1>46, <2>3, <2>4 DEF Export
(* The outcome of the application. *)
<1>51. ASSUME NEW stage \in {"insert", "delete", "leave"}, Goto(t, stage),
              task[t].pc \in {"apply", "insert", "delete"},
              UNCHANGED <<coordinatorVars, run, versions, linked, files, blobs>>,
              DOMAIN pending' \subseteq Jobs,
              \A j \in DOMAIN pending' : pending'[j] \in Doc
       PROVE  InFlightInv'
  <2>1. PICK r \in TaskRecord : /\ Become(t, r) /\ r.pc = stage /\ r.doc = task[t].doc
                                /\ r.fresh = task[t].fresh /\ r.job = task[t].job
    BY <1>31, <1>51 DEF Stages
  <2>2. Holds(r.pc, depth[t]) /\ Made(r, files', blobs')
    BY <1>2, <1>51, <2>1 DEF Holds, Made, Stages, Stored, Exported
  <2> QED BY <1>1, <1>30, <1>51, <2>1, <2>2
<1>52. ASSUME Submitted(t)  PROVE InFlightInv'
  BY <1>1, <1>51, <1>52 DEF Submitted, storage
<1>53. ASSUME NotSubmitted(t)  PROVE InFlightInv'
  <2> DEFINE j == task[t].job
             d == task[t].doc
             kept == IF j \in DOMAIN pending THEN pending[j] ELSE NoDoc
             merged == [path |-> d.path \/ kept.path,
                        ver |-> IF d.ver # NoVersion THEN d.ver ELSE kept.ver]
  <2>1. kept \in Doc /\ merged \in Doc
    BY <1>1, <1>5, <1>35 DEF Doc
  <2>2. pending' \in {pending, PutPending(j, kept), PutPending(j, NoDoc), PutPending(j, merged)}
    BY <1>53 DEF NotSubmitted
  <2> HIDE DEF kept, merged
  <2>3. DOMAIN pending' \subseteq Jobs /\ \A k \in DOMAIN pending' : pending'[k] \in Doc
    BY <1>1, <1>5, <1>33, <1>35, <2>1, <2>2
  <2> QED BY <1>51, <1>53, <2>3 DEF NotSubmitted
<1>54. ASSUME Prepared(t)  PROVE InFlightInv'
  <2>1. DOMAIN pending' \subseteq Jobs /\ \A k \in DOMAIN pending' : pending'[k] \in Doc
    BY <1>1, <1>33, <1>35, <1>54 DEF Prepared
  <2> QED BY <1>51, <1>54, <2>1 DEF Prepared
<1>55. ASSUME PublishApplied(t)  PROVE InFlightInv'
  BY <1>1, <1>51, <1>55 DEF PublishApplied
<1>56. ASSUME PublishPending(t)  PROVE InFlightInv'
  <2>1. DOMAIN pending' \subseteq Jobs /\ \A k \in DOMAIN pending' : pending'[k] \in Doc
    BY <1>1, <1>34, <1>35, <1>56 DEF PublishPending
  <2> QED BY <1>51, <1>56, <2>1 DEF PublishPending
<1> QED BY <1>11, <1>12, <1>13, <1>21, <1>22, <1>23, <1>24, <1>25, <1>41, <1>42,
           <1>43, <1>44, <1>45, <1>46, <1>52, <1>53, <1>54, <1>55, <1>56 DEF TaskStep

(* A clean-up removes files and blobs only while its eviction runs. *)
LEMMA CleanUpKeeps ==
    ASSUME InFlightInv, CoordinatorInv', NEW e \in Evictors,
           StartReconcile(e) \/ PassStep(e)
    PROVE  InFlightInv'
<1>1. /\ DOMAIN run = Evictors /\ \A f \in Evictors : "pc" \in DOMAIN run[f]
      /\ \A f \in Evictors : run[f].pc \in Cleaning => eviction[f] = "running"
      /\ eviction \in [Evictors -> {"none", "waiting", "running"}]
  BY DEF InFlightInv, PassesRun, CoordinatorInv, CoordinatorTypeOK
<1>2. UNCHANGED <<task, versions, linked, pending, depth>>
  BY DEF StartReconcile, PassStep, EnterPass, AbandonPass, Scan, IndexLatest,
         IndexListed, PassOver, RemoveFile, PersistRow, RemoveBlob, MarkEvicted,
         EndPass, NextPass, storage, CallEviction, Evict, AbandonEviction,
         EndEviction, coordinatorVars
<1>3. DataType' /\ GuardsHeld'
  BY <1>2 DEF InFlightInv, DataType, GuardsHeld
<1>4. AllMade'
  <2>1. CASE RemoveFile(e) \/ RemoveBlob(e)
    <3>1. eviction[e] = "running"
      BY <1>1, <2>1 DEF RemoveFile, RemoveBlob, Cleaning
    <3>2. \A t \in Tasks : depth[t] = 0
      BY <3>1 DEF InFlightInv, CoordinatorInv, CoordinatorTypeOK, Exclusive, Running, Working
    <3>3. \A t \in Tasks : task[t].pc \in {"idle", "enter"}
      BY <3>2 DEF InFlightInv, GuardsHeld, Holds, DataType, TaskRecord
    <3> QED BY <1>2, <3>3 DEF InFlightInv, AllMade, Made, Stored
  <2>2. CASE ~(RemoveFile(e) \/ RemoveBlob(e))
    <3>1. files' = files /\ blobs' = blobs
      BY <2>2 DEF StartReconcile, PassStep, EnterPass, AbandonPass, Scan, IndexLatest,
                  IndexListed, PassOver, PersistRow, MarkEvicted, EndPass, NextPass, storage
    <3> QED BY <1>2, <3>1 DEF InFlightInv, AllMade, Made
  <2> QED BY <2>1, <2>2
<1>5. PassesRun'
  <2>1. CASE StartReconcile(e)
    BY <1>1, <2>1 DEF StartReconcile, CallEviction, Turn, PassesRun, Cleaning
  <2>2. CASE EnterPass(e)
    BY <1>1, <2>2 DEF EnterPass, Evict, GotoPass, Turn, PassesRun, Cleaning
  <2>3. CASE AbandonPass(e)
    BY <1>1, <2>3 DEF AbandonPass, AbandonEviction, Resting, Turn, PassesRun, Cleaning
  <2>4. CASE EndPass(e)
    <3>1. PICK r : /\ run' = [run EXCEPT ![e] = r] /\ "pc" \in DOMAIN r
                   /\ r.pc \in {"idle", "again"}
      <4> DEFINE again == [Resting EXCEPT !.pc = "again", !.pass = run[e].pass + 1]
      <4>1. "pc" \in DOMAIN Resting /\ Resting.pc = "idle"
        BY DEF Resting
      <4>2. "pc" \in DOMAIN again /\ again.pc = "again"
        BY DEF Resting
      <4>3. run' = [run EXCEPT ![e] = Resting] \/ run' = [run EXCEPT ![e] = again]
        BY <2>4 DEF EndPass, Turn
      <4> HIDE DEF again
      <4> QED BY <4>1, <4>2, <4>3
    <3>2. eviction' = [eviction EXCEPT ![e] = "none"]
      BY <2>4 DEF EndPass, EndEviction
    <3> QED BY <1>1, <3>1, <3>2 DEF PassesRun, Cleaning
  <2>5. CASE NextPass(e)
    BY <1>1, <2>5 DEF NextPass, CallEviction, GotoPass, Turn, PassesRun, Cleaning
  <2>6. CASE \/ Scan(e) \/ IndexLatest(e) \/ IndexListed(e) \/ PassOver(e)
             \/ RemoveFile(e) \/ PersistRow(e) \/ RemoveBlob(e) \/ MarkEvicted(e)
    <3>1. run[e].pc \in Cleaning /\ eviction' = eviction
      BY <2>6 DEF Scan, IndexLatest, IndexListed, PassOver, RemoveFile, PersistRow,
                  RemoveBlob, MarkEvicted, Cleaning, coordinatorVars
    <3>2. /\ DOMAIN run' = Evictors
          /\ \A f \in Evictors \ {e} : run'[f] = run[f]
          /\ "pc" \in DOMAIN run'[e]
      BY <1>1, <2>6 DEF Scan, IndexLatest, IndexListed, PassOver, RemoveFile, PersistRow,
                        RemoveBlob, MarkEvicted, GotoPass, NextRow, FailPass, Turn
    <3> QED BY <1>1, <3>1, <3>2 DEF PassesRun
  <2> QED BY <2>1, <2>2, <2>3, <2>4, <2>5, <2>6 DEF PassStep
<1> QED BY <1>3, <1>4, <1>5 DEF InFlightInv

LEMMA InFlightNext == InFlightInv /\ [RetentionNext]_retentionVars => InFlightInv'
<1> SUFFICES ASSUME InFlightInv, [RetentionNext]_retentionVars  PROVE InFlightInv'
  OBVIOUS
<1>1. CoordinatorInv'
  BY StepRefines, NextInv DEF InFlightInv
<1>2. ASSUME NEW t \in Tasks, TaskStep(t)  PROVE InFlightInv'
  BY <1>1, <1>2, TaskKeeps
<1>3. ASSUME NEW e \in Evictors, StartReconcile(e) \/ PassStep(e)  PROVE InFlightInv'
  BY <1>1, <1>3, CleanUpKeeps
<1>4. CASE HandlerStep
  <2>1. UNCHANGED <<coordinatorVars, versions, linked, files, blobs, task, run>>
    BY <1>4 DEF HandlerStep
  <2>2. DOMAIN pending' \subseteq Jobs /\ \A j \in DOMAIN pending' : pending'[j] \in Doc
    <3>1. /\ DOMAIN pending \subseteq Jobs /\ \A j \in DOMAIN pending : pending[j] \in Doc
          /\ linked \subseteq Versions
      BY DEF InFlightInv, DataType
    <3>2. \A v \in linked \union {NoVersion} : [path |-> FALSE, ver |-> v] \in Doc
      BY <3>1 DEF Doc
    <3>3. \/ pending' = pending
          \/ \E j \in DOMAIN pending : pending' = DeletePending(j)
          \/ \E j \in DOMAIN pending, v \in linked \union {NoVersion} :
                pending' = PutPending(j, [path |-> FALSE, ver |-> v])
      BY <1>4 DEF HandlerStep, Handlers
    <3> QED BY <3>1, <3>2, <3>3 DEF DeletePending, PutPending
  <2> QED BY <1>1, <2>1, <2>2 DEF InFlightInv, DataType, GuardsHeld, AllMade, PassesRun,
                                  coordinatorVars
<1>5. CASE RestartProcess
  <2>1. Idle \in TaskRecord /\ Idle.pc = "idle" /\ Idle.fresh = FALSE
    BY RetentionAssumption DEF Idle, TaskRecord, Stages, NoDoc, Doc
  <2>2. /\ task' = [t \in Tasks |-> Idle] /\ run' = [e \in Evictors |-> Resting]
        /\ UNCHANGED <<versions, linked, pending>>
    BY <1>5 DEF RestartProcess, storage
  <2>3. DataType'
    BY <2>1, <2>2 DEF InFlightInv, DataType
  <2>4. GuardsHeld' /\ AllMade'
    BY <2>1, <2>2 DEF GuardsHeld, AllMade, Holds, Made
  <2>5. PassesRun'
    BY <2>2 DEF PassesRun, Resting, Cleaning
  <2> QED BY <1>1, <2>3, <2>4, <2>5 DEF InFlightInv
<1>6. CASE UNCHANGED retentionVars
  BY <1>1, <1>6 DEF InFlightInv, DataType, GuardsHeld, AllMade, PassesRun, retentionVars,
                    storage, coordinatorVars
<1> QED BY <1>2, <1>3, <1>4, <1>5, <1>6 DEF RetentionNext

LEMMA InFlightInvariant == RetentionSpec => []InFlightInv
BY InFlightInit, InFlightNext, PTL DEF RetentionSpec

(* The file and the blob a submission or a preparation has just made are    *)
(* there until it leaves its guard, whatever clean-ups, failures, restarts  *)
(* and other tasks do in the meantime (RunEviction, runSubmit).             *)
THEOREM InFlightIsKept == RetentionSpec => []InFlightKept
<1>1. InFlightInv => InFlightKept
  BY DEF InFlightInv, AllMade, Made, Stored, Exported, InFlightKept
<1> QED BY <1>1, InFlightInvariant, PTL
-----------------------------------------------------------------------------
(* No document is lost.  The argument: links are never removed, and every  *)
(* version that a row names, or a task will write into one, is linked; and *)
(* of a linked version that cannot be rendered again no clean-up has the   *)
(* blob among its keys, since none is linked while a clean-up runs.        *)

Rows == [job : Jobs, doc : Doc]

Known == linked \union {NoVersion}

RowsLinked ==
    /\ \A i \in DOMAIN applied : applied[i].doc.ver \in Known
    /\ \A j \in DOMAIN pending : pending[j].ver \in Known
    /\ default \in Known

(* Only a version that is being saved is not linked yet. *)
Carries(r, known) ==
    /\ r.pc \in {"put", "link"} => r.fresh
    /\ r.pc \notin {"put", "link"} => r.doc.ver \in known

BlobsLinked ==
    /\ \A v \in linked : v \in ready \/ Artifact[v] \in blobs
    /\ \A e \in Evictors : "keys" \in DOMAIN run[e]
    /\ \A e \in Evictors : run[e].pc \in {"blobs", "mark"} =>
          \A v \in linked \ ready : Artifact[v] \notin run[e].keys

SurvivalInv ==
    /\ InFlightInv
    /\ applied \in Seq(Rows)
    /\ RowsLinked
    /\ \A t \in Tasks : Carries(task[t], Known)
    /\ BlobsLinked

LEMMA SurvivalInit == RetentionInit => SurvivalInv
<1> SUFFICES ASSUME RetentionInit  PROVE SurvivalInv
  OBVIOUS
<1>1. InFlightInv
  BY InFlightInit
<1> DEFINE j == CHOOSE k \in Jobs : TRUE
           v == CHOOSE w \in Versions : TRUE
           d == [path |-> TRUE, ver |-> v]
<1>2. j \in Jobs /\ v \in Versions
  BY RetentionAssumption
<1>3. /\ applied = <<[job |-> j, doc |-> d]>>
      /\ linked = {v} /\ blobs = {Artifact[v]} /\ default = NoVersion
      /\ task = [t \in Tasks |-> Idle] /\ run = [e \in Evictors |-> Resting]
  BY DEF RetentionInit
<1>4. pending \in {[k \in Jobs \ {j} |-> NoDoc], [k \in Jobs |-> IF k = j THEN d ELSE NoDoc]}
  BY DEF RetentionInit
<1>5. applied \in Seq(Rows)
  BY <1>2, <1>3 DEF Rows, Doc
<1>6. \A k \in DOMAIN pending : pending[k] \in {d, NoDoc}
  BY <1>4
<1>7. RowsLinked
  BY <1>3, <1>6 DEF RowsLinked, Known, NoDoc
<1>8. \A t \in Tasks : Carries(task[t], Known)
  BY <1>3 DEF Carries, Idle, NoDoc, Known
<1>9. BlobsLinked
  BY <1>3 DEF BlobsLinked, Resting
<1> QED BY <1>1, <1>5, <1>7, <1>8, <1>9 DEF SurvivalInv

(* A task that moves on, links nothing and removes nothing. *)
LEMMA TaskCarriesOn ==
    ASSUME SurvivalInv, InFlightInv', NEW t \in Tasks, NEW r, Become(t, r),
           Carries(r, Known), UNCHANGED <<linked, run>>,
           ready \subseteq ready', blobs \subseteq blobs',
           applied' \in Seq(Rows), RowsLinked'
    PROVE  SurvivalInv'
<1>1. task \in [Tasks -> TaskRecord]
  BY DEF SurvivalInv, InFlightInv, DataType
<1>2. \A s \in Tasks : task'[s] = IF s = t THEN r ELSE task[s]
  BY <1>1 DEF Become
<1>3. Known' = Known
  BY DEF Known
<1>4. \A s \in Tasks : Carries(task'[s], Known')
  BY <1>2, <1>3 DEF SurvivalInv
<1>5. BlobsLinked'
  BY DEF SurvivalInv, BlobsLinked
<1> QED BY <1>4, <1>5 DEF SurvivalInv

(* The same when no row is written either. *)
LEMMA TaskOnlyMoves ==
    ASSUME SurvivalInv, InFlightInv', NEW t \in Tasks, NEW r, Become(t, r),
           Carries(r, Known), UNCHANGED <<linked, run, applied, pending, default>>,
           ready \subseteq ready', blobs \subseteq blobs'
    PROVE  SurvivalInv'
<1>1. RowsLinked' /\ applied' \in Seq(Rows)
  BY DEF SurvivalInv, RowsLinked, Known
<1> QED BY <1>1, TaskCarriesOn

LEMMA TaskSurvives ==
    ASSUME SurvivalInv, InFlightInv', NEW t \in Tasks, TaskStep(t)
    PROVE  SurvivalInv'
<1>1. /\ task[t] \in TaskRecord /\ Carries(task[t], Known) /\ RowsLinked
      /\ applied \in Seq(Rows) /\ NoVersion \in Known
      /\ DOMAIN pending \subseteq Jobs /\ \A j \in DOMAIN pending : pending[j] \in Doc
  BY DEF SurvivalInv, InFlightInv, DataType, Known
<1>2. Idle.pc = "idle" /\ Idle.doc = NoDoc /\ Carries(Idle, Known)
  BY <1>1 DEF Idle, NoDoc, Carries
(* Steps that only move the task on. *)
<1>3. ASSUME NEW stage, Goto(t, stage), task[t].pc \notin {"put", "link"},
             stage \notin {"put", "link"}
      PROVE  \E r : Become(t, r) /\ Carries(r, Known)
  <2>1. /\ [task[t] EXCEPT !.pc = stage].pc = stage
        /\ [task[t] EXCEPT !.pc = stage].doc = task[t].doc
    BY <1>1 DEF TaskRecord
  <2> QED BY <1>1, <1>3, <2>1 DEF Goto, Carries
<1>4. OnHold(t) => \E r : Become(t, r) /\ Carries(r, Known)
  <2> DEFINE r == [task[t] EXCEPT !.pc = "unnest", !.doc = NoDoc, !.fresh = FALSE, !.hold = TRUE]
  <2>1. r.pc = "unnest" /\ r.doc = NoDoc
    BY <1>1 DEF TaskRecord
  <2> HIDE DEF r
  <2>2. Carries(r, Known)
    BY <1>1, <2>1 DEF Carries, NoDoc
  <2> QED BY <2>2 DEF OnHold, r
<1>5. ASSUME Approve(t) \/ Prepare(t) \/ AutoApply(t) \/ SetDefault(t)  PROVE SurvivalInv'
  <2>1. ASSUME NEW op, NEW j, NEW d, d.ver \in Known, Request(t, op, j, d)  PROVE SurvivalInv'
    <3> DEFINE r == [Idle EXCEPT !.pc = "enter", !.op = op, !.job = j, !.doc = d]
    <3>1. r.pc = "enter" /\ r.doc = d
      BY DEF Idle
    <3>2. Become(t, r)
      BY <2>1 DEF Request
    <3> HIDE DEF r
    <3>3. Carries(r, Known)
      BY <2>1, <3>1 DEF Carries
    <3> QED BY <2>1, <3>2, <3>3, TaskOnlyMoves DEF Request, storage
  <2>2. NoDoc.ver \in Known /\ \A j \in DOMAIN pending : pending[j].ver \in Known
    BY <1>1 DEF NoDoc, RowsLinked
  <2>3. CASE Approve(t)
    BY <2>1, <2>2, <2>3 DEF Approve
  <2>4. CASE Prepare(t)
    <3>1. PICK j \in DOMAIN pending : Request(t, "prepare", j, [path |-> FALSE, ver |-> pending[j].ver])
      BY <2>4 DEF Prepare
    <3>2. [path |-> FALSE, ver |-> pending[j].ver].ver \in Known
      BY <2>2
    <3> QED BY <2>1, <3>1, <3>2
  <2>5. CASE AutoApply(t)
    BY <2>1, <2>2, <2>5 DEF AutoApply
  <2>6. CASE SetDefault(t)
    <3>1. PICK v \in linked : Request(t, "default", Idle.job, [path |-> FALSE, ver |-> v])
      BY <2>6 DEF SetDefault
    <3>2. [path |-> FALSE, ver |-> v].ver \in Known
      BY DEF Known
    <3> QED BY <2>1, <3>1, <3>2
  <2> QED BY <1>5, <2>3, <2>4, <2>5, <2>6
<1>6. ASSUME NotEntered(t) \/ Leave(t)  PROVE SurvivalInv'
  BY <1>2, <1>6, TaskOnlyMoves DEF NotEntered, Leave, storage
<1>7. ASSUME Entered(t)  PROVE SurvivalInv'
  <2> DEFINE stage == CASE task[t].op = "approve" -> "apply"
                        [] task[t].op = "default" -> "default"
                        [] OTHER -> "materialize"
  <2>1. stage \in {"apply", "default", "materialize"}
    OBVIOUS
  <2>2. Goto(t, stage) /\ task[t].pc = "enter" /\ UNCHANGED <<storage, run>>
    BY <1>7 DEF Entered
  <2> HIDE DEF stage
  <2>3. \E r : Become(t, r) /\ Carries(r, Known)
    BY <1>3, <2>1, <2>2
  <2> QED BY <2>2, <2>3, TaskOnlyMoves DEF storage
<1>8. ASSUME Materialize(t) \/ Unnest(t) \/ Submitted(t)  PROVE SurvivalInv'
  <2>1. \E r : Become(t, r) /\ Carries(r, Known)
    BY <1>3, <1>8 DEF Materialize, Unnest, Submitted
  <2>2. UNCHANGED <<storage, run>>
    BY <1>8 DEF Materialize, Unnest, Submitted
  <2> QED BY <2>1, <2>2, TaskOnlyMoves DEF storage
<1>9. ASSUME ChooseVersion(t)  PROVE SurvivalInv'
  <2>1. \E r : Become(t, r) /\ Carries(r, Known)
    <3>1. /\ [task[t] EXCEPT !.pc = "unnest", !.doc = NoDoc].pc = "unnest"
          /\ [task[t] EXCEPT !.pc = "unnest", !.doc = NoDoc].doc = NoDoc
      BY <1>1 DEF TaskRecord
    <3>2. ASSUME NEW v \in linked
          PROVE  /\ [task[t] EXCEPT !.pc = "export", !.doc.ver = v].pc = "export"
                 /\ [task[t] EXCEPT !.pc = "export", !.doc.ver = v].doc.ver = v
      BY <1>1 DEF TaskRecord, Doc
    <3>3. Carries([task[t] EXCEPT !.pc = "unnest", !.doc = NoDoc], Known)
      BY <1>1, <3>1 DEF Carries, NoDoc
    <3>4. \A v \in linked : Carries([task[t] EXCEPT !.pc = "export", !.doc.ver = v], Known)
      BY <3>2 DEF Carries, Known
    <3> QED BY <1>9, <3>3, <3>4 DEF ChooseVersion
  <2> QED BY <1>9, <2>1, TaskOnlyMoves DEF ChooseVersion, storage
<1>10. ASSUME SaveVersion(t)  PROVE SurvivalInv'
  <2>1. PICK v \in Versions \ versions :
           Become(t, [task[t] EXCEPT !.pc = "put", !.doc.ver = v, !.fresh = TRUE])
    BY <1>10 DEF SaveVersion
  <2> DEFINE r == [task[t] EXCEPT !.pc = "put", !.doc.ver = v, !.fresh = TRUE]
  <2>2. r.pc = "put" /\ r.fresh = TRUE
    BY <1>1 DEF TaskRecord
  <2>3. Carries(r, Known)
    BY <2>2 DEF Carries
  <2> HIDE DEF r
  <2> QED BY <1>10, <2>1, <2>3, TaskOnlyMoves DEF SaveVersion, r
<1>11. ASSUME PutBlob(t)  PROVE SurvivalInv'
  <2> DEFINE r == [task[t] EXCEPT !.pc = "link"]
  <2>1. r.pc = "link" /\ r.fresh = task[t].fresh
    BY <1>1 DEF TaskRecord
  <2>2. Carries(r, Known)
    BY <1>1, <1>11, <2>1 DEF Carries, PutBlob
  <2> HIDE DEF r
  <2> QED BY <1>11, <2>2, TaskOnlyMoves DEF PutBlob, Goto, r
<1>12. ASSUME LinkFails(t)  PROVE SurvivalInv'
  BY <1>4, <1>12, TaskOnlyMoves DEF LinkFails
<1>13. ASSUME LinkArtifact(t)  PROVE SurvivalInv'
  <2> DEFINE r == [task[t] EXCEPT !.pc = "ready"]
             v == task[t].doc.ver
  <2>1. r.pc = "ready" /\ r.doc = task[t].doc
    BY <1>1 DEF TaskRecord
  <2>2. /\ task[t].pc = "link" /\ linked' = linked \union {v} /\ Become(t, r)
        /\ UNCHANGED <<applied, pending, default, ready, blobs, run>>
    BY <1>13 DEF LinkArtifact, Goto
  <2>3. task \in [Tasks -> TaskRecord]
    BY DEF SurvivalInv, InFlightInv, DataType
  <2>4. task[t].fresh /\ Artifact[v] \in blobs
    BY <1>1, <2>2 DEF Carries, SurvivalInv, InFlightInv, AllMade, Made, Stored
  <2>5. Holds(task[t].pc, depth[t])
    BY DEF SurvivalInv, InFlightInv, GuardsHeld
  <2>6. depth[t] # 0
    BY <2>2, <2>5 DEF Holds, Stages
  <2>7. \A e \in Evictors : eviction[e] # "running"
    BY <2>6 DEF SurvivalInv, InFlightInv, CoordinatorInv, CoordinatorTypeOK, Exclusive, Running, Working
  <2>8. \A e \in Evictors : run[e].pc \notin {"blobs", "mark"}
    BY <2>7 DEF SurvivalInv, InFlightInv, PassesRun, Cleaning
  <2>9. BlobsLinked'
    BY <2>2, <2>4, <2>8 DEF SurvivalInv, BlobsLinked
  <2>10. Known \subseteq Known' /\ v \in Known'
    BY <2>2 DEF Known
  <2>11. RowsLinked'
    BY <1>1, <2>2, <2>10 DEF RowsLinked
  <2> HIDE DEF r, v
  <2>12. Carries(r, Known')
    BY <2>1, <2>10 DEF Carries, v
  <2>13. \A s \in Tasks : task'[s] = IF s = t THEN r ELSE task[s]
    BY <2>2, <2>3 DEF Become
  <2>14. \A s \in Tasks : Carries(task'[s], Known')
    BY <2>10, <2>12, <2>13 DEF SurvivalInv, Carries
  <2> QED BY <1>1, <2>2, <2>9, <2>11, <2>14 DEF SurvivalInv
<1>14. ASSUME MarkReady(t)  PROVE SurvivalInv'
  <2>1. \E r : Become(t, r) /\ Carries(r, Known)
    BY <1>3, <1>14 DEF MarkReady
  <2> QED BY <1>14, <2>1, TaskOnlyMoves DEF MarkReady
<1>15. ASSUME Export(t)  PROVE SurvivalInv'
  <2> DEFINE r == [task[t] EXCEPT !.pc = "unnest", !.doc.path = TRUE]
  <2>1. r.pc = "unnest" /\ r.doc.ver = task[t].doc.ver
    BY <1>1 DEF TaskRecord, Doc
  <2>2. Carries(r, Known)
    BY <1>1, <1>15, <2>1 DEF Carries, Export
  <2> HIDE DEF r
  <2>3. \E q : Become(t, q) /\ Carries(q, Known)
    BY <1>4, <1>15, <2>2 DEF Export, r
  <2> QED BY <1>15, <2>3, TaskOnlyMoves DEF Export
(* Steps that write a row. *)
<1>20. ASSUME NEW stage, Goto(t, stage), task[t].pc \notin {"put", "link"}, stage \notin {"put", "link"},
              UNCHANGED <<linked, run, ready, blobs>>,
              applied' \in Seq(Rows), RowsLinked'
       PROVE  SurvivalInv'
  <2>1. PICK r : Become(t, r) /\ Carries(r, Known)
    BY <1>3, <1>20
  <2> QED BY <1>20, <2>1, TaskCarriesOn
<1>21. task[t].pc \notin {"put", "link"} => task[t].doc \in Doc /\ task[t].doc.ver \in Known
  BY <1>1 DEF Carries, TaskRecord
<1>22. ASSUME NEW j, NEW d, d.ver \in Known
       PROVE  /\ \A k \in DOMAIN PutPending(j, d) : PutPending(j, d)[k].ver \in Known
              /\ \A k \in DOMAIN DeletePending(j) : DeletePending(j)[k].ver \in Known
  BY <1>1, <1>22 DEF PutPending, DeletePending, RowsLinked
<1>23. ASSUME UNCHANGED <<linked, default, applied>>,
              \A k \in DOMAIN pending' : pending'[k].ver \in Known
       PROVE  RowsLinked' /\ applied' \in Seq(Rows)
  BY <1>1, <1>23 DEF RowsLinked, Known
<1>24. ASSUME WriteDefault(t)  PROVE SurvivalInv'
  <2>1. /\ task[t].pc = "default" /\ default' = task[t].doc.ver /\ Goto(t, "leave")
        /\ UNCHANGED <<linked, run, ready, blobs, applied, pending>>
    BY <1>24 DEF WriteDefault
  <2>2. RowsLinked'
    BY <1>1, <1>21, <2>1 DEF RowsLinked, Known
  <2> QED BY <1>1, <1>20, <2>1, <2>2
<1>25. ASSUME NotSubmitted(t)  PROVE SurvivalInv'
  <2> DEFINE j == task[t].job
             d == task[t].doc
             kept == IF j \in DOMAIN pending THEN pending[j] ELSE NoDoc
             merged == [path |-> d.path \/ kept.path,
                        ver |-> IF d.ver # NoVersion THEN d.ver ELSE kept.ver]
  <2>1. /\ task[t].pc = "apply" /\ Goto(t, "leave")
        /\ UNCHANGED <<linked, run, ready, blobs, applied, default>>
        /\ pending' \in {pending, PutPending(j, kept), PutPending(j, NoDoc), PutPending(j, merged)}
    BY <1>25 DEF NotSubmitted
  <2>2. kept.ver \in Known /\ NoDoc.ver \in Known
    BY <1>1 DEF RowsLinked, NoDoc
  <2>3. merged.ver \in Known
    BY <1>21, <2>1, <2>2
  <2> HIDE DEF kept, merged
  <2>4. \A k \in DOMAIN pending' : pending'[k].ver \in Known
    BY <1>1, <1>22, <2>1, <2>2, <2>3 DEF RowsLinked
  <2> QED BY <1>20, <1>23, <2>1, <2>4
<1>26. ASSUME Prepared(t)  PROVE SurvivalInv'
  <2>1. /\ task[t].pc = "apply" /\ Goto(t, "leave")
        /\ UNCHANGED <<linked, run, ready, blobs, applied, default>>
        /\ pending' \in {pending, PutPending(task[t].job, task[t].doc)}
    BY <1>26 DEF Prepared
  <2>2. \A k \in DOMAIN pending' : pending'[k].ver \in Known
    BY <1>1, <1>21, <1>22, <2>1 DEF RowsLinked
  <2> QED BY <1>20, <1>23, <2>1, <2>2
<1>27. ASSUME PublishPending(t)  PROVE SurvivalInv'
  <2>1. /\ task[t].pc = "delete" /\ Goto(t, "leave")
        /\ UNCHANGED <<linked, run, ready, blobs, applied, default>>
        /\ pending' \in {pending, DeletePending(task[t].job)}
    BY <1>27 DEF PublishPending
  <2>2. \A k \in DOMAIN pending' : pending'[k].ver \in Known
    BY <1>1, <1>21, <1>22, <2>1 DEF RowsLinked
  <2> QED BY <1>20, <1>23, <2>1, <2>2
<1>28. ASSUME PublishApplied(t)  PROVE SurvivalInv'
  <2>1. PICK stage \in {"delete", "leave"} : Goto(t, stage)
    BY <1>28 DEF PublishApplied
  <2>2. /\ task[t].pc = "insert" /\ UNCHANGED <<linked, run, ready, blobs, pending, default>>
        /\ applied' \in {applied, <<[job |-> task[t].job, doc |-> task[t].doc]>> \o applied}
    BY <1>28 DEF PublishApplied, InsertApplied
  <2> DEFINE line == [job |-> task[t].job, doc |-> task[t].doc]
  <2>3. line \in Rows /\ line.doc.ver \in Known
    BY <1>1, <1>21, <2>2 DEF Rows, TaskRecord
  <2> HIDE DEF line
  <2>4. applied' \in Seq(Rows) /\ \A i \in DOMAIN applied' : applied'[i].doc.ver \in Known
    <3>1. <<line>> \in Seq(Rows) /\ Len(<<line>>) = 1 /\ <<line>>[1] = line
      BY <2>3
    <3>2. <<line>> \o applied \in Seq(Rows)
      BY <1>1, <3>1
    <3>3. \A i \in DOMAIN (<<line>> \o applied) :
             (<<line>> \o applied)[i] = line \/ \E k \in DOMAIN applied : (<<line>> \o applied)[i] = applied[k]
      BY <1>1, <3>1, <3>2
    <3> QED BY <1>1, <2>2, <2>3, <3>2, <3>3 DEF RowsLinked, line
  <2>5. RowsLinked'
    BY <1>1, <2>2, <2>4 DEF RowsLinked, Known
  <2> QED BY <1>20, <2>1, <2>2, <2>4, <2>5
<1> QED BY <1>5, <1>6, <1>7, <1>8, <1>9, <1>10, <1>11, <1>12, <1>13, <1>14, <1>15,
           <1>24, <1>25, <1>26, <1>27, <1>28 DEF TaskStep

(* A clean-up tells a row that its file is gone, and removes blobs.         *)
LEMMA CleanUpSpares ==
    ASSUME SurvivalInv, InFlightInv', NEW e \in Evictors, StartReconcile(e) \/ PassStep(e)
    PROVE  SurvivalInv'
<1>1. UNCHANGED <<task, linked, ready, pending, default>>
  BY DEF StartReconcile, PassStep, EnterPass, AbandonPass, Scan, IndexLatest,
         IndexListed, PassOver, RemoveFile, PersistRow, RemoveBlob, MarkEvicted,
         EndPass, NextPass, storage
<1>2. /\ DOMAIN run = Evictors /\ \A f \in Evictors : "pc" \in DOMAIN run[f] /\ "keys" \in DOMAIN run[f]
      /\ applied \in Seq(Rows) /\ RowsLinked
  BY DEF SurvivalInv, InFlightInv, PassesRun, BlobsLinked
<1>3. \A t \in Tasks : Carries(task'[t], Known')
  BY <1>1 DEF SurvivalInv, Known
<1>4. applied' \in Seq(Rows) /\ \A i \in DOMAIN applied' : applied'[i].doc.ver \in Known
  <2>1. CASE applied' = applied
    BY <1>2, <2>1 DEF RowsLinked
  <2>2. CASE applied' # applied
    <3> DEFINE job == Head(run[e].rows).job
               line(i) == IF applied[i].job = job THEN [applied[i] EXCEPT !.doc.path = FALSE]
                                                  ELSE applied[i]
    <3>1. PersistRow(e)
      BY <2>2 DEF StartReconcile, PassStep, EnterPass, AbandonPass, Scan, IndexLatest,
                  IndexListed, PassOver, RemoveFile, RemoveBlob, MarkEvicted,
                  EndPass, NextPass, storage
    <3>2. applied' = [i \in DOMAIN applied |-> line(i)]
      BY <2>2, <3>1 DEF PersistRow
    <3>3. DOMAIN applied = 1..Len(applied) /\ Len(applied) \in Nat
          /\ \A i \in DOMAIN applied : applied[i] \in Rows
      BY <1>2
    <3>4. \A i \in DOMAIN applied : line(i) \in Rows /\ line(i).doc.ver = applied[i].doc.ver
      BY <3>3 DEF Rows, Doc
    <3> HIDE DEF line
    <3>5. applied' \in [1..Len(applied) -> Rows]
      BY <3>2, <3>3, <3>4
    <3>6. applied' \in Seq(Rows)
      BY <3>3, <3>5, SeqDef
    <3> QED BY <1>2, <3>2, <3>4, <3>6 DEF RowsLinked
  <2> QED BY <2>1, <2>2
<1>5. RowsLinked'
  BY <1>1, <1>2, <1>4 DEF RowsLinked, Known
<1>6. \A v \in linked' : v \in ready' \/ Artifact[v] \in blobs'
  <2>1. CASE blobs' = blobs
    BY <1>1, <2>1 DEF SurvivalInv, BlobsLinked
  <2>2. CASE blobs' # blobs
    <3>1. RemoveBlob(e)
      BY <2>2 DEF StartReconcile, PassStep, EnterPass, AbandonPass, Scan, IndexLatest,
                  IndexListed, PassOver, RemoveFile, PersistRow, MarkEvicted,
                  EndPass, NextPass, storage
    <3>2. run[e].pc = "blobs" /\ Key(e) \in run[e].keys /\ blobs' = blobs \ {Key(e)}
      BY <2>2, <3>1 DEF RemoveBlob, Key
    <3> QED BY <1>1, <3>2 DEF SurvivalInv, BlobsLinked
  <2> QED BY <2>1, <2>2
<1>7. ASSUME NEW r, Turn(e, r), "keys" \in DOMAIN r,
             r.pc \in {"blobs", "mark"} => \A v \in linked \ ready : Artifact[v] \notin r.keys
      PROVE  SurvivalInv'
  <2>1. \A f \in Evictors : run'[f] = IF f = e THEN r ELSE run[f]
    BY <1>2, <1>7 DEF Turn
  <2>2. BlobsLinked'
    BY <1>1, <1>6, <1>7, <2>1 DEF SurvivalInv, BlobsLinked
  <2> QED BY <1>3, <1>4, <1>5, <2>2 DEF SurvivalInv
<1>8. ASSUME NEW r, Turn(e, r), "keys" \in DOMAIN r, r.pc \notin {"blobs", "mark"}
      PROVE  SurvivalInv'
  BY <1>7, <1>8
<1>9. run[e].pc \in {"blobs", "mark"} => \A v \in linked \ ready : Artifact[v] \notin run[e].keys
  BY DEF SurvivalInv, BlobsLinked
<1>10. ASSUME NEW stage, stage \notin {"blobs", "mark"}, GotoPass(e, stage)  PROVE SurvivalInv'
  <2>1. [run[e] EXCEPT !.pc = stage].pc = stage /\ "keys" \in DOMAIN [run[e] EXCEPT !.pc = stage]
    BY <1>2
  <2> QED BY <1>8, <1>10, <2>1 DEF GotoPass
<1>11. FailPass(e) => SurvivalInv'
  <2> DEFINE r == [run[e] EXCEPT !.pc = "end", !.err = TRUE]
  <2>1. r.pc = "end" /\ "keys" \in DOMAIN r
    BY <1>2
  <2> HIDE DEF r
  <2> QED BY <1>8, <2>1 DEF FailPass, r
<1>12. NextRow(e) => SurvivalInv'
  <2> DEFINE r == [run[e] EXCEPT !.pc = "next", !.rows = Tail(@)]
  <2>1. r.pc = "next" /\ "keys" \in DOMAIN r
    BY <1>2
  <2> HIDE DEF r
  <2> QED BY <1>8, <2>1 DEF NextRow, r
<1>13. "keys" \in DOMAIN Resting /\ Resting.pc = "idle"
  BY DEF Resting
<1>20. CASE StartReconcile(e)
  <2>1. PICK first : Turn(e, [run[e] EXCEPT !.pc = "enter", !.pass = first])
    BY <1>20 DEF StartReconcile
  <2> DEFINE r == [run[e] EXCEPT !.pc = "enter", !.pass = first]
  <2>2. r.pc = "enter" /\ "keys" \in DOMAIN r
    BY <1>2
  <2> HIDE DEF r
  <2> QED BY <1>8, <2>1, <2>2 DEF r
<1>21. CASE EnterPass(e) \/ NextPass(e)
  BY <1>10, <1>21 DEF EnterPass, NextPass
<1>22. CASE AbandonPass(e)
  BY <1>8, <1>13, <1>22 DEF AbandonPass
<1>23. CASE Scan(e)
  <2> DEFINE r == [run[e] EXCEPT !.pc = "next",
                                 !.limit = limit,
                                 !.rows = Candidates(limit),
                                 !.ready = ready,
                                 !.evictable = {v \in ready \intersect linked :
                                                  Artifact[v] \notin evictedAt},
                                 !.busy = Candidates(limit) # <<>>]
  <2>1. r.pc = "next" /\ "keys" \in DOMAIN r
    BY <1>2
  <2>2. Turn(e, r) \/ FailPass(e)
    BY <1>23 DEF Scan
  <2> HIDE DEF r
  <2> QED BY <1>8, <1>11, <2>1, <2>2
<1>24. CASE IndexLatest(e)
  <2> DEFINE r == [run[e] EXCEPT !.pc = "listed",
                                 !.paths = LatestPaths(run[e].limit),
                                 !.vers = LatestVersions(run[e].limit)]
  <2>1. r.pc = "listed" /\ "keys" \in DOMAIN r
    BY <1>2
  <2>2. Turn(e, r) \/ FailPass(e) \/ NextRow(e)
    BY <1>24 DEF IndexLatest
  <2> HIDE DEF r
  <2> QED BY <1>8, <1>11, <1>12, <2>1, <2>2
<1>25. CASE IndexListed(e)
  <2> DEFINE paths == run[e].paths \union ListedPaths
             vers == run[e].vers \union ListedVersions
             keys == {Artifact[v] : v \in run[e].evictable \ vers} \ ProtectedBlobs(vers)
             r == [run[e] EXCEPT !.pc = "blobs", !.keys = keys]
             q == [run[e] EXCEPT !.pc = "remove", !.paths = paths]
  <2>1. Turn(e, r) \/ Turn(e, q)
    BY <1>25 DEF IndexListed
  <2>2. \A v \in linked \ ready : Artifact[v] \notin keys
    BY DEF ProtectedBlobs
  <2> HIDE DEF keys, paths
  <2>3. "keys" \in DOMAIN r /\ r.keys = keys /\ "keys" \in DOMAIN q /\ q.pc = "remove"
    BY <1>2
  <2> HIDE DEF r, q
  <2> QED BY <1>7, <1>8, <2>1, <2>2, <2>3
<1>26. CASE PassOver(e)
  BY <1>12, <1>26 DEF PassOver
<1>27. CASE RemoveFile(e)
  BY <1>10, <1>12, <1>27 DEF RemoveFile
<1>28. CASE PersistRow(e)
  BY <1>12, <1>28 DEF PersistRow
<1>29. CASE RemoveBlob(e)
  <2> DEFINE r == [run[e] EXCEPT !.pc = "mark"]
             q == [run[e] EXCEPT !.keys = @ \ {Key(e)}, !.err = TRUE]
  <2>1. run[e].pc = "blobs" /\ (Turn(e, r) \/ Turn(e, q))
    BY <1>29 DEF RemoveBlob, GotoPass
  <2>2. /\ "keys" \in DOMAIN r /\ r.keys = run[e].keys
        /\ "keys" \in DOMAIN q /\ q.keys \subseteq run[e].keys
    BY <1>2
  <2> HIDE DEF r, q
  <2> QED BY <1>7, <1>9, <2>1, <2>2
<1>30. CASE MarkEvicted(e)
  <2> DEFINE r == [run[e] EXCEPT !.pc = "blobs", !.keys = @ \ {Key(e)}, !.busy = TRUE]
  <2>1. run[e].pc = "mark" /\ (Turn(e, r) \/ FailPass(e))
    BY <1>30 DEF MarkEvicted
  <2>2. "keys" \in DOMAIN r /\ r.keys \subseteq run[e].keys
    BY <1>2
  <2> HIDE DEF r
  <2> QED BY <1>7, <1>9, <1>11, <2>1, <2>2
<1>31. CASE EndPass(e)
  <2> DEFINE r == [Resting EXCEPT !.pc = "again", !.pass = run[e].pass + 1]
  <2>1. Turn(e, Resting) \/ Turn(e, r)
    BY <1>31 DEF EndPass
  <2>2. "keys" \in DOMAIN r /\ r.pc = "again"
    BY <1>13 DEF Resting
  <2> HIDE DEF r
  <2> QED BY <1>8, <1>13, <2>1, <2>2
<1> QED BY <1>20, <1>21, <1>22, <1>23, <1>24, <1>25, <1>26, <1>27, <1>28, <1>29, <1>30, <1>31 DEF PassStep

LEMMA SurvivalNext == SurvivalInv /\ [RetentionNext]_retentionVars => SurvivalInv'
<1> SUFFICES ASSUME SurvivalInv, [RetentionNext]_retentionVars  PROVE SurvivalInv'
  OBVIOUS
<1>1. InFlightInv'
  BY InFlightNext DEF SurvivalInv
<1>2. ASSUME NEW t \in Tasks, TaskStep(t)  PROVE SurvivalInv'
  BY <1>1, <1>2, TaskSurvives
<1>3. ASSUME NEW e \in Evictors, StartReconcile(e) \/ PassStep(e)  PROVE SurvivalInv'
  BY <1>1, <1>3, CleanUpSpares
<1>4. CASE HandlerStep
  <2>1. UNCHANGED <<linked, ready, blobs, default, task, run>> /\ Handlers
    BY <1>4 DEF HandlerStep
  <2>2. /\ applied \in Seq(Rows) /\ RowsLinked /\ NoVersion \in Known
        /\ NoDoc.ver = NoVersion
        /\ DOMAIN pending \subseteq Jobs
    BY DEF SurvivalInv, Known, NoDoc, InFlightInv, DataType
  <2>3. \A j : \A k \in DOMAIN DeletePending(j) : DeletePending(j)[k].ver \in Known
    BY <2>2 DEF DeletePending, RowsLinked
  <2>4. \A j : \A v \in Known :
           \A k \in DOMAIN PutPending(j, [path |-> FALSE, ver |-> v]) :
              PutPending(j, [path |-> FALSE, ver |-> v])[k].ver \in Known
    BY <2>2 DEF PutPending, RowsLinked
  <2>5. \A k \in DOMAIN pending' : pending'[k].ver \in Known
    BY <2>1, <2>2, <2>3, <2>4 DEF Handlers, RowsLinked, Known
  <2>6. applied' \in Seq(Rows) /\ \A i \in DOMAIN applied' : applied'[i].doc.ver \in Known
    <3>1. CASE applied' = applied
      BY <2>2, <3>1 DEF RowsLinked
    <3>2. ASSUME NEW j \in DOMAIN pending, applied' = InsertApplied(j, NoDoc), applied' # applied
          PROVE  applied' \in Seq(Rows) /\ \A i \in DOMAIN applied' : applied'[i].doc.ver \in Known
      <4> DEFINE line == [job |-> j, doc |-> NoDoc]
      <4>1. applied' = <<line>> \o applied
        BY <3>2 DEF InsertApplied
      <4>2. line \in Rows /\ line.doc.ver \in Known
        BY <2>2 DEF Rows, NoDoc, Doc
      <4> HIDE DEF line
      <4>3. <<line>> \in Seq(Rows) /\ Len(<<line>>) = 1 /\ <<line>>[1] = line
        BY <4>2
      <4>4. <<line>> \o applied \in Seq(Rows)
        BY <2>2, <4>3
      <4>5. \A i \in DOMAIN (<<line>> \o applied) :
              (<<line>> \o applied)[i] = line \/ \E k \in DOMAIN applied : (<<line>> \o applied)[i] = applied[k]
        BY <2>2, <4>3, <4>4
      <4> QED BY <2>2, <4>1, <4>2, <4>4, <4>5 DEF RowsLinked
    <3>3. ASSUME NEW i \in DOMAIN applied,
                 applied' = SubSeq(applied, 1, i - 1) \o SubSeq(applied, i + 1, Len(applied))
          PROVE  applied' \in Seq(Rows) /\ \A n \in DOMAIN applied' : applied'[n].doc.ver \in Known
      <4> DEFINE before == SubSeq(applied, 1, i - 1)
                 after == SubSeq(applied, i + 1, Len(applied))
      <4>1. i \in 1..Len(applied) /\ Len(applied) \in Nat
        BY <2>2
      <4>2. /\ before \in Seq(Rows) /\ Len(before) = i - 1
            /\ \A k \in 1..(i - 1) : before[k] = applied[k]
        BY <2>2, <4>1
      <4>3. /\ after \in Seq(Rows) /\ Len(after) = Len(applied) - i
            /\ \A k \in 1..(Len(applied) - i) : after[k] = applied[k + i]
        BY <2>2, <4>1
      <4>8. applied' = before \o after
        BY <3>3
      <4> HIDE DEF before, after
      <4>4. before \o after \in Seq(Rows)
        BY <4>2, <4>3
      <4>5. \A n \in DOMAIN (before \o after) :
               \/ \E k \in DOMAIN before : (before \o after)[n] = before[k]
               \/ \E k \in DOMAIN after : (before \o after)[n] = after[k]
        BY <4>2, <4>3, <4>4
      <4>6. \A k \in DOMAIN before : before[k].doc.ver \in Known
        BY <2>2, <4>1, <4>2 DEF RowsLinked
      <4>7. \A k \in DOMAIN after : after[k].doc.ver \in Known
        <5> SUFFICES ASSUME NEW k \in DOMAIN after  PROVE after[k].doc.ver \in Known
          OBVIOUS
        <5>1. k \in 1..(Len(applied) - i)
          BY <4>1, <4>3
        <5>2. k + i \in DOMAIN applied
          BY <2>2, <4>1, <5>1
        <5> QED BY <2>2, <4>3, <5>1, <5>2 DEF RowsLinked
      <4>9. \A n \in DOMAIN applied' : applied'[n].doc.ver \in Known
        <5> SUFFICES ASSUME NEW n \in DOMAIN applied'  PROVE applied'[n].doc.ver \in Known
          OBVIOUS
        <5>1. CASE \E k \in DOMAIN before : applied'[n] = before[k]
          BY <4>6, <5>1
        <5>2. CASE \E k \in DOMAIN after : applied'[n] = after[k]
          BY <4>7, <5>2
        <5> QED BY <4>5, <4>8, <5>1, <5>2
      <4> QED BY <4>4, <4>8, <4>9
    <3> QED BY <2>1, <3>1, <3>2, <3>3 DEF Handlers
  <2>7. RowsLinked'
    BY <2>1, <2>2, <2>5, <2>6 DEF RowsLinked, Known
  <2> QED BY <1>1, <2>1, <2>6, <2>7 DEF SurvivalInv, BlobsLinked, Known
<1>5. CASE RestartProcess
  <2>1. /\ task' = [t \in Tasks |-> Idle] /\ run' = [e \in Evictors |-> Resting]
        /\ UNCHANGED storage
    BY <1>5 DEF RestartProcess
  <2>2. \A t \in Tasks : Carries(task'[t], Known')
    BY <2>1 DEF Carries, Idle, NoDoc, Known
  <2>3. BlobsLinked'
    BY <2>1 DEF SurvivalInv, BlobsLinked, Resting, storage
  <2> QED BY <1>1, <2>1, <2>2, <2>3 DEF SurvivalInv, RowsLinked, Known, storage
<1>6. CASE UNCHANGED retentionVars
  BY <1>1, <1>6 DEF SurvivalInv, RowsLinked, BlobsLinked, Known, retentionVars, storage
<1> QED BY <1>2, <1>3, <1>4, <1>5, <1>6 DEF RetentionNext

(* The version of a recorded application, of a listed one and of the        *)
(* default stays readable, whatever clean-ups, failing statements, restarts *)
(* and handlers do, and however many versions share an artifact             *)
(* (buildProtectionIndex, evictOrphanArtifactBlobs).                        *)
THEOREM NoDocumentIsLost == RetentionSpec => []DocumentsSurvive
<1>1. SurvivalInv => DocumentsSurvive
  BY DEF SurvivalInv, RowsLinked, BlobsLinked, Known, DocumentsSurvive, LatestVersions,
         Latest, ListedVersions, Readable
<1> QED BY <1>1, SurvivalInit, SurvivalNext, PTL DEF RetentionSpec

-----------------------------------------------------------------------------
(* Who holds the lock.                                                     *)

(* How many guards a task holds, by where it is, and where an eviction is, *)
(* by where its clean-up is.                                               *)
GuardsAt(stage) ==
    CASE stage \in {"idle", "enter"} -> 0
      [] stage \in {"put", "link", "ready", "export", "unnest"} -> 2
      [] OTHER -> 1
EvictionAt(stage) ==
    CASE stage \in {"idle", "again"} -> "none" [] stage = "enter" -> "waiting" [] OTHER -> "running"

GuardsFollow(t) ==
    /\ depth[t] = GuardsAt(task[t].pc)
    /\ t \in beginning <=> task[t].pc \in {"enter", "nested"}
EvictionFollows(e) ==
    /\ run[e].pc \in Cleaning \union {"idle", "again", "enter"}
    /\ eviction[e] = EvictionAt(run[e].pc)
FollowInv == (\A t \in Tasks : GuardsFollow(t)) /\ (\A e \in Evictors : EvictionFollows(e))

(* The lock is taken exactly while somebody works under it: the count is   *)
(* zero when and only when no task is past its guard, the flag is set when *)
(* and only when a clean-up is in its pass, and a task that is done waits  *)
(* for nothing.                                                            *)
NoGuardLeaks ==
    /\ activeWork = 0 <=> \A t \in Tasks : task[t].pc \in {"idle", "enter"}
    /\ evicting <=> \E e \in Evictors : run[e].pc \in Cleaning
    /\ \A t \in Tasks : task[t].pc = "idle" => t \notin beginning

(* One task goes on as its guards say. *)
LEMMA TaskFollows ==
    ASSUME InFlightInv, FollowInv, NEW t \in Tasks, NEW r, Become(t, r),
           depth' = [depth EXCEPT ![t] = GuardsAt(r.pc)],
           t \in beginning' <=> r.pc \in {"enter", "nested"},
           \A u \in Tasks \ {t} : u \in beginning' <=> u \in beginning,
           UNCHANGED <<eviction, run>>
    PROVE  FollowInv'
<1>1. /\ task'[t] = r /\ depth'[t] = GuardsAt(r.pc)
      /\ \A u \in Tasks \ {t} : task'[u] = task[u] /\ depth'[u] = depth[u]
  BY DEF Become, InFlightInv, DataType, CoordinatorInv, CoordinatorTypeOK
<1>2. \A u \in Tasks : GuardsFollow(u)'
  BY <1>1 DEF FollowInv, GuardsFollow
<1> QED BY <1>2 DEF FollowInv, EvictionFollows

(* One clean-up goes on as its eviction says. *)
LEMMA PassFollows ==
    ASSUME InFlightInv, FollowInv, NEW e \in Evictors, NEW r, Turn(e, r),
           r.pc \in Cleaning \union {"idle", "again", "enter"},
           eviction' = [eviction EXCEPT ![e] = EvictionAt(r.pc)],
           UNCHANGED <<depth, beginning, task>>
    PROVE  FollowInv'
<1>1. /\ run'[e] = r /\ eviction'[e] = EvictionAt(r.pc)
      /\ \A f \in Evictors \ {e} : run'[f] = run[f] /\ eviction'[f] = eviction[f]
  BY DEF Turn, InFlightInv, PassesRun, CoordinatorInv, CoordinatorTypeOK
<1>2. \A f \in Evictors : EvictionFollows(f)'
  BY <1>1 DEF FollowInv, EvictionFollows
<1> QED BY <1>2 DEF FollowInv, GuardsFollow

LEMMA FollowInit == RetentionInit => FollowInv
BY DEF RetentionInit, CoordinatorInit, Idle, Resting, FollowInv, GuardsFollow, EvictionFollows, GuardsAt, EvictionAt

(* The steps that ask for a guard, get one, give one back, or do neither.  *)
LEMMA Asks ==
    ASSUME InFlightInv, FollowInv, NEW t \in Tasks, NEW r, Become(t, r), CallBeginWork(t), UNCHANGED run,
           r.pc \in {"enter", "nested"}, GuardsAt(r.pc) = GuardsAt(task[t].pc)
    PROVE  FollowInv'
<1>1. depth' = [depth EXCEPT ![t] = GuardsAt(r.pc)]
  BY DEF CallBeginWork, FollowInv, GuardsFollow, InFlightInv, CoordinatorInv, CoordinatorTypeOK
<1> QED BY <1>1, TaskFollows DEF CallBeginWork

LEMMA Gets ==
    ASSUME InFlightInv, FollowInv, NEW t \in Tasks, NEW r, Become(t, r), BeginWork(t), UNCHANGED run,
           r.pc \notin {"enter", "nested"}, GuardsAt(r.pc) = GuardsAt(task[t].pc) + 1
    PROVE  FollowInv'
<1>1. depth' = [depth EXCEPT ![t] = GuardsAt(r.pc)]
  BY DEF BeginWork, FollowInv, GuardsFollow, InFlightInv, CoordinatorInv, CoordinatorTypeOK
<1> QED BY <1>1, TaskFollows DEF BeginWork

LEMMA GivesBack ==
    ASSUME InFlightInv, FollowInv, NEW t \in Tasks, NEW r, Become(t, r), EndWork(t), UNCHANGED run,
           r.pc \notin {"enter", "nested"}, GuardsAt(r.pc) = GuardsAt(task[t].pc) - 1
    PROVE  FollowInv'
<1>1. depth' = [depth EXCEPT ![t] = GuardsAt(r.pc)]
  BY DEF EndWork, FollowInv, GuardsFollow, InFlightInv, CoordinatorInv, CoordinatorTypeOK
<1> QED BY <1>1, TaskFollows DEF EndWork

LEMMA Keeps ==
    ASSUME InFlightInv, FollowInv, NEW t \in Tasks, NEW r, Become(t, r), UNCHANGED <<coordinatorVars, run>>,
           task[t].pc \notin {"enter", "nested"}, r.pc \notin {"enter", "nested"},
           GuardsAt(r.pc) = GuardsAt(task[t].pc)
    PROVE  FollowInv'
<1>1. depth' = [depth EXCEPT ![t] = GuardsAt(r.pc)]
  BY DEF coordinatorVars, FollowInv, GuardsFollow, InFlightInv, CoordinatorInv, CoordinatorTypeOK
<1> QED BY <1>1, TaskFollows DEF coordinatorVars, FollowInv, GuardsFollow

(* What a task does keeps it so, failures included, *)
LEMMA TaskStepFollows ==
    ASSUME InFlightInv, FollowInv, NEW t \in Tasks, TaskStep(t)
    PROVE  FollowInv'
<1>0. /\ task[t] \in TaskRecord
      /\ \A at : [task[t] EXCEPT !.pc = at].pc = at
      /\ Idle.pc = "idle"
  BY DEF InFlightInv, DataType, TaskRecord, Idle
<1>1. CASE Approve(t) \/ Prepare(t) \/ AutoApply(t) \/ SetDefault(t)
  <2>1. PICK op, j, d : Request(t, op, j, d)
    BY <1>1 DEF Approve, Prepare, AutoApply, SetDefault
  <2> DEFINE r == [Idle EXCEPT !.pc = "enter", !.op = op, !.job = j, !.doc = d]
  <2>2. r.pc = "enter"
    BY DEF Idle
  <2>3. Become(t, r) /\ CallBeginWork(t) /\ UNCHANGED run /\ task[t].pc = "idle"
    BY <2>1 DEF Request
  <2>4. GuardsAt("enter") = 0 /\ GuardsAt("idle") = 0
    BY DEF GuardsAt
  <2> HIDE DEF r
  <2> QED BY <2>2, <2>3, <2>4, Asks
<1>2. CASE Entered(t)
  <2>1. PICK at \in {"apply", "default", "materialize"} : Goto(t, at)
    BY <1>2 DEF Entered
  <2>2. task[t].pc = "enter" /\ BeginWork(t) /\ UNCHANGED run
    BY <1>2 DEF Entered
  <2>3. GuardsAt("enter") = 0 /\ GuardsAt(at) = 1
    BY <2>1 DEF GuardsAt
  <2> DEFINE r == [task[t] EXCEPT !.pc = at]
  <2>4. Become(t, r) /\ r.pc = at
    BY <1>0, <2>1 DEF Goto
  <2> HIDE DEF r
  <2> QED BY <2>1, <2>2, <2>3, <2>4, Gets
<1>3. CASE NotEntered(t)
  <2>1. task[t].pc = "enter" /\ AbandonBeginWork(t) /\ Become(t, Idle) /\ UNCHANGED run
    BY <1>3 DEF NotEntered
  <2>2. GuardsAt("enter") = 0 /\ GuardsAt("idle") = 0
    BY DEF GuardsAt
  <2>3. depth' = [depth EXCEPT ![t] = GuardsAt(Idle.pc)]
    BY <1>0, <2>1, <2>2 DEF AbandonBeginWork, FollowInv, GuardsFollow, InFlightInv, CoordinatorInv, CoordinatorTypeOK
  <2> QED BY <1>0, <2>1, <2>3, TaskFollows DEF AbandonBeginWork
<1>4. CASE Materialize(t)
  <2>1. GuardsAt("nested") = 1 /\ GuardsAt("materialize") = 1
    BY DEF GuardsAt
  <2> QED BY <1>0, <1>4, <2>1, Asks DEF Materialize, Goto
<1>5. CASE ChooseVersion(t) \/ SaveVersion(t)
  <2>1. PICK r : Become(t, r) /\ r.pc \in {"unnest", "export", "put"}
    <3>1. CASE ChooseVersion(t)
      <4>1. \A v : [task[t] EXCEPT !.pc = "export", !.doc.ver = v].pc = "export"
        BY <1>0 DEF TaskRecord
      <4>2. [task[t] EXCEPT !.pc = "unnest", !.doc = NoDoc].pc = "unnest"
        BY <1>0 DEF TaskRecord
      <4> QED BY <3>1, <4>1, <4>2 DEF ChooseVersion
    <3>2. CASE SaveVersion(t)
      <4>1. \A v : [task[t] EXCEPT !.pc = "put", !.doc.ver = v, !.fresh = TRUE].pc = "put"
        BY <1>0 DEF TaskRecord
      <4> QED BY <3>2, <4>1 DEF SaveVersion
    <3> QED BY <1>5, <3>1, <3>2
  <2>2. task[t].pc = "nested" /\ BeginWork(t) /\ UNCHANGED run
    BY <1>5 DEF ChooseVersion, SaveVersion
  <2>3. GuardsAt("nested") = 1 /\ GuardsAt(r.pc) = 2
    BY <2>1 DEF GuardsAt
  <2> QED BY <2>1, <2>2, <2>3, Gets
<1>6. CASE WriteDefault(t)
  <2>1. GuardsAt("default") = 1 /\ GuardsAt("leave") = 1
    BY DEF GuardsAt
  <2> QED BY <1>0, <1>6, <2>1, Keeps DEF WriteDefault, Goto
<1>7. CASE PutBlob(t) \/ LinkArtifact(t) \/ LinkFails(t) \/ MarkReady(t) \/ Export(t)
  <2>1. PICK r : Become(t, r) /\ r.pc \in {"link", "ready", "export", "unnest"}
    <3>1. /\ [task[t] EXCEPT !.pc = "unnest", !.doc = NoDoc, !.fresh = FALSE, !.hold = TRUE].pc = "unnest"
          /\ [task[t] EXCEPT !.pc = "unnest", !.doc.path = TRUE].pc = "unnest"
      BY <1>0 DEF TaskRecord
    <3>2. CASE PutBlob(t) \/ LinkArtifact(t) \/ MarkReady(t)
      BY <1>0, <3>2 DEF PutBlob, LinkArtifact, MarkReady, Goto
    <3>3. CASE LinkFails(t)
      BY <3>1, <3>3 DEF LinkFails, OnHold
    <3>4. CASE Export(t)
      BY <3>1, <3>4 DEF Export, OnHold
    <3> QED BY <1>7, <3>2, <3>3, <3>4
  <2>2. task[t].pc \in {"put", "link", "ready", "export"} /\ UNCHANGED <<coordinatorVars, run>>
    BY <1>7 DEF PutBlob, LinkArtifact, LinkFails, MarkReady, Export
  <2>3. GuardsAt(task[t].pc) = 2 /\ GuardsAt(r.pc) = 2
    BY <2>1, <2>2 DEF GuardsAt
  <2> QED BY <2>1, <2>2, <2>3, Keeps
<1>8. CASE Unnest(t)
  <2>1. GuardsAt("unnest") = 2 /\ GuardsAt("apply") = 1
    BY DEF GuardsAt
  <2> DEFINE r == [task[t] EXCEPT !.pc = "apply"]
  <2>2. Become(t, r) /\ r.pc = "apply"
    BY <1>0, <1>8 DEF Unnest, Goto
  <2>3. task[t].pc = "unnest" /\ EndWork(t) /\ UNCHANGED run
    BY <1>8 DEF Unnest
  <2> HIDE DEF r
  <2> QED BY <2>1, <2>2, <2>3, GivesBack
<1>9. CASE Submitted(t) \/ NotSubmitted(t) \/ Prepared(t) \/ PublishApplied(t) \/ PublishPending(t)
  <2>1. PICK at \in {"insert", "delete", "leave"} : Goto(t, at)
    BY <1>9 DEF Submitted, NotSubmitted, Prepared, PublishApplied, PublishPending
  <2>2. task[t].pc \in {"apply", "insert", "delete"} /\ UNCHANGED <<coordinatorVars, run>>
    BY <1>9 DEF Submitted, NotSubmitted, Prepared, PublishApplied, PublishPending
  <2>3. GuardsAt(task[t].pc) = 1 /\ GuardsAt(at) = 1
    BY <2>1, <2>2 DEF GuardsAt
  <2> QED BY <1>0, <2>1, <2>2, <2>3, Keeps DEF Goto
<1>10. CASE Leave(t)
  <2>1. GuardsAt("leave") = 1 /\ GuardsAt("idle") = 0
    BY DEF GuardsAt
  <2> QED BY <1>0, <1>10, <2>1, GivesBack DEF Leave
<1> QED BY <1>1, <1>2, <1>3, <1>4, <1>5, <1>6, <1>7, <1>8, <1>9, <1>10 DEF TaskStep

(* and so does what a clean-up does, *)
LEMMA PassStepFollows ==
    ASSUME InFlightInv, FollowInv, NEW e \in Evictors, StartReconcile(e) \/ PassStep(e)
    PROVE  FollowInv'
<1>0. /\ "pc" \in DOMAIN run[e] /\ eviction[e] = EvictionAt(run[e].pc)
      /\ eviction \in [Evictors -> {"none", "waiting", "running"}]
  BY DEF InFlightInv, PassesRun, FollowInv, EvictionFollows, CoordinatorInv, CoordinatorTypeOK
<1>1. /\ EvictionAt("idle") = "none" /\ EvictionAt("again") = "none" /\ EvictionAt("enter") = "waiting"
      /\ \A at \in Cleaning : EvictionAt(at) = "running"
  BY DEF EvictionAt, Cleaning
<1>2. CASE StartReconcile(e) \/ NextPass(e)
  <2>1. PICK r : Turn(e, r) /\ r.pc = "enter"
    <3>1. \A n : [run[e] EXCEPT !.pc = "enter", !.pass = n].pc = "enter"
      BY <1>0
    <3>2. [run[e] EXCEPT !.pc = "enter"].pc = "enter"
      BY <1>0
    <3> QED BY <1>2, <3>1, <3>2 DEF StartReconcile, NextPass, GotoPass
  <2>2. eviction' = [eviction EXCEPT ![e] = "waiting"] /\ UNCHANGED <<depth, beginning, task>>
    BY <1>2 DEF StartReconcile, NextPass, CallEviction
  <2> QED BY <1>1, <2>1, <2>2, PassFollows
<1>3. CASE EnterPass(e)
  <2>1. [run[e] EXCEPT !.pc = "scan"].pc = "scan"
    BY <1>0
  <2>2. eviction' = [eviction EXCEPT ![e] = "running"] /\ UNCHANGED <<depth, beginning, task>>
    BY <1>3 DEF EnterPass, Evict
  <2> QED BY <1>1, <1>3, <2>1, <2>2, PassFollows DEF EnterPass, GotoPass, Cleaning
<1>4. CASE AbandonPass(e)
  <2>1. eviction' = [eviction EXCEPT ![e] = "none"] /\ UNCHANGED <<depth, beginning, task>> /\ Resting.pc = "idle"
    BY <1>4 DEF AbandonPass, AbandonEviction, Resting
  <2> QED BY <1>1, <1>4, <2>1, PassFollows DEF AbandonPass
<1>5. CASE EndPass(e)
  <2>1. PICK r : Turn(e, r) /\ r.pc \in {"idle", "again"}
    <3>1. Resting.pc = "idle" /\ \A n : [Resting EXCEPT !.pc = "again", !.pass = n].pc = "again"
      BY DEF Resting
    <3> QED BY <1>5, <3>1 DEF EndPass
  <2>2. eviction' = [eviction EXCEPT ![e] = "none"] /\ UNCHANGED <<depth, beginning, task>>
    BY <1>5 DEF EndPass, EndEviction
  <2> QED BY <1>1, <2>1, <2>2, PassFollows
<1>6. CASE \/ Scan(e) \/ IndexLatest(e) \/ IndexListed(e) \/ PassOver(e) \/ RemoveFile(e) \/ PersistRow(e)
           \/ RemoveBlob(e) \/ MarkEvicted(e)
  <2>1. run[e].pc \in Cleaning /\ UNCHANGED <<depth, beginning, eviction, task>>
    BY <1>6 DEF Scan, IndexLatest, IndexListed, PassOver, RemoveFile, PersistRow, RemoveBlob, MarkEvicted,
                coordinatorVars, Cleaning
  <2>2. PICK r : Turn(e, r) /\ r.pc \in Cleaning
    <3> DEFINE Goes(at) == \E r : Turn(e, r) /\ r.pc = at
    <3>1. \A at : GotoPass(e, at) => Goes(at)
      BY <1>0 DEF GotoPass
    <3>2. FailPass(e) => Goes("end")
      <4>1. [run[e] EXCEPT !.pc = "end", !.err = TRUE].pc = "end"
        BY <1>0
      <4> QED BY <4>1 DEF FailPass
    <3>3. NextRow(e) => Goes("next")
      <4>1. \A x : [run[e] EXCEPT !.pc = "next", !.rows = x].pc = "next"
        BY <1>0
      <4> QED BY <4>1 DEF NextRow
    <3>4. CASE Scan(e)
      <4> DEFINE r == [run[e] EXCEPT !.pc = "next", !.limit = limit, !.rows = Candidates(limit),
                                     !.ready = ready,
                                     !.evictable = {v \in ready \intersect linked : Artifact[v] \notin evictedAt},
                                     !.busy = Candidates(limit) # <<>>]
      <4>1. Turn(e, r) \/ FailPass(e)
        BY <3>4 DEF Scan
      <4>3. r.pc = "next"
        BY <1>0
      <4> HIDE DEF r
      <4>2. Goes("next") \/ Goes("end")
        BY <3>2, <4>1, <4>3
      <4> QED BY <4>2 DEF Cleaning
    <3>5. CASE IndexLatest(e)
      <4>1. \A a, b : [run[e] EXCEPT !.pc = "listed", !.paths = a, !.vers = b].pc = "listed"
        BY <1>0
      <4>2. Goes("listed") \/ Goes("next") \/ Goes("end")
        BY <3>2, <3>3, <3>5, <4>1 DEF IndexLatest
      <4> QED BY <4>2 DEF Cleaning
    <3>6. CASE IndexListed(e)
      <4>1. \A a : [run[e] EXCEPT !.pc = "blobs", !.keys = a].pc = "blobs"
        BY <1>0
      <4>2. \A a : [run[e] EXCEPT !.pc = "remove", !.paths = a].pc = "remove"
        BY <1>0
      <4>3. Goes("blobs") \/ Goes("remove")
        BY <3>6, <4>1, <4>2 DEF IndexListed
      <4> QED BY <4>3 DEF Cleaning
    <3>7. CASE PassOver(e) \/ RemoveFile(e) \/ PersistRow(e)
      <4>1. Goes("next") \/ Goes("persist")
        BY <3>1, <3>3, <3>7 DEF PassOver, RemoveFile, PersistRow
      <4> QED BY <4>1 DEF Cleaning
    <3>8. CASE RemoveBlob(e)
      <4> DEFINE r == [run[e] EXCEPT !.keys = @ \ {Key(e)}, !.err = TRUE]
      <4>1. GotoPass(e, "mark") \/ Turn(e, r)
        BY <3>8 DEF RemoveBlob
      <4>2. r.pc = run[e].pc /\ run[e].pc = "blobs"
        BY <1>0, <3>8 DEF RemoveBlob
      <4> HIDE DEF r
      <4>3. Goes("mark") \/ Goes("blobs")
        BY <3>1, <4>1, <4>2
      <4> QED BY <4>3 DEF Cleaning
    <3>9. CASE MarkEvicted(e)
      <4> DEFINE r == [run[e] EXCEPT !.pc = "blobs", !.keys = @ \ {Key(e)}, !.busy = TRUE]
      <4>1. Turn(e, r) \/ FailPass(e)
        BY <3>9 DEF MarkEvicted
      <4>2. r.pc = "blobs"
        BY <1>0
      <4> HIDE DEF r
      <4>3. Goes("blobs") \/ Goes("end")
        BY <3>2, <4>1, <4>2
      <4> QED BY <4>3 DEF Cleaning
    <3> QED BY <1>6, <3>4, <3>5, <3>6, <3>7, <3>8, <3>9
  <2>3. eviction' = [eviction EXCEPT ![e] = EvictionAt(r.pc)]
    BY <1>0, <1>1, <2>1, <2>2
  <2> QED BY <2>1, <2>2, <2>3, PassFollows
<1> QED BY <1>2, <1>3, <1>4, <1>5, <1>6 DEF PassStep

(* a handler, and a restart. *)
LEMMA FollowNext == InFlightInv /\ FollowInv /\ [RetentionNext]_retentionVars => FollowInv'
<1> SUFFICES ASSUME InFlightInv, FollowInv, [RetentionNext]_retentionVars PROVE FollowInv'
  OBVIOUS
<1>1. CASE HandlerStep \/ UNCHANGED retentionVars
  <2>1. UNCHANGED <<depth, beginning, eviction, task, run>>
    BY <1>1 DEF HandlerStep, retentionVars, coordinatorVars
  <2> QED BY <2>1 DEF FollowInv, GuardsFollow, EvictionFollows
<1>2. CASE RestartProcess
  <2>1. /\ depth' = [t \in Tasks |-> 0] /\ beginning' = {} /\ eviction' = [e \in Evictors |-> "none"]
        /\ task' = [t \in Tasks |-> Idle] /\ run' = [e \in Evictors |-> Resting]
    BY <1>2 DEF RestartProcess, Restart
  <2> QED BY <2>1 DEF FollowInv, GuardsFollow, EvictionFollows, Idle, Resting, GuardsAt, EvictionAt
<1> QED BY <1>1, <1>2, TaskStepFollows, PassStepFollows DEF RetentionNext

(* The lock of a user is never held by nobody, whatever fails and whoever  *)
(* gives up waiting: every way out of a submission, a preparation, a       *)
(* document write and a clean-up gives back what it took, once (EndWork    *)
(* and the deferred reset of WithEviction).  So whoever waits in BeginWork *)
(* or WithEviction waits for somebody at work (BeginReturns without its    *)
(* fairness).                                                              *)
THEOREM LockIsNeverOrphaned == RetentionSpec => []NoGuardLeaks
<1>1. ASSUME InFlightInv, FollowInv PROVE NoGuardLeaks
  <2>1. depth \in [Tasks -> 0..MaxNesting] /\ CountIsGuards /\ FlagIsRunning
    BY <1>1 DEF InFlightInv, CoordinatorInv, CoordinatorTypeOK
  <2>2. activeWork = 0 <=> \A t \in Tasks : depth[t] = 0
    BY <2>1, NoGuards DEF CountIsGuards
  <2>3. \A t \in Tasks : depth[t] = 0 <=> task[t].pc \in {"idle", "enter"}
    BY <1>1 DEF FollowInv, GuardsFollow, GuardsAt
  <2>4. \A e \in Evictors : eviction[e] = "running" <=> run[e].pc \in Cleaning
    BY <1>1 DEF FollowInv, EvictionFollows, EvictionAt, Cleaning
  <2>5. \A t \in Tasks : task[t].pc = "idle" => t \notin beginning
    BY <1>1 DEF FollowInv, GuardsFollow
  <2> QED BY <2>1, <2>2, <2>3, <2>4, <2>5 DEF FlagIsRunning, Running, NoGuardLeaks
<1> QED BY <1>1, FollowInit, FollowNext, InFlightInvariant, PTL DEF RetentionSpec
=============================================================================
