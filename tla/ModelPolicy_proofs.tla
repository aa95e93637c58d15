------------------------- MODULE ModelPolicy_proofs -------------------------
(***************************************************************************)
(* What holds of an evaluation run and of the decisions taken on it, for   *)
(* every set of candidates, every plan, any number of workers at a time,   *)
(* cancellations, failing writes and decisions.                            *)
(*                                                                         *)
(* The budget rests on a ledger of two sums over the workers: what is set  *)
(* aside beyond what their calls have cost, and what the calls have cost   *)
(* beyond what is set aside, whatever the others are at.  What is served   *)
(* rests on the order of the run: the recommendations are written when     *)
(* the workers are done, the status after them, and nothing of either      *)
(* changes when they can be approved.                                      *)
(*                                                                         *)
(* Last, that a run that is over stays over and that every run ends:       *)
(* each of its steps lowers a sum over the workers.                        *)
(***************************************************************************)
EXTENDS ModelPolicy, FiniteSetTheorems, WellFoundedInduction, TLAPS

USE DEF money

Early == {"idle", "spawned", "registered", "loading", "ended"}
Late == {"recommending", "concluding", "closing"}
WorkerStates == {"queued", "start", "turn", "calling", "free", "priced", "unpriced",
                 "failed", "done"}
CandidateStates == {"runnable", "completed", "failed"} \cup Blocked
RunStatuses == {"none", "pending", "running"} \cup Terminal

Types ==
    /\ plan \in Plans
    /\ row \in [status : RunStatuses, cancel : BOOLEAN]
    /\ results \in [Specs -> Nat]
    /\ recs \in [Candidates -> {"none", "other", "recommend"}]
    /\ exec \in Early \cup Late \cup {"launching"}
    /\ final \in {"none", "error"} \cup Terminal
    /\ registry \in [Specs -> [status : CandidateStates, expected : Nat, completed : Nat]]
    /\ priced \in [Specs -> Nat]
    /\ budget \in [spent : Nat, reserved : Int, stop : BOOLEAN]
    /\ worker \in [Specs -> WorkerStates]
    /\ paid \in Nat /\ unseen \in Nat /\ over \in Nat

\* The workers work while the run launches them, and nothing is spent or
\* under way when the run is not under way.
Phases ==
    /\ row.status = "none" => exec = "idle"
    /\ row.status \in Terminal => exec \in {"closing", "ended"}
    /\ exec \in Early =>
          /\ \A s \in Specs : worker[s] = "queued"
          /\ paid = 0 /\ unseen = 0 /\ over = 0 /\ budget.spent = 0 /\ budget.reserved = 0
          /\ exec # "ended" => \A s \in Specs : /\ results[s] = 0
                                                /\ registry[s].status = "runnable"
                                                /\ registry[s].completed = 0
                                                /\ registry[s].expected = Cases
    /\ exec \in Late => \A s \in Specs : worker[s] = "done"
    /\ exec = "recommending" => final \in Terminal
    /\ exec = "concluding" => final \in Terminal

\* What a candidate's state says of its saved results.
Covered(s) ==
    /\ registry[s].status = "runnable" =>
          /\ registry[s].expected = Cases /\ results[s] = registry[s].completed
          /\ registry[s].completed <= Cases
    /\ registry[s].status = "completed" => results[s] = Cases
    /\ worker[s] \in {"queued", "start", "turn", "calling", "free", "priced", "failed"} =>
          registry[s].status = "runnable"
    /\ worker[s] \in {"calling", "free", "priced", "failed"} => registry[s].completed < Cases
    /\ worker[s] = "unpriced" => registry[s].status = "pricing_unresolved"

-----------------------------------------------------------------------------
(* The ledger. *)

Recorded == {"priced", "unpriced"}

\* What is set aside beyond the cost for the call a worker is at.
Weight(s) ==
    CASE Real /\ worker[s] = "calling" -> perCallBudgetReserve(s)
      [] Real /\ worker[s] \in Recorded /\ Price[s] > 0 /\ Price[s] <= perCallBudgetReserve(s) ->
           perCallBudgetReserve(s) - Price[s]
      [] OTHER -> 0
Weights == [s \in Specs |-> Weight(s)]

\* What its cost is beyond what is set aside.
Excess(s) == IF Real /\ worker[s] \in Recorded THEN Beyond(s, 1) ELSE 0
Excesses == [s \in Specs |-> Excess(s)]

Costs == [Specs -> Nat]

\* f adds up w along the order of the specs.
Sums(f, w) ==
    /\ f \in [0..Len(Order) -> Int] /\ f[0] = 0
    /\ \A i \in 1..Len(Order) : f[i] = f[i - 1] + w[Order[i]]
    /\ \A i, k \in 0..Len(Order) : i <= k => f[i] <= f[k]

\* What the budget counts, with the excesses that it is about to count and those of
\* the results that were not saved.
Counted(g, lost) == budget.spent + budget.reserved + g[Len(Order)] + lost

SetAside == \E f, g : \E lost \in Nat :
    /\ Sums(f, Weights) /\ Sums(g, Excesses)
    /\ paid + f[Len(Order)] <= Counted(g, lost) + unseen
    /\ Counted(g, lost) <= plan.budget + over
    /\ g[Len(Order)] + lost <= over

Ledger ==
    /\ Real => SetAside
    /\ ~Real => paid = 0

RunInv ==
    /\ Types
    /\ Phases
    /\ exec # "ended" => \A s \in Specs : Covered(s)
    /\ Ledger

-----------------------------------------------------------------------------
(* The decisions. *)

Enough == Cardinality(Distinct(DOMAIN plan.dataset)) >= MinCases

Answered(s) == results[s] = Cases /\ Real /\ plan.purpose = "benchmark" /\ Enough

Proven(s) == Answered(s) /\ row.status \in {"completed", "failed"}

\* A candidate among the specs that may be in force.
Trusted(s) == s \in Specs /\ (s \in Candidates => Proven(s))

Recommended ==
    \A s \in Candidates : recs[s] = "recommend" =>
        Answered(s) /\ exec \in {"concluding", "closing", "ended"}

PolicyRows == [there : BOOLEAN, spec : Specs, previous : Specs \cup {"inherit", "null"},
               run : {"earlier", "this"}]

PolicyInv ==
    /\ policy \in PolicyRows
    /\ Recommended
    /\ approving # "none" => approving \in Candidates /\ Proven(approving)
    /\ policy.there => Trusted(policy.spec)
    /\ policy.there /\ policy.previous \notin {"inherit", "null"} => Trusted(policy.previous)

-----------------------------------------------------------------------------
(* Facts about the constants and the ledger. *)

LEMMA OrderFacts ==
    /\ Len(Order) \in Nat /\ Len(Order) > 1 /\ DOMAIN Order = 1..Len(Order)
    /\ Baseline \in Specs /\ Candidates \subseteq Specs
    /\ \A s \in Specs : \E k \in 1..Len(Order) : Order[k] = s
    /\ \A i, j \in 1..Len(Order) : Order[i] = Order[j] => i = j
    /\ \A i \in 1..Len(Order) : Order[i] \in Specs
  BY EvaluationConstants DEF Specs, Baseline, Candidates

LEMMA ReserveFacts ==
    ASSUME NEW s \in Specs
    PROVE  perCallBudgetReserve(s) \in Nat /\ perCallBudgetReserve(s) > 0 /\ Price[s] \in Nat
<1>1. Bound[s] \in Nat \ {0} /\ Price[s] \in Nat
  BY EvaluationConstants
<1>2. Bound[s] \div 4 \in Nat
  BY <1>1
<1> QED
  BY <1>1, <1>2 DEF perCallBudgetReserve

\* Beyond the reservation is what is left of the price of n requests.
LEMMA BeyondFacts ==
    ASSUME NEW s \in Specs, NEW n \in 0..3
    PROVE  /\ n * Price[s] \in Nat /\ Beyond(s, n) \in Nat
           /\ n * Price[s] <= perCallBudgetReserve(s) + Beyond(s, n)
           /\ n * Price[s] <= perCallBudgetReserve(s) => Beyond(s, n) = 0
           /\ n * Price[s] > perCallBudgetReserve(s) =>
                 n * Price[s] = perCallBudgetReserve(s) + Beyond(s, n)
           /\ n > 0 => n * Price[s] = (n - 1) * Price[s] + Price[s] /\ (n - 1) * Price[s] \in Nat
<1> DEFINE p == Price[s]
<1>1. p \in Nat /\ perCallBudgetReserve(s) \in Nat
  BY ReserveFacts
<1>2. /\ n * p \in Nat
      /\ n > 0 => n * p = (n - 1) * p + p /\ (n - 1) * p \in Nat
  <2>1. CASE n = 0
    BY <1>1, <2>1
  <2>2. CASE n = 1
    BY <1>1, <2>2
  <2>3. CASE n = 2
    BY <1>1, <2>3
  <2>4. CASE n = 3
    BY <1>1, <2>4
  <2> QED
    BY <2>1, <2>2, <2>3, <2>4
<1> DEFINE c == n * p
           R == perCallBudgetReserve(s)
           B == Beyond(s, n)
<1>3. c \in Nat /\ R \in Nat /\ B = IF c > R THEN c - R ELSE 0
  BY <1>1, <1>2 DEF Beyond
<1>4. n > 0 => c = (n - 1) * p + p /\ (n - 1) * p \in Nat
  BY <1>2
<1> HIDE DEF c, R, B
<1>5. /\ B \in Nat /\ c <= R + B
      /\ c <= R => B = 0
      /\ c > R => c = R + B
  BY <1>3
<1> QED
  BY <1>3, <1>4, <1>5 DEF c, R, B

\* Of one request, the price itself.
LEMMA BeyondOne ==
    ASSUME NEW s \in Specs
    PROVE  /\ Beyond(s, 1) \in Nat /\ Price[s] <= perCallBudgetReserve(s) + Beyond(s, 1)
           /\ Price[s] <= perCallBudgetReserve(s) => Beyond(s, 1) = 0
           /\ Price[s] > perCallBudgetReserve(s) =>
                 Price[s] = perCallBudgetReserve(s) + Beyond(s, 1)
<1>1. Price[s] \in Nat /\ 1 \in 0..3
  BY ReserveFacts
<1>2. 1 * Price[s] = Price[s]
  BY <1>1
<1> QED
  BY <1>1, <1>2, BeyondFacts

LEMMA ExcessFacts ==
    ASSUME NEW s \in Specs
    PROVE  Excess(s) \in Nat /\ (worker[s] \notin Recorded \/ ~Real => Excess(s) = 0)
  BY BeyondOne DEF Excess

LEMMA PlanFacts == ASSUME Types PROVE PlanType(plan) /\ Cases \in Nat /\ plan.budget \in Nat
  BY EvaluationConstants DEF Types, PlanType, Cases

LEMMA WeightFacts ==
    ASSUME NEW s \in Specs
    PROVE  /\ Weight(s) \in Nat /\ Weight(s) <= perCallBudgetReserve(s)
           /\ worker[s] \notin {"calling"} \cup Recorded \/ ~Real => Weight(s) = 0
  BY ReserveFacts DEF Weight

\* One entry of what is added up changes: so does the sum, by as much.
LEMMA SumsUpdate ==
    ASSUME NEW w \in Costs, NEW f, Sums(f, w), NEW s \in Specs,
           NEW u \in Costs, \A t \in Specs \ {s} : u[t] = w[t]
    PROVE  \E g : Sums(g, u) /\ g[Len(Order)] = f[Len(Order)] - w[s] + u[s]
<1> DEFINE N == Len(Order)
           v == u[s]
<1>0. v \in Nat
  BY DEF Costs
<1> HIDE DEF v
<1>1. N \in Nat /\ N > 1 /\ \A i \in 1..N : Order[i] \in Specs
  BY OrderFacts
<1>2. PICK k \in 1..N : Order[k] = s
  BY OrderFacts
<1>3. \A i \in 1..N : u[Order[i]] = IF i = k THEN v ELSE w[Order[i]]
  BY <1>1, <1>2, OrderFacts DEF v
<1> DEFINE g == [i \in 0..N |-> IF i < k THEN f[i] ELSE f[i] - w[s] + v]
<1>4. f \in [0..N -> Int] /\ f[0] = 0 /\ w \in [Specs -> Nat] /\ w[s] \in Nat
  BY DEF Sums, Costs
<1>5. \A i \in 1..N : f[i] = f[i - 1] + w[Order[i]]
  BY DEF Sums
<1>6. \A i, j \in 0..N : i <= j => f[i] <= f[j]
  BY DEF Sums
<1>7. g \in [0..N -> Int] /\ g[0] = 0
  BY <1>0, <1>1, <1>2, <1>4
<1>12. \A i \in 0..N : g[i] = IF i < k THEN f[i] ELSE f[i] - w[s] + v
  OBVIOUS
<1> HIDE DEF g
<1>8. ASSUME NEW i \in 1..N PROVE g[i] = g[i - 1] + u[Order[i]]
  <2>1. i \in 0..N /\ i - 1 \in 0..N /\ f[i] \in Int /\ f[i - 1] \in Int /\ w[Order[i]] \in Nat
    <3>1. i \in 0..N /\ i - 1 \in 0..N
      BY <1>1
    <3> QED
      BY <1>1, <1>4, <3>1
  <2>2. CASE i < k
    <3>1. g[i] = f[i] /\ g[i - 1] = f[i - 1] /\ u[Order[i]] = w[Order[i]]
      BY <1>1, <1>2, <1>3, <1>12, <2>1, <2>2
    <3> QED
      BY <1>5, <3>1
  <2>3. CASE i = k
    <3>2. ~(i < k) /\ i - 1 < k
      BY <1>1, <1>2, <2>1, <2>3
    <3>1. g[i] = f[i] - w[s] + v /\ g[i - 1] = f[i - 1] /\ u[Order[i]] = v
      BY <1>3, <1>12, <2>1, <2>3, <3>2
    <3> QED
      BY <1>0, <1>2, <1>4, <1>5, <2>1, <2>3, <3>1
  <2>4. CASE i > k
    <3>1. /\ g[i] = f[i] - w[s] + v /\ g[i - 1] = f[i - 1] - w[s] + v
          /\ u[Order[i]] = w[Order[i]]
      <4>1. ~(i < k) /\ ~(i - 1 < k) /\ i # k
        BY <1>1, <1>2, <2>1, <2>4
      <4> QED
        BY <1>3, <1>12, <2>1, <4>1
    <3>2. f[i] = f[i - 1] + w[Order[i]]
      BY <1>5
    <3>3. \A a, b, c, x, y \in Int : a = b + c => a - x + y = (b - x + y) + c
      OBVIOUS
    <3> QED
      BY <1>0, <1>4, <2>1, <3>1, <3>2, <3>3
  <2> QED
    BY <1>2, <2>2, <2>3, <2>4
<1>9. ASSUME NEW i \in 0..N, NEW j \in 0..N, i <= j PROVE g[i] <= g[j]
  <2>1. f[i] \in Int /\ f[j] \in Int /\ f[k] \in Int /\ f[k - 1] \in Int /\ f[i] <= f[j]
    <3>1. k \in 0..N /\ k - 1 \in 0..N
      BY <1>1, <1>2
    <3> QED
      BY <1>4, <1>6, <1>9, <3>1
  <2>2. CASE i < k /\ k <= j
    <3>1. f[i] <= f[k - 1] /\ f[k] <= f[j] /\ f[k] = f[k - 1] + w[s]
      BY <1>1, <1>2, <1>5, <1>6, <2>2
    <3>2. g[i] = f[i] /\ g[j] = f[j] - w[s] + v
      <4>1. ~(j < k)
        BY <1>1, <2>2
      <4> QED
        BY <1>12, <2>2, <4>1
    <3>3. \A a, b, c, x, y \in Int : a <= c /\ c + x <= b /\ y >= 0 => a <= b - x + y
      OBVIOUS
    <3> QED
      BY <1>0, <1>4, <2>1, <3>1, <3>2, <3>3
  <2>3. CASE ~(i < k /\ k <= j)
    BY <1>0, <1>1, <1>2, <1>4, <1>9, <1>12, <2>1, <2>3
  <2> QED
    BY <2>2, <2>3
<1>10. g[N] = f[N] - w[s] + v
  BY <1>1, <1>2, <1>12
<1>11. Sums(g, u)
  BY <1>7, <1>8, <1>9 DEF Sums
<1> QED
  BY <1>10, <1>11 DEF v

\* Nothing is under way: nothing is added up.
NothingUnderWay ==
    /\ \A s \in Specs : worker[s] = "queued"
    /\ paid = 0 /\ unseen = 0 /\ over = 0 /\ budget.spent = 0 /\ budget.reserved = 0

LEMMA NothingSetAside == NothingUnderWay /\ plan.budget \in Nat => SetAside
<1> SUFFICES ASSUME NothingUnderWay, plan.budget \in Nat PROVE SetAside
  OBVIOUS
<1> USE DEF NothingUnderWay
<1> DEFINE f == [i \in 0..Len(Order) |-> 0]
<1>1. \A s \in Specs : Weights[s] = 0 /\ Excesses[s] = 0
  BY WeightFacts, ExcessFacts DEF Weights, Excesses, Recorded
<1>2. Sums(f, Weights) /\ Sums(f, Excesses)
  BY <1>1, OrderFacts DEF Sums
<1>3. f[Len(Order)] = 0
  BY OrderFacts
<1> HIDE DEF f
<1>4. Counted(f, 0) = 0
  BY <1>3 DEF Counted
<1>5. /\ paid + f[Len(Order)] <= Counted(f, 0) + unseen /\ Counted(f, 0) <= plan.budget + over
      /\ f[Len(Order)] + 0 <= over
  BY <1>3, <1>4
<1> QED
  BY <1>2, <1>5 DEF SetAside

\* One worker's step moves its own entry of a sum.
LEMMA SumsMove ==
    ASSUME NEW w \in Costs, NEW u \in Costs, NEW f, Sums(f, w), NEW s \in Specs,
           NEW x, NEW y, w[s] = x, u[s] = y, \A t \in Specs \ {s} : u[t] = w[t]
    PROVE  \E g : Sums(g, u) /\ g[Len(Order)] = f[Len(Order)] - x + y
  BY SumsUpdate

\* A worker's step: what it sets aside and pays must be covered by what the
\* budget counts and what it does not see.
LEMMA SetAsideMoves ==
    ASSUME Types, Types', SetAside, NEW s \in Specs, plan' = plan,
           worker' = [worker EXCEPT ![s] = worker'[s]], NEW k \in Nat,
           paid' + Weight(s)' + (budget.spent + budget.reserved) + Excess(s) + unseen
             <= paid + Weight(s) + (budget'.spent + budget'.reserved) + Excess(s)' + k + unseen',
           \/ budget'.spent + budget'.reserved + Excess(s)' + k + over
                <= budget.spent + budget.reserved + Excess(s) + over'
           \/ budget'.spent + budget'.reserved <= plan.budget,
           Excess(s)' + k + over <= Excess(s) + over'
    PROVE  SetAside'
<1>1. PICK f, e : \E lost \in Nat :
                  /\ Sums(f, Weights) /\ Sums(e, Excesses)
                  /\ paid + f[Len(Order)] <= Counted(e, lost) + unseen
                  /\ Counted(e, lost) <= plan.budget + over
                  /\ e[Len(Order)] + lost <= over
  BY DEF SetAside
<1>14. PICK lost \in Nat :
                  /\ Sums(f, Weights) /\ Sums(e, Excesses)
                  /\ paid + f[Len(Order)] <= Counted(e, lost) + unseen
                  /\ Counted(e, lost) <= plan.budget + over
                  /\ e[Len(Order)] + lost <= over
  BY <1>1
<1>2. /\ Weights \in Costs /\ Weights[s] = Weight(s) /\ Weight(s) \in Nat
      /\ Excesses \in Costs /\ Excesses[s] = Excess(s) /\ Excess(s) \in Nat
  BY WeightFacts, ExcessFacts DEF Weights, Excesses, Costs
<1>3. (\A t \in Specs : Weight(t) \in Nat /\ Excess(t) \in Nat)'
  <2>1. (\A t \in Specs : Weight(t) \in Nat)'
    BY ReserveFacts DEF Weight
  <2>2. \A t \in Specs : Beyond(t, 1) \in Nat
    BY BeyondOne
  <2>3. \A t \in Specs : Beyond(t, 1)' = Beyond(t, 1)
    BY DEF Beyond, perCallBudgetReserve
  <2>4. (\A t \in Specs : Excess(t) \in Nat)'
    BY <2>2, <2>3 DEF Excess
  <2> QED
    BY <2>1, <2>4
<1>4. /\ Weights' \in Costs /\ Weights'[s] = Weight(s)' /\ Weight(s)' \in Nat
      /\ Excesses' \in Costs /\ Excesses'[s] = Excess(s)' /\ Excess(s)' \in Nat
  BY <1>3 DEF Weights, Excesses, Costs
<1>5. \A t \in Specs \ {s} : Weights'[t] = Weights[t] /\ Excesses'[t] = Excesses[t]
  <2>1. \A t \in Specs \ {s} : worker'[t] = worker[t]
    BY DEF Types
  <2>2. \A t \in Specs \ {s} : Weight(t)' = Weight(t) /\ Excess(t)' = Excess(t)
    BY <2>1 DEF Weight, Excess, Real
  <2> QED
    BY <2>2 DEF Weights, Excesses
<1>6. PICK g : Sums(g, Weights') /\ g[Len(Order)] = f[Len(Order)] - Weight(s) + Weight(s)'
  BY <1>14, <1>2, <1>4, <1>5, SumsMove
<1>7. PICK h : Sums(h, Excesses') /\ h[Len(Order)] = e[Len(Order)] - Excess(s) + Excess(s)'
  BY <1>14, <1>2, <1>4, <1>5, SumsMove
<1>8. \A q, w : Sums(q, w) => q[Len(Order)] \in Int
  BY OrderFacts DEF Sums
<1> DEFINE x == f[Len(Order)]
           x2 == g[Len(Order)]
           y == e[Len(Order)]
           y2 == h[Len(Order)]
<1>9. /\ x \in Int /\ x2 \in Int /\ y \in Int /\ y2 \in Int
      /\ x2 = x - Weight(s) + Weight(s)' /\ y2 = y - Excess(s) + Excess(s)'
      /\ paid + x <= budget.spent + budget.reserved + y + lost + unseen
      /\ budget.spent + budget.reserved + y + lost <= plan.budget + over
      /\ y + lost <= over
  BY <1>14, <1>6, <1>7, <1>8 DEF Counted
<1> HIDE DEF x, x2, y, y2
<1>10. /\ paid \in Int /\ paid' \in Int /\ budget.spent \in Int /\ budget.reserved \in Int
       /\ budget'.spent \in Int /\ budget'.reserved \in Int /\ plan.budget \in Int
       /\ unseen \in Int /\ unseen' \in Int /\ over \in Int /\ over' \in Int
  BY PlanFacts DEF Types
<1>11. /\ paid' + x2 <= budget'.spent + budget'.reserved + y2 + (lost + k) + unseen'
       /\ budget'.spent + budget'.reserved + y2 + (lost + k) <= plan.budget + over'
       /\ y2 + (lost + k) <= over'
  BY <1>2, <1>4, <1>9, <1>10
<1>12. /\ paid' + g[Len(Order)] <= Counted(h, lost + k)' + unseen'
       /\ Counted(h, lost + k)' <= plan'.budget + over'
       /\ h[Len(Order)] + (lost + k) <= over'
  BY <1>11 DEF Counted, x2, y2
<1>13. Sums(g, Weights)' /\ Sums(h, Excesses)'
  BY <1>6, <1>7 DEF Sums
<1>15. /\ lost + k \in Nat
       /\ (/\ Sums(g, Weights) /\ Sums(h, Excesses)
           /\ paid + g[Len(Order)] <= Counted(h, lost + k) + unseen
           /\ Counted(h, lost + k) <= plan.budget + over
           /\ h[Len(Order)] + (lost + k) <= over)'
  BY <1>12, <1>13
<1> QED
  BY <1>15 DEF SetAside

\* What is paid is within what the budget counts, and what it does not see.
LEMMA PaidIsCounted == ASSUME Types, Ledger PROVE paid <= plan.budget + unseen + over
<1>1. CASE Real
  <2>1. PICK f, g : \E lost \in Nat :
                    /\ Sums(f, Weights) /\ Sums(g, Excesses)
                    /\ paid + f[Len(Order)] <= Counted(g, lost) + unseen
                    /\ Counted(g, lost) <= plan.budget + over
                    /\ g[Len(Order)] + lost <= over
    BY <1>1 DEF Ledger, SetAside
  <2>4. PICK lost \in Nat : /\ Sums(f, Weights) /\ Sums(g, Excesses)
                            /\ paid + f[Len(Order)] <= Counted(g, lost) + unseen
                            /\ Counted(g, lost) <= plan.budget + over
    BY <2>1
  <2>2. f[Len(Order)] \in Int /\ f[Len(Order)] >= 0 /\ g[Len(Order)] \in Int
    BY <2>4, OrderFacts DEF Sums
  <2>3. Counted(g, lost) \in Int
    BY <2>2 DEF Counted, Types
  <2>5. /\ paid \in Nat /\ unseen \in Nat /\ over \in Nat /\ plan.budget \in Nat
    BY PlanFacts DEF Types
  <2> DEFINE x == f[Len(Order)]
             c == Counted(g, lost)
  <2>6. /\ x \in Int /\ x >= 0 /\ c \in Int
        /\ paid + x <= c + unseen /\ c <= plan.budget + over
    BY <2>2, <2>3, <2>4
  <2> HIDE DEF x, c
  <2> QED
    BY <2>5, <2>6
<1>2. CASE ~Real
  BY <1>2, PlanFacts DEF Ledger, Types
<1> QED
  BY <1>1, <1>2

-----------------------------------------------------------------------------
(* The run. *)

LEMMA InitRun == ASSUME RunInit PROVE RunInv
<1>1. Types
  BY PlanFacts DEF RunInit, Types, Early, WorkerStates, CandidateStates, RunStatuses, Cases, PlanType, EvaluationConstants
<1>2. Phases
  BY DEF RunInit, Phases, Early, Late, Terminal
<1>3. \A s \in Specs : Covered(s)
  BY <1>1, PlanFacts DEF RunInit, Covered
<1>4. Ledger
  BY <1>1, NothingSetAside, PlanFacts DEF RunInit, Ledger, NothingUnderWay
<1> QED
  BY <1>1, <1>2, <1>3, <1>4 DEF RunInv

\* A worker's step leaves the ledger right, k being the excess of a result that it
\* did not save.
Settles(s, k) ==
    /\ paid' + Weight(s)' + (budget.spent + budget.reserved) + Excess(s) + unseen
         <= paid + Weight(s) + (budget'.spent + budget'.reserved) + Excess(s)' + k + unseen'
    /\ \/ budget'.spent + budget'.reserved + Excess(s)' + k + over
            <= budget.spent + budget.reserved + Excess(s) + over'
       \/ budget'.spent + budget'.reserved <= plan.budget
    /\ Excess(s)' + k + over <= Excess(s) + over'

\* A step of one worker, which the run launched: nothing but its own entries
\* changes, they go on saying what was saved, and what it sets aside and pays
\* is counted.
LEMMA WorkerMoves ==
    ASSUME RunInv, NEW s \in Specs, exec = "launching", Quietly,
           worker' = [worker EXCEPT ![s] = worker'[s]], worker'[s] \in WorkerStates,
           registry' = [registry EXCEPT ![s] = registry'[s]],
           registry'[s] \in [status : CandidateStates, expected : Nat, completed : Nat],
           results' = [results EXCEPT ![s] = results'[s]], results'[s] \in Nat,
           priced' \in [Specs -> Nat], paid' \in Nat, unseen' \in Nat, over' \in Nat,
           budget' \in [spent : Nat, reserved : Int, stop : BOOLEAN],
           Covered(s)',
           Real => \E k \in Nat : Settles(s, k),
           Real \/ paid' = paid
    PROVE  RunInv'
<1>1. Types'
  BY DEF RunInv, Types, Quietly
<1>2. Phases'
  BY DEF RunInv, Phases, Quietly, Early, Late, Terminal
<1>3. ASSUME NEW t \in Specs PROVE Covered(t)'
  <2>1. CASE t = s
    BY <2>1
  <2>2. CASE t # s
    <3>1. /\ worker'[t] = worker[t] /\ registry'[t] = registry[t] /\ results'[t] = results[t]
          /\ plan' = plan
      BY <2>2 DEF RunInv, Types, Quietly
    <3>2. Covered(t)
      BY DEF RunInv
    <3> QED
      BY <3>1, <3>2 DEF Covered, Cases
  <2> QED
    BY <2>1, <2>2
<1>4. Real => SetAside'
  BY <1>1, SetAsideMoves DEF RunInv, Ledger, Quietly, Settles
<1>5. Ledger'
  BY <1>4 DEF RunInv, Ledger, Quietly, Real
<1> QED
  BY <1>1, <1>2, <1>3, <1>5 DEF RunInv

\* Where a worker is at work, the run is launching.
LEMMA AtWork ==
    ASSUME RunInv, NEW s \in Specs, worker[s] \notin {"queued", "done"}
    PROVE  /\ exec = "launching" /\ Covered(s)
           /\ registry[s] \in [status : CandidateStates, expected : Nat, completed : Nat]
           /\ budget \in [spent : Nat, reserved : Int, stop : BOOLEAN]
           /\ worker[s] \in WorkerStates /\ results[s] \in Nat
           /\ paid \in Nat /\ unseen \in Nat /\ over \in Nat
           /\ Cases \in Nat /\ plan.budget \in Nat
  BY PlanFacts DEF RunInv, Types, Phases, Early, Late, Ledger

\* A step that settles a candidate's state, or moves its worker on, without a
\* call, and with no more set aside than before.
LEMMA PlainMoves ==
    ASSUME RunInv, NEW s \in Specs, worker[s] \notin {"queued", "done"}, Quietly,
           worker' = [worker EXCEPT ![s] = worker'[s]], worker'[s] \in {"turn", "done"},
           registry' = [registry EXCEPT ![s] = registry'[s]],
           registry'[s] \in [status : CandidateStates, expected : Nat, completed : Nat],
           UNCHANGED <<results, priced, paid, unseen, over>>,
           budget' = [budget EXCEPT !.stop = budget'.stop], budget'.stop \in BOOLEAN,
           Covered(s)'
    PROVE  RunInv'
<1>1. Weight(s)' = 0 /\ Weight(s) \in Nat /\ Excess(s)' = 0 /\ Excess(s) \in Nat
  BY WeightFacts, ExcessFacts DEF Weight, Excess, Recorded
<1>2. /\ results' = [results EXCEPT ![s] = results'[s]] /\ results'[s] \in Nat
      /\ priced' \in [Specs -> Nat] /\ paid' \in Nat /\ unseen' \in Nat /\ over' \in Nat
      /\ budget' \in [spent : Nat, reserved : Int, stop : BOOLEAN]
      /\ budget'.spent = budget.spent /\ budget'.reserved = budget.reserved
  BY DEF RunInv, Types
<1>4. Settles(s, Excess(s))
  BY <1>1, <1>2, AtWork DEF Settles
<1> QED
  BY <1>1, <1>2, <1>4, AtWork, WorkerMoves DEF WorkerStates

LEMMA StartStep == ASSUME RunInv, NEW s \in Specs, StartWorker(s) PROVE RunInv'
<1>1. worker[s] = "start" /\ Quietly /\ UNCHANGED <<results, priced, budget, paid, unseen, over>>
  BY DEF StartWorker
<1>2. Covered(s) /\ registry \in [Specs -> [status : CandidateStates, expected : Nat, completed : Nat]]
  BY DEF RunInv, StartWorker, Types, Phases, Early, Late
<1>3. budget' = [budget EXCEPT !.stop = budget'.stop] /\ budget'.stop \in BOOLEAN
  BY <1>1 DEF RunInv, Types
<1>4. CASE worker' = [worker EXCEPT ![s] = "turn"] /\ UNCHANGED registry
  <2>1. Covered(s)'
    BY <1>1, <1>2, <1>4 DEF RunInv, Types, Covered, Cases, Quietly
  <2>2. /\ worker' = [worker EXCEPT ![s] = worker'[s]] /\ worker'[s] \in {"turn", "done"}
        /\ registry' = [registry EXCEPT ![s] = registry'[s]]
        /\ registry'[s] \in [status : CandidateStates, expected : Nat, completed : Nat]
    BY <1>2, <1>4 DEF RunInv, Types
  <2> QED
    BY <1>1, <1>3, <2>1, <2>2, PlainMoves
<1>5. ASSUME NEW blocked \in Blocked, WorkerEnds(s), registry' = setStatus(registry, s, blocked)
      PROVE  RunInv'
  <2>1. /\ worker' = [worker EXCEPT ![s] = worker'[s]] /\ worker'[s] = "done"
        /\ registry' = [registry EXCEPT ![s] = registry'[s]]
        /\ registry'[s] = [status |-> blocked, expected |-> registry[s].completed,
                           completed |-> registry[s].completed]
    BY <1>2, <1>5 DEF RunInv, Types, WorkerEnds, setStatus
  <2>2. Covered(s)'
    BY <1>5, <2>1 DEF Covered, Blocked
  <2>3. registry'[s] \in [status : CandidateStates, expected : Nat, completed : Nat]
    BY <1>2, <2>1 DEF CandidateStates
  <2> QED
    BY <1>1, <1>3, <2>1, <2>2, <2>3, PlainMoves
<1> QED
  BY <1>4, <1>5 DEF StartWorker, Blocked

Registered == [status : CandidateStates, expected : Nat, completed : Nat]

LEMMA CasesOverStep == ASSUME RunInv, NEW s \in Specs, CasesOver(s) PROVE RunInv'
<1>1. /\ worker[s] = "turn" /\ Quietly /\ registry[s].completed = Cases
      /\ UNCHANGED <<results, priced, budget, paid, unseen, over>>
      /\ registry' = [registry EXCEPT ![s] = finalizeRunnable(@)] /\ WorkerEnds(s)
  BY DEF CasesOver
<1>2. Covered(s) /\ registry[s] \in Registered /\ registry \in [Specs -> Registered]
  BY <1>1, AtWork DEF RunInv, Types, Registered
<1>3. /\ worker' = [worker EXCEPT ![s] = worker'[s]] /\ worker'[s] = "done"
      /\ registry' = [registry EXCEPT ![s] = registry'[s]]
      /\ registry'[s] = finalizeRunnable(registry[s])
      /\ budget' = [budget EXCEPT !.stop = budget'.stop] /\ budget'.stop \in BOOLEAN
  BY <1>1, <1>2 DEF RunInv, Types, WorkerEnds
<1>4. registry[s].status = "runnable" /\ results[s] = Cases
  BY <1>1, <1>2 DEF Covered
<1>5. /\ registry'[s] \in Registered
      /\ registry'[s].status \in {"runnable", "completed", "failed"}
      /\ registry'[s].completed = Cases /\ registry'[s].expected = Cases
  <2>1. registry[s].completed = Cases /\ registry[s].expected = Cases /\ Cases \in Nat
    BY <1>1, <1>2, <1>4, AtWork DEF Covered
  <2>2. CASE Cases > 0
    <3>1. finalizeRunnable(registry[s]) = [registry[s] EXCEPT !.status = "completed"]
      BY <1>4, <2>1, <2>2 DEF finalizeRunnable
    <3> QED
      BY <1>2, <1>3, <2>1, <3>1 DEF Registered, CandidateStates
  <2>3. CASE ~(Cases > 0)
    <3>1. finalizeRunnable(registry[s]) = registry[s]
      BY <1>4, <2>1, <2>3 DEF finalizeRunnable
    <3> QED
      BY <1>2, <1>3, <1>4, <2>1, <3>1
  <2> QED
    BY <2>2, <2>3
<1>6. Covered(s)'
  BY <1>1, <1>3, <1>4, <1>5, AtWork DEF Covered, Cases, Quietly
<1> QED
  BY <1>1, <1>3, <1>5, <1>6, PlainMoves DEF Registered

LEMMA GiveUpStep == ASSUME RunInv, NEW s \in Specs, GiveUp(s) PROVE RunInv'
<1>1. /\ worker[s] = "turn" /\ Quietly /\ WorkerEnds(s)
      /\ UNCHANGED <<results, registry, priced, paid, unseen, over>>
      /\ budget' = [budget EXCEPT !.stop = @ \/ ~ctxDone]
  BY DEF GiveUp
<1>2. Covered(s) /\ registry[s] \in Registered /\ registry \in [Specs -> Registered]
  BY <1>1, AtWork DEF RunInv, Types, Registered
<1>3. /\ worker' = [worker EXCEPT ![s] = worker'[s]] /\ worker'[s] = "done"
      /\ registry' = [registry EXCEPT ![s] = registry'[s]] /\ registry'[s] = registry[s]
  BY <1>1, <1>2 DEF RunInv, Types, WorkerEnds
<1>4. budget' = [budget EXCEPT !.stop = budget'.stop] /\ budget'.stop \in BOOLEAN
  BY <1>1 DEF RunInv, Types
<1>5. Covered(s)'
  BY <1>1, <1>2, <1>3 DEF Covered, Cases, Quietly
<1> QED
  BY <1>1, <1>2, <1>3, <1>4, <1>5, PlainMoves DEF Registered

\* A call is made only when what it may cost can be set aside with all that
\* is spent and set aside already (tryReserve).
LEMMA PutStep == ASSUME RunInv, NEW s \in Specs, PutCase(s) PROVE RunInv'
<1>1. /\ worker[s] = "turn" /\ Quietly /\ registry[s].completed < Cases /\ ~MustStop(s)
      /\ UNCHANGED <<results, registry, priced, paid, unseen, over>>
      /\ worker' = [worker EXCEPT ![s] = "calling"]
      /\ budget' = IF Real THEN [budget EXCEPT !.reserved = @ + perCallBudgetReserve(s)] ELSE budget
  BY DEF PutCase
<1>2. /\ exec = "launching" /\ Covered(s) /\ registry[s] \in Registered /\ registry \in [Specs -> Registered]
      /\ budget \in [spent : Nat, reserved : Int, stop : BOOLEAN]
      /\ results[s] \in Nat /\ results \in [Specs -> Nat] /\ priced \in [Specs -> Nat]
      /\ paid \in Nat /\ unseen \in Nat /\ over \in Nat
  BY <1>1, AtWork DEF RunInv, Types, Registered
<1>3. /\ worker' = [worker EXCEPT ![s] = worker'[s]] /\ worker'[s] = "calling"
      /\ registry' = [registry EXCEPT ![s] = registry'[s]] /\ registry'[s] = registry[s]
      /\ results' = [results EXCEPT ![s] = results'[s]] /\ results'[s] = results[s]
  BY <1>1, <1>2 DEF RunInv, Types
<1>4. /\ Weight(s) = 0 /\ Weight(s)' = IF Real THEN perCallBudgetReserve(s) ELSE 0
      /\ Excess(s) = 0 /\ Excess(s)' = 0
  BY <1>1, <1>3 DEF Weight, Excess, Recorded, Real, Quietly
<1>5. Real => budget.spent + budget.reserved + perCallBudgetReserve(s) <= plan.budget
  BY <1>1 DEF MustStop, CanReserve
<1>6. perCallBudgetReserve(s) \in Nat
  BY ReserveFacts
<1>7. /\ budget' \in [spent : Nat, reserved : Int, stop : BOOLEAN]
      /\ budget'.spent = budget.spent
      /\ budget'.reserved = budget.reserved + (IF Real THEN perCallBudgetReserve(s) ELSE 0)
  BY <1>1, <1>2, <1>6
<1>8. Real => Settles(s, 0)
  BY <1>1, <1>2, <1>4, <1>5, <1>6, <1>7 DEF Settles
<1>9. Covered(s)'
  BY <1>1, <1>2, <1>3 DEF Covered, Cases, Quietly
<1> QED
  BY <1>1, <1>2, <1>3, <1>7, <1>8, <1>9, WorkerMoves DEF WorkerStates, Registered

\* The model is not offered: what was set aside for the call stays so.
LEMMA UnavailableStep == ASSUME RunInv, NEW s \in Specs, ModelUnavailable(s) PROVE RunInv'
<1>1. /\ worker[s] = "calling" /\ Quietly /\ WorkerEnds(s) /\ Real
      /\ UNCHANGED <<results, priced, budget, over>>
      /\ registry' = setStatus(registry, s, "unavailable_model")
  BY DEF ModelUnavailable
<1>2. /\ exec = "launching" /\ Covered(s) /\ registry[s] \in Registered /\ registry \in [Specs -> Registered]
      /\ budget \in [spent : Nat, reserved : Int, stop : BOOLEAN]
      /\ results[s] \in Nat /\ results \in [Specs -> Nat] /\ priced \in [Specs -> Nat]
      /\ paid \in Nat /\ unseen \in Nat /\ over \in Nat
  BY <1>1, AtWork DEF RunInv, Types, Registered
<1>3. /\ worker' = [worker EXCEPT ![s] = worker'[s]] /\ worker'[s] = "done"
      /\ results' = [results EXCEPT ![s] = results'[s]] /\ results'[s] = results[s]
      /\ registry' = [registry EXCEPT ![s] = registry'[s]]
      /\ registry'[s] = [status |-> "unavailable_model", expected |-> registry[s].completed,
                         completed |-> registry[s].completed]
  BY <1>1, <1>2 DEF RunInv, Types, WorkerEnds, setStatus
<1>4. Covered(s)' /\ registry'[s] \in Registered
  BY <1>2, <1>3 DEF Covered, Registered, CandidateStates, Blocked
<1>5. PICK n \in 0..3 : paid' = paid + n * Price[s] /\ unseen' = unseen + Beyond(s, n)
  <2>1. PICK n \in 0..(plan.requests - 1) : paid' = paid + n * Price[s] /\ unseen' = unseen + Beyond(s, n)
    BY DEF ModelUnavailable
  <2>2. plan.requests \in 1..3
    BY PlanFacts DEF RunInv, PlanType
  <2>3. n \in 0..3
    BY <2>1, <2>2
  <2> QED
    BY <2>1, <2>3
<1> DEFINE cost == n * Price[s]
           beyond == Beyond(s, n)
           R == perCallBudgetReserve(s)
<1>6. cost \in Nat /\ beyond \in Nat /\ cost <= R + beyond /\ R \in Nat
  BY BeyondFacts, ReserveFacts
<1>7. paid' = paid + cost /\ unseen' = unseen + beyond
  BY <1>5
<1>8. Weight(s) = R /\ Weight(s)' = 0 /\ Excess(s) = 0 /\ Excess(s)' = 0
  BY <1>1, <1>3 DEF Weight, Excess, Recorded
<1> HIDE DEF cost, beyond, R
<1>9. paid' \in Nat /\ unseen' \in Nat /\ over' \in Nat
  BY <1>1, <1>2, <1>6, <1>7
<1>10. Settles(s, 0)
  BY <1>1, <1>2, <1>6, <1>7, <1>8 DEF Settles
<1>11. /\ "done" \in WorkerStates /\ priced' \in [Specs -> Nat]
       /\ budget' \in [spent : Nat, reserved : Int, stop : BOOLEAN]
  BY <1>1, <1>2 DEF WorkerStates
<1> QED
  BY <1>1, <1>2, <1>3, <1>4, <1>9, <1>10, <1>11, WorkerMoves DEF Registered

\* A result that is not saved leaves what was set aside for its call.
LEMMA DropStep == ASSUME RunInv, NEW s \in Specs, Abandon(s) \/ SaveFails(s) PROVE RunInv'
<1>1. /\ worker[s] \in {"free", "priced", "unpriced", "failed"} /\ Quietly /\ WorkerEnds(s)
      /\ UNCHANGED <<results, registry, priced, budget, paid, unseen, over>>
  BY DEF Abandon, SaveFails, shared
<1>2. /\ Covered(s) /\ registry[s] \in Registered /\ registry \in [Specs -> Registered]
  BY <1>1, AtWork DEF RunInv, Types, Registered
<1>3. /\ worker' = [worker EXCEPT ![s] = worker'[s]] /\ worker'[s] = "done"
      /\ registry' = [registry EXCEPT ![s] = registry'[s]] /\ registry'[s] = registry[s]
      /\ budget' = [budget EXCEPT !.stop = budget'.stop] /\ budget'.stop \in BOOLEAN
  BY <1>1, <1>2 DEF RunInv, Types, WorkerEnds
<1>4. Covered(s)'
  <2>1. Cases' = Cases /\ results'[s] = results[s]
    BY <1>1 DEF Cases, Quietly
  <2> QED
    BY <1>1, <1>2, <1>3, <2>1 DEF Covered
<1> QED
  BY <1>1, <1>2, <1>3, <1>4, PlainMoves DEF Registered

\* The call ended: of what was set aside its price is paid; what is not covered is
\* unseen, or over.
LEMMA ReturnStep == ASSUME RunInv, NEW s \in Specs, CallReturns(s) PROVE RunInv'
<1>1. PICK outcome \in {"free", "priced", "unpriced", "failed"}, n \in 0..3 :
        /\ Real => outcome # "free"
        /\ ~Real => UNCHANGED <<paid, unseen, over>>
        /\ worker' = [worker EXCEPT ![s] = outcome]
        /\ paid' = paid + n * Price[s]
        /\ IF outcome \in Recorded
           THEN n > 0 /\ unseen' = unseen + (n - 1) * Price[s] /\ over' = over + Beyond(s, 1)
           ELSE unseen' = unseen + Beyond(s, n) /\ over' = over
        /\ registry' = IF outcome = "unpriced"
                       THEN setStatus(registry, s, "pricing_unresolved") ELSE registry
  <2>0. paid \in Nat /\ unseen \in Nat /\ over \in Nat /\ plan.requests \in 1..3
    BY PlanFacts DEF RunInv, Types, PlanType
  <2>1. CASE ~(Real /\ Client(s))
    <3>1. 0 * Price[s] = 0 /\ Beyond(s, 0) = 0
      BY BeyondFacts, ReserveFacts
    <3>2. /\ worker' = [worker EXCEPT ![s] = IF Real THEN "failed" ELSE "free"]
          /\ UNCHANGED <<registry, paid, unseen, over>>
      BY <2>1 DEF CallReturns
    <3>3. paid' = paid + 0 * Price[s] /\ unseen' = unseen + Beyond(s, 0) /\ over' = over
      BY <2>0, <3>1, <3>2
    <3>4. CASE Real
      BY <3>2, <3>3, <3>4 DEF Recorded
    <3>5. CASE ~Real
      BY <3>2, <3>3, <3>5 DEF Recorded
    <3> QED
      BY <3>4, <3>5
  <2>2. CASE Real /\ Client(s)
    <3>1. PICK n \in 1..plan.requests :
             /\ paid' = paid + n * Price[s]
             /\ \/ /\ unseen' = unseen + (n - 1) * Price[s] /\ over' = over + Beyond(s, 1)
                   /\ \/ worker' = [worker EXCEPT ![s] = "priced"] /\ UNCHANGED registry
                      \/ /\ worker' = [worker EXCEPT ![s] = "unpriced"]
                         /\ registry' = setStatus(registry, s, "pricing_unresolved")
                \/ /\ worker' = [worker EXCEPT ![s] = "failed"]
                   /\ unseen' = unseen + Beyond(s, n)
                   /\ UNCHANGED <<registry, over>>
      BY <2>2 DEF CallReturns
    <3>2. n \in 0..3 /\ n > 0
      BY <2>0, <3>1
    <3>3. CASE worker' = [worker EXCEPT ![s] = "priced"] /\ UNCHANGED registry
               /\ unseen' = unseen + (n - 1) * Price[s] /\ over' = over + Beyond(s, 1)
      BY <2>2, <3>1, <3>2, <3>3 DEF Recorded
    <3>4. CASE /\ worker' = [worker EXCEPT ![s] = "unpriced"]
               /\ registry' = setStatus(registry, s, "pricing_unresolved")
               /\ unseen' = unseen + (n - 1) * Price[s] /\ over' = over + Beyond(s, 1)
      BY <2>2, <3>1, <3>2, <3>4 DEF Recorded
    <3>5. CASE /\ worker' = [worker EXCEPT ![s] = "failed"]
               /\ unseen' = unseen + Beyond(s, n)
               /\ UNCHANGED <<registry, over>>
      BY <2>2, <3>1, <3>2, <3>5 DEF Recorded
    <3> QED
      BY <3>1, <3>3, <3>4, <3>5
  <2> QED
    BY <2>1, <2>2
<1>2. worker[s] = "calling" /\ Quietly /\ UNCHANGED <<results, priced, budget>>
  BY DEF CallReturns
<1>3. /\ exec = "launching" /\ Covered(s) /\ registry[s] \in Registered /\ registry \in [Specs -> Registered]
      /\ budget \in [spent : Nat, reserved : Int, stop : BOOLEAN]
      /\ results[s] \in Nat /\ results \in [Specs -> Nat] /\ priced \in [Specs -> Nat]
      /\ paid \in Nat /\ unseen \in Nat /\ over \in Nat
  BY <1>2, AtWork DEF RunInv, Types, Registered
<1>5. /\ worker' = [worker EXCEPT ![s] = worker'[s]] /\ worker'[s] = outcome
      /\ results' = [results EXCEPT ![s] = results'[s]] /\ results'[s] = results[s]
  BY <1>1, <1>2, <1>3 DEF RunInv, Types
<1>6. /\ registry' = [registry EXCEPT ![s] = registry'[s]] /\ registry'[s] \in Registered
      /\ outcome # "unpriced" => registry'[s] = registry[s]
      /\ outcome = "unpriced" => registry'[s].status = "pricing_unresolved"
  <2>1. CASE outcome = "unpriced"
    <3>1. registry' = [registry EXCEPT ![s] =
                         [status |-> "pricing_unresolved", expected |-> registry[s].completed,
                          completed |-> registry[s].completed]]
      BY <1>1, <2>1 DEF setStatus
    <3> QED
      BY <1>3, <2>1, <3>1 DEF Registered, CandidateStates, Blocked
  <2>2. CASE outcome # "unpriced"
    BY <1>1, <1>3, <2>2
  <2> QED
    BY <2>1, <2>2
<1>7. Covered(s)'
  <2>1. Cases' = Cases
    BY <1>2 DEF Cases, Quietly
  <2> QED
    BY <1>2, <1>3, <1>5, <1>6, <2>1 DEF Covered
<1> DEFINE R == perCallBudgetReserve(s)
           P == Price[s]
           cost == n * Price[s]
           others == (n - 1) * Price[s]
           beyond == Beyond(s, n)
           excess == Beyond(s, 1)
<1>8. /\ R \in Nat /\ P \in Nat /\ cost \in Nat /\ beyond \in Nat /\ excess \in Nat
      /\ cost <= R + beyond
      /\ n > 0 => cost = others + P /\ others \in Nat
      /\ P <= R => excess = 0
      /\ P > R => P = R + excess
  BY ReserveFacts, BeyondFacts, BeyondOne
<1>9. /\ Real => Weight(s) = R /\ Excess(s) = 0
      /\ Real /\ outcome \in Recorded =>
            /\ Weight(s)' = IF P > 0 /\ P <= R THEN R - P ELSE 0
            /\ Excess(s)' = excess
      /\ Real /\ outcome \notin Recorded => Weight(s)' = 0 /\ Excess(s)' = 0
  BY <1>2, <1>5 DEF Weight, Excess, Recorded, Real, Quietly
<1>10. /\ paid' = paid + cost /\ budget' = budget
       /\ outcome \in Recorded => n > 0 /\ unseen' = unseen + others /\ over' = over + excess
       /\ outcome \notin Recorded => unseen' = unseen + beyond /\ over' = over
  BY <1>1, <1>2
<1> HIDE DEF R, P, cost, others, beyond, excess
<1>11. paid' \in Nat /\ unseen' \in Nat /\ over' \in Nat
  BY <1>3, <1>8, <1>10
<1>12. Real => Settles(s, 0)
  <2> SUFFICES ASSUME Real PROVE Settles(s, 0)
    OBVIOUS
  <2>1. budget'.spent = budget.spent /\ budget'.reserved = budget.reserved
        /\ budget.spent \in Int /\ budget.reserved \in Int
    BY <1>3, <1>10
  <2>2. CASE outcome \in Recorded
    BY <1>3, <1>8, <1>9, <1>10, <2>1, <2>2 DEF Settles
  <2>3. CASE outcome \notin Recorded
    BY <1>3, <1>8, <1>9, <1>10, <2>1, <2>3 DEF Settles
  <2> QED
    BY <2>2, <2>3
<1>13. /\ budget' \in [spent : Nat, reserved : Int, stop : BOOLEAN] /\ (Real \/ paid' = paid)
       /\ priced' \in [Specs -> Nat] /\ outcome \in WorkerStates
  BY <1>1, <1>2, <1>3 DEF WorkerStates
<1> QED
  BY <1>2, <1>3, <1>5, <1>6, <1>7, <1>11, <1>12, <1>13, WorkerMoves DEF Registered

\* Settling replaces what was set aside by the price of the call, or counts
\* all of it as spent (reconcile).
LEMMA SaveStep == ASSUME RunInv, NEW s \in Specs, SaveResult(s) PROVE RunInv'
<1> DEFINE R == perCallBudgetReserve(s)
           P == Price[s]
           amount == IF worker[s] \in Recorded THEN Price[s] ELSE 0
           spending == IF amount > 0 THEN amount ELSE R
<1>1. /\ worker[s] \in {"free", "priced", "unpriced", "failed"} /\ Quietly
      /\ results' = [results EXCEPT ![s] = @ + 1] /\ UNCHANGED <<paid, unseen, over>>
      /\ budget' = IF Real THEN reconcile(budget, R, amount) ELSE charge(budget, FakeCharge)
      /\ \/ worker[s] = "unpriced" /\ WorkerEnds(s) /\ UNCHANGED <<registry, priced>>
         \/ /\ worker[s] # "unpriced" /\ registry' = addCompleted(registry, s)
            /\ priced' = [priced EXCEPT ![s] = @ + (IF worker[s] = "priced" THEN 1 ELSE 0)]
            /\ worker' = [worker EXCEPT ![s] = "turn"]
  BY DEF SaveResult, insertResult, Recorded
<1>2. /\ exec = "launching" /\ Covered(s) /\ registry[s] \in Registered /\ registry \in [Specs -> Registered]
      /\ budget \in [spent : Nat, reserved : Int, stop : BOOLEAN]
      /\ results[s] \in Nat /\ results \in [Specs -> Nat] /\ priced \in [Specs -> Nat]
      /\ paid \in Nat /\ unseen \in Nat /\ over \in Nat /\ Cases \in Nat
  BY <1>1, AtWork DEF RunInv, Types, Registered
<1>3. R \in Nat /\ P \in Nat /\ FakeCharge \in Nat
  BY ReserveFacts, EvaluationConstants
<1>4. /\ worker' = [worker EXCEPT ![s] = worker'[s]]
      /\ worker'[s] = IF worker[s] = "unpriced" THEN "done" ELSE "turn"
      /\ results' = [results EXCEPT ![s] = results'[s]] /\ results'[s] = results[s] + 1
      /\ results'[s] \in Nat
  BY <1>1, <1>2 DEF RunInv, Types, WorkerEnds
<1>5. priced' \in [Specs -> Nat]
  BY <1>1, <1>2
<1>6. /\ registry' = [registry EXCEPT ![s] = registry'[s]] /\ registry'[s] \in Registered
      /\ registry'[s].status = registry[s].status /\ registry'[s].expected = registry[s].expected
      /\ registry'[s].completed = IF worker[s] = "unpriced" THEN registry[s].completed
                                  ELSE registry[s].completed + 1
  BY <1>1, <1>2 DEF addCompleted, Registered
<1>7. Covered(s)'
  <2>1. Cases' = Cases
    BY <1>1 DEF Cases, Quietly
  <2>2. CASE worker[s] = "unpriced"
    BY <1>2, <1>4, <1>6, <2>1, <2>2 DEF Covered
  <2>3. CASE worker[s] # "unpriced"
    <3>1. registry[s].status = "runnable" /\ registry[s].completed < Cases
      BY <1>1, <1>2, <2>3 DEF Covered
    <3>2. registry[s].completed \in Nat
      BY <1>2 DEF Registered
    <3> QED
      BY <1>2, <1>4, <1>6, <2>1, <2>3, <3>1, <3>2 DEF Covered
  <2> QED
    BY <2>2, <2>3
<1>8. Real /\ worker[s] \in Recorded =>
        /\ P > 0 /\ P <= R => Weight(s) = R - P /\ Excess(s) = 0
        /\ P = 0 => Weight(s) = 0 /\ Excess(s) = 0
        /\ P > R => Weight(s) = 0 /\ Excess(s) = P - R
  <2>1. 1 * P = P
    BY <1>3
  <2> QED
    BY <1>3, <2>1 DEF Weight, Excess, Beyond, Recorded
<1>13. /\ Real /\ worker[s] \notin Recorded => Weight(s) = 0 /\ Excess(s) = 0
       /\ Real => Weight(s)' = 0 /\ Excess(s)' = 0
  BY <1>1, <1>4 DEF Weight, Excess, Recorded, Real, Quietly
<1>9. budget' \in [spent : Nat, reserved : Int, stop : BOOLEAN]
  <2>1. spending \in Nat /\ amount \in Nat /\ plan.budget \in Nat
    BY <1>1, <1>3, AtWork, PlanFacts DEF RunInv
  <2>2. CASE Real
    <3>1. budget' = [spent |-> budget.spent + spending, reserved |-> budget.reserved - R,
                     stop |-> budget.stop \/ budget.spent + spending >= plan.budget]
      BY <1>1, <2>2 DEF reconcile
    <3> QED
      BY <1>2, <1>3, <2>1, <2>2, <3>1
  <2>3. CASE ~Real
    <3>1. budget' = [budget EXCEPT !.spent = @ + FakeCharge,
                                   !.stop = @ \/ budget.spent + FakeCharge >= plan.budget]
      BY <1>1, <2>3 DEF charge
    <3>2. /\ budget'.spent = budget.spent + FakeCharge /\ budget'.reserved = budget.reserved
          /\ budget'.stop = (budget.stop \/ budget.spent + FakeCharge >= plan.budget)
          /\ budget' = [budget EXCEPT !.spent = budget'.spent, !.stop = budget'.stop]
      BY <1>2, <3>1
    <3>3. budget'.spent \in Nat
      BY <1>2, <1>3, <3>2
    <3>4. budget'.stop \in BOOLEAN
      BY <3>2
    <3> QED
      BY <1>2, <3>2, <3>3, <3>4
  <2> QED
    BY <2>2, <2>3
<1>10. Real => budget'.spent = budget.spent + spending /\ budget'.reserved = budget.reserved - R
  BY <1>1 DEF reconcile
<1>14. /\ worker[s] \in Recorded /\ P > 0 => spending = P
       /\ worker[s] \notin Recorded \/ P = 0 => spending = R
  BY <1>3
<1> HIDE DEF R, P, spending, amount
<1>11. Real => Settles(s, 0)
  <2> SUFFICES ASSUME Real PROVE Settles(s, 0)
    OBVIOUS
  <2>1. /\ budget.spent \in Int /\ budget.reserved \in Int /\ UNCHANGED <<paid, unseen, over>>
        /\ paid \in Int /\ unseen \in Int /\ over \in Int
    BY <1>1, <1>2
  <2>2. CASE worker[s] \in Recorded /\ P > 0
    BY <1>3, <1>8, <1>10, <1>13, <1>14, <2>1, <2>2 DEF Settles
  <2>3. CASE ~(worker[s] \in Recorded /\ P > 0)
    <3>1. spending = R /\ Weight(s) = 0 /\ Excess(s) = 0
      BY <1>3, <1>8, <1>13, <1>14, <2>3
    <3> QED
      BY <1>3, <1>10, <1>13, <2>1, <3>1 DEF Settles
  <2> QED
    BY <2>2, <2>3
<1>12. /\ worker'[s] \in WorkerStates /\ paid' \in Nat /\ unseen' \in Nat /\ over' \in Nat
       /\ paid' = paid
  BY <1>1, <1>2, <1>4 DEF WorkerStates
<1> QED
  BY <1>1, <1>2, <1>4, <1>5, <1>6, <1>7, <1>9, <1>11, <1>12, WorkerMoves DEF Registered

LEMMA WorkerKeeps == ASSUME RunInv, NEW s \in Specs, Worker(s) PROVE RunInv'
  BY StartStep, CasesOverStep, GiveUpStep, PutStep, UnavailableStep, ReturnStep, DropStep,
     SaveStep DEF Worker

\* The workers and the budget stand still: so does the ledger.
LEMMA LedgerStands ==
    ASSUME Ledger, UNCHANGED <<plan, worker, budget, paid, unseen, over>>
    PROVE  Ledger'
<1>1. Weights' = Weights /\ Excesses' = Excesses
  BY DEF Weights, Weight, Excesses, Excess, Real
<1> QED
  BY <1>1 DEF Ledger, SetAside, Counted, Real, Sums

LEMMA CoverageStands ==
    ASSUME \A s \in Specs : Covered(s), UNCHANGED <<plan, worker, registry, results>>
    PROVE  (\A s \in Specs : Covered(s))'
  BY DEF Covered, Cases

\* Before the first worker and after the last nothing changes but where the
\* run is and what its row says.
LEMMA OutsideStep ==
    ASSUME RunInv,
           CreateRun \/ CancelRun \/ Register \/ Begin \/ LoadDataset \/ Conclude
    PROVE  RunInv'
<1>1. UNCHANGED <<plan, results, recs, registry, priced, budget, worker, paid, unseen, over>>
  BY DEF CreateRun, CancelRun, Register, Begin, LoadDataset, Conclude, shared
<1>2. Types /\ Phases
  BY DEF RunInv
<1>3. /\ row' \in [status : RunStatuses, cancel : BOOLEAN]
      /\ exec' \in Early \cup Late \cup {"launching"}
      /\ final' \in {"none", "error"} \cup Terminal
      /\ row'.status = "none" => exec' = "idle"
      /\ row'.status \in Terminal => exec' \in {"closing", "ended"}
      /\ exec' \in Early => exec \in Early
      /\ exec' \in Early /\ exec' # "ended" => exec # "ended"
      /\ exec' = "ended" \/ (exec = "ended" => exec' = "ended" \/ row.status = "none")
      /\ exec' \in Late => exec \in Late
      /\ exec' = "launching" => exec \in {"loading", "launching"}
      /\ exec' \in {"recommending", "concluding"} => exec' = exec /\ final' = final
  <2>1. CASE CreateRun
    BY <1>2, <2>1 DEF CreateRun, Types, Phases, Early, Late, RunStatuses, Terminal
  <2>2. CASE CancelRun
    BY <1>2, <2>2 DEF CancelRun, Types, Phases, Early, Late, RunStatuses, Terminal
  <2>3. CASE Register
    BY <1>2, <2>3 DEF Register, Types, Phases, Early, Late, RunStatuses, Terminal
  <2>4. CASE Begin
    BY <1>2, <2>4 DEF Begin, failRun, Types, Phases, Early, Late, RunStatuses, Terminal
  <2>5. CASE LoadDataset
    BY <1>2, <2>5 DEF LoadDataset, failRun, Types, Phases, Early, Late, RunStatuses, Terminal
  <2>6. CASE Conclude
    BY <1>2, <2>6 DEF Conclude, Types, Phases, Early, Late, RunStatuses, Terminal
  <2> QED
    BY <2>1, <2>2, <2>3, <2>4, <2>5, <2>6
<1>4. Types'
  BY <1>1, <1>2, <1>3 DEF Types
<1>5. Cases' = Cases
  BY <1>1 DEF Cases
<1>6. Phases'
  BY <1>1, <1>2, <1>3, <1>5 DEF Phases, Types, Early, Late
<1>7. Ledger'
  BY <1>1, LedgerStands DEF RunInv
<1>8. exec' # "ended" => (\A s \in Specs : Covered(s))'
  <2>1. exec' # "ended" => exec # "ended"
    BY <1>2, <1>3 DEF Phases
  <2> QED
    BY <1>1, <2>1, CoverageStands DEF RunInv
<1> QED
  BY <1>4, <1>6, <1>7, <1>8 DEF RunInv

LEMMA LaunchStep == ASSUME RunInv, Launch PROVE RunInv'
<1>1. PICK s \in Specs : worker[s] = "queued" /\ worker' = [worker EXCEPT ![s] = "start"]
  BY OrderFacts DEF Launch
<1>2. exec = "launching" /\ UNCHANGED <<plan, row, results, recs, exec, final, ctxDone, registry, priced, budget, paid, unseen, over>>
  BY DEF Launch, shared
<1>3. /\ registry \in [Specs -> Registered] /\ results \in [Specs -> Nat] /\ worker \in [Specs -> WorkerStates]
      /\ budget \in [spent : Nat, reserved : Int, stop : BOOLEAN] 
      /\ paid \in Nat /\ unseen \in Nat /\ over \in Nat
      /\ priced \in [Specs -> Nat] /\ Covered(s)
  BY <1>2 DEF RunInv, Types, Registered
<1>4. worker' = [worker EXCEPT ![s] = worker'[s]] /\ worker'[s] = "start"
  BY <1>1, <1>3
<1>5. Weight(s) = 0 /\ Weight(s)' = 0 /\ Excess(s) = 0 /\ Excess(s)' = 0
  BY <1>1, <1>4 DEF Weight, Excess, Recorded
<1>6. Covered(s)'
  <2>1. Cases' = Cases /\ results'[s] = results[s] /\ registry'[s] = registry[s]
    BY <1>2 DEF Cases
  <2> QED
    BY <1>1, <1>3, <1>4, <2>1 DEF Covered
<1>7. /\ Settles(s, 0)
      /\ results' = [results EXCEPT ![s] = results'[s]] /\ results'[s] \in Nat
      /\ registry' = [registry EXCEPT ![s] = registry'[s]] /\ registry'[s] \in Registered
  BY <1>2, <1>3, <1>5 DEF Settles
<1> QED
  BY <1>2, <1>3, <1>4, <1>6, <1>7, WorkerMoves DEF WorkerStates, Registered, Quietly

LEMMA FinalStatuses == \A reg : FinalStatus(reg) \in Terminal
  BY DEF FinalStatus, Terminal

\* A candidate that was put all its cases is completed; the rest is not.
LEMMA FinalizeFacts ==
    ASSUME NEW rec \in Registered
    PROVE  /\ finalizeRunnable(rec) \in Registered
           /\ finalizeRunnable(rec).completed = rec.completed
           /\ finalizeRunnable(rec).expected = rec.expected
           /\ \/ finalizeRunnable(rec).status = rec.status
              \/ rec.status = "runnable" /\ finalizeRunnable(rec).status = "failed"
              \/ /\ rec.status = "runnable" /\ finalizeRunnable(rec).status = "completed"
                 /\ rec.completed >= rec.expected
<1>1. CASE rec.status # "runnable"
  <2>1. finalizeRunnable(rec) = rec
    BY <1>1 DEF finalizeRunnable
  <2> QED
    BY <2>1
<1>2. CASE rec.status = "runnable" /\ rec.completed >= rec.expected /\ rec.expected > 0
  <2>0. ~(rec.completed < rec.expected)
    BY <1>2 DEF Registered
  <2>1. finalizeRunnable(rec) = [rec EXCEPT !.status = "completed"]
    BY <1>2, <2>0 DEF finalizeRunnable
  <2> QED
    BY <1>2, <2>1 DEF Registered, CandidateStates
<1>3. CASE rec.status = "runnable" /\ rec.completed < rec.expected /\ rec.completed > 0
  <2>1. finalizeRunnable(rec) = [rec EXCEPT !.status = "failed"]
    BY <1>3 DEF finalizeRunnable, Registered
  <2> QED
    BY <1>3, <2>1 DEF Registered, CandidateStates
<1>4. CASE /\ rec.status = "runnable"
           /\ ~(rec.completed >= rec.expected /\ rec.expected > 0)
           /\ ~(rec.completed < rec.expected /\ rec.completed > 0)
  <2>1. finalizeRunnable(rec) = rec
    BY <1>4 DEF finalizeRunnable
  <2> QED
    BY <2>1
<1> QED
  BY <1>1, <1>2, <1>3, <1>4

LEMMA FinishStep == ASSUME RunInv, Finish PROVE RunInv'
<1>1. /\ exec = "launching" /\ exec' \in {"closing", "recommending"}
      /\ \A s \in Specs : worker[s] = "done"
      /\ registry' = [s \in Specs |-> finalizeRunnable(registry[s])]
      /\ final' = IF persistErr THEN "error" ELSE FinalStatus(registry')
      /\ exec' = IF persistErr THEN "closing" ELSE "recommending"
      /\ UNCHANGED <<plan, row, results, recs, ctxDone, priced, budget, worker, paid, unseen, over>>
  BY DEF Finish
<1>2. Types /\ Phases /\ (\A s \in Specs : Covered(s)) /\ registry \in [Specs -> Registered]
  BY <1>1 DEF RunInv, Types, Registered
<1>3. final' \in {"error"} \cup Terminal /\ (exec' = "recommending" => final' \in Terminal)
  BY <1>1, FinalStatuses
<1>4. registry' \in [Specs -> Registered]
  BY <1>1, <1>2, FinalizeFacts
<1>5. Types'
  BY <1>1, <1>2, <1>3, <1>4 DEF Types, Late, Registered
<1>6. Phases'
  BY <1>1, <1>2, <1>3 DEF Phases, Early, Late, Terminal
<1>7. ASSUME NEW s \in Specs PROVE Covered(s)'
  <2>1. /\ registry'[s] = finalizeRunnable(registry[s]) /\ registry[s] \in Registered
        /\ worker'[s] = "done" /\ results'[s] = results[s] /\ Cases' = Cases /\ Covered(s)
    BY <1>1, <1>2 DEF Cases
  <2>2. registry[s].completed \in Nat /\ registry[s].expected \in Nat /\ Cases \in Nat
    BY <1>2, <2>1, PlanFacts DEF Registered
  <2> QED
    BY <2>1, <2>2, FinalizeFacts DEF Covered
<1>8. Ledger'
  BY <1>1, LedgerStands DEF RunInv
<1> QED
  BY <1>5, <1>6, <1>7, <1>8 DEF RunInv

LEMMA RecommendStep == ASSUME RunInv, writeRecommendations PROVE RunInv'
<1>1. /\ exec = "recommending" /\ exec' \in {"closing", "concluding"}
      /\ final' = IF exec' = "closing" THEN "error" ELSE final
      /\ UNCHANGED <<plan, row, results, registry, priced, budget, worker, paid, unseen, over>>
  BY DEF writeRecommendations, shared
<1>2. recs' \in [Candidates -> {"none", "other", "recommend"}]
  <2>1. PICK good \in DefaultQualityFloor, n \in 1..Len(Order) :
          insertRecommendations(SelectAll(good), n)
    BY DEF writeRecommendations
  <2>2. \A s \in Candidates : SelectAll(good)[s] \in {"recommend", "other"}
    BY DEF SelectAll
  <2> QED
    BY <2>1, <2>2 DEF insertRecommendations
<1>3. Types /\ Phases /\ (\A s \in Specs : Covered(s))
  BY <1>1 DEF RunInv
<1>4. Types'
  BY <1>1, <1>2, <1>3 DEF Types, Late
<1>5. Phases'
  BY <1>1, <1>3 DEF Phases, Early, Late, Terminal
<1>6. (\A s \in Specs : Covered(s))' /\ Ledger'
  BY <1>1, <1>3, CoverageStands, LedgerStands DEF RunInv
<1> QED
  BY <1>4, <1>5, <1>6 DEF RunInv

LEMMA CloseStep == ASSUME RunInv, Close PROVE RunInv'
<1>1. /\ exec' = "ended" /\ Forget /\ UNCHANGED <<plan, results, recs>>
      /\ row'.status \in RunStatuses \ {"none"} /\ row' \in [status : RunStatuses, cancel : BOOLEAN]
  BY DEF Close, RunInv, Types, Phases, RunStatuses, Terminal
<1>2. Types /\ Cases \in Nat
  BY PlanFacts DEF RunInv
<1>3. /\ \A s \in Specs : worker'[s] = "queued"
      /\ paid' = 0 /\ unseen' = 0 /\ over' = 0 /\ budget'.spent = 0 /\ budget'.reserved = 0 /\ final' = "none"
      /\ registry' \in [Specs -> Registered] /\ priced' \in [Specs -> Nat]
      /\ worker' \in [Specs -> WorkerStates] /\ budget' \in [spent : Nat, reserved : Int, stop : BOOLEAN]
  BY <1>1, <1>2 DEF Forget, WorkerStates, Registered, CandidateStates
<1>4. Types'
  BY <1>1, <1>2, <1>3 DEF Types, Early, Registered
<1>5. Phases'
  BY <1>1, <1>3 DEF Phases, Early, Late
<1>6. SetAside'
  <2>1. NothingUnderWay' /\ (plan.budget \in Nat)'
    BY <1>1, <1>2, <1>3, PlanFacts DEF NothingUnderWay
  <2> QED
    BY <2>1, NothingSetAside, PTL
<1>7. Ledger'
  BY <1>1, <1>2, <1>3, <1>6, PlanFacts DEF Ledger
<1> QED
  BY <1>1, <1>4, <1>5, <1>7 DEF RunInv

LEMMA RunKeeps == ASSUME RunInv, RunNext \/ UNCHANGED runVars PROVE RunInv'
<1>1. CASE UNCHANGED runVars
  <2>1. UNCHANGED <<plan, row, results, recs, exec, final, registry, priced, budget, worker, paid, unseen, over>>
    BY <1>1 DEF runVars
  <2>2. Types' /\ Phases'
    BY <2>1 DEF RunInv, Types, Phases, Cases
  <2>3. exec' # "ended" => (\A s \in Specs : Covered(s))'
    BY <2>1, CoverageStands DEF RunInv
  <2>4. Ledger'
    BY <2>1, LedgerStands DEF RunInv
  <2> QED
    BY <2>2, <2>3, <2>4 DEF RunInv
<1>2. CASE CreateRun \/ CancelRun \/ Executor
  BY <1>2, OutsideStep, LaunchStep, FinishStep, RecommendStep, CloseStep DEF Executor
<1>3. CASE \E s \in Specs : Worker(s)
  BY <1>3, WorkerKeeps
<1> QED
  BY <1>1, <1>2, <1>3 DEF RunNext

-----------------------------------------------------------------------------
(* From the run to production. *)

LEMMA InitPolicy == ASSUME Init PROVE PolicyInv
<1>1. recs = [s \in Candidates |-> "none"] /\ approving = "none"
  BY DEF Init, RunInit
<1>2. PlanType(plan)
  BY EvaluationConstants DEF Init, RunInit
<1>3. Baseline \in Specs /\ Baseline \notin Candidates
  BY OrderFacts DEF Candidates
<1>4. policy \in {NoRow, [NoRow EXCEPT !.there = TRUE, !.previous = "inherit"],
                 [NoRow EXCEPT !.there = TRUE]}
  BY <1>2 DEF Init, PlanType
<1>5. policy \in PolicyRows /\ policy.spec = Baseline /\ policy.previous \in {"inherit", "null"}
  <2>1. /\ NoRow \in PolicyRows
        /\ NoRow.spec = Baseline /\ NoRow.previous = "null"
    BY <1>3 DEF NoRow, PolicyRows
  <2>2. \A r \in PolicyRows :
          /\ [r EXCEPT !.there = TRUE] \in PolicyRows
          /\ [r EXCEPT !.there = TRUE].spec = r.spec
          /\ [r EXCEPT !.there = TRUE].previous = r.previous
          /\ [r EXCEPT !.there = TRUE, !.previous = "inherit"] \in PolicyRows
          /\ [r EXCEPT !.there = TRUE, !.previous = "inherit"].spec = r.spec
          /\ [r EXCEPT !.there = TRUE, !.previous = "inherit"].previous = "inherit"
    BY DEF PolicyRows
  <2> QED
    BY <1>4, <2>1, <2>2
<1> QED
  BY <1>1, <1>3, <1>5 DEF PolicyInv, Recommended, Trusted

\* The hard cases are among the cases: enough of them are enough inputs.
LEMMA SampleFacts == ASSUME Types, effectiveSampleSize >= MinCases PROVE Enough
<1> DEFINE all == Distinct(DOMAIN plan.dataset)
           hard == Distinct({i \in DOMAIN plan.dataset : ~plan.dataset[i].borderline})
<1>1. DOMAIN plan.dataset = 1..Len(plan.dataset) /\ Len(plan.dataset) \in Nat
  BY PlanFacts DEF PlanType
<1>2. IsFiniteSet(DOMAIN plan.dataset)
  BY <1>1, FS_Interval
<1>3. IsFiniteSet(all)
  <2>1. all = {plan.dataset[i].input : i \in DOMAIN plan.dataset}
    BY DEF Distinct
  <2> DEFINE input == [i \in DOMAIN plan.dataset |-> plan.dataset[i].input]
  <2>2. input \in Surjection(DOMAIN plan.dataset, all)
    BY <2>1 DEF Surjection
  <2> HIDE DEF input, all
  <2> QED
    BY <1>2, <2>2, FS_Surjection
<1>4. hard \subseteq all
  BY DEF Distinct
<1> HIDE DEF all, hard
<1>5. Cardinality(hard) \in Nat /\ Cardinality(all) \in Nat /\ Cardinality(hard) <= Cardinality(all)
  BY <1>3, <1>4, FS_Subset, FS_CardinalityType
<1>6. effectiveSampleSize \in {Cardinality(hard), Cardinality(all)}
  BY DEF effectiveSampleSize, ComputeSampleStats, all, hard
<1> QED
  BY <1>5, <1>6, EvaluationConstants DEF Enough, all

\* What is recommended has answered every case.
LEMMA SelectedAnswered ==
    ASSUME RunInv, exec = "recommending", NEW good \in DefaultQualityFloor,
           NEW s \in Candidates, SelectAll(good)[s] = "recommend"
    PROVE  Answered(s)
<1>1. Real /\ plan.purpose = "benchmark" /\ Eligible(s)
  BY DEF SelectAll
<1>2. CoverageComplete(s) /\ effectiveSampleSize >= MinCases
  BY <1>1 DEF Eligible
<1>3. s \in Specs /\ Covered(s)
  BY OrderFacts DEF RunInv
<1>4. results[s] = Cases
  BY <1>2, <1>3 DEF CoverageComplete, Covered
<1> QED
  BY <1>1, <1>2, <1>4, SampleFacts DEF Answered, RunInv

\* What the decisions read of a run: its results and recommendations stand once
\* the recommendations are written, and a run that is over stays over.
LEMMA RunStands ==
    ASSUME RunInv, RunNext \/ UNCHANGED runVars
    PROVE  /\ plan' = plan
           /\ exec # "launching" => results' = results
           /\ recs' = recs \/ writeRecommendations
           /\ exec \in {"concluding", "closing", "ended"} =>
                 exec' \in {"concluding", "closing", "ended"}
           /\ row.status \in {"completed", "failed"} => row'.status \in {"completed", "failed"}
<1> USE DEF RunInv
<1>1. CASE UNCHANGED runVars
  BY <1>1 DEF runVars
<1>2. CASE CreateRun \/ CancelRun \/ Register \/ Begin \/ LoadDataset \/ Launch
  BY <1>2 DEF CreateRun, CancelRun, Register, Begin, LoadDataset, Launch, failRun, Types,
       Phases, Terminal
<1>3. CASE Finish \/ writeRecommendations \/ Conclude \/ Close
  BY <1>3 DEF Finish, writeRecommendations, Conclude, Close, Types, Phases, Terminal
<1>4. ASSUME NEW s \in Specs, Worker(s)
      PROVE  UNCHANGED <<plan, row, recs, exec>> /\ exec = "launching"
  <2>1. exec \notin Early \cup Late
    BY <1>4 DEF Phases, Worker, StartWorker, CasesOver, GiveUp, PutCase, ModelUnavailable,
         CallReturns, Abandon, SaveFails, SaveResult
  <2>2. Quietly
    BY <1>4 DEF Worker, StartWorker, CasesOver, GiveUp, PutCase, ModelUnavailable,
         CallReturns, Abandon, SaveFails, SaveResult
  <2> QED
    BY <2>1, <2>2 DEF Quietly, Types
<1> QED
  BY <1>1, <1>2, <1>3, <1>4 DEF RunNext, Executor

LEMMA RunKeepsPolicy ==
    ASSUME RunInv, PolicyInv, RunNext \/ UNCHANGED runVars,
           UNCHANGED <<policy, approving>>
    PROVE  PolicyInv'
<1>1. plan' = plan /\ Cases' = Cases /\ (Real <=> Real') /\ (Enough <=> Enough')
  BY RunStands DEF Cases, Real, Enough, Distinct
<1>2. ASSUME NEW s, Answered(s), exec # "launching" PROVE Answered(s)'
  BY <1>1, <1>2, RunStands DEF Answered
<1>3. ASSUME NEW s, Proven(s) PROVE Proven(s)'
  <2>1. exec # "launching"
    BY <1>3 DEF Proven, RunInv, Phases, Terminal
  <2> QED
    BY <1>2, <1>3, <2>1, RunStands DEF Proven
<1>4. Recommended'
  <2> SUFFICES ASSUME NEW s \in Candidates, recs'[s] = "recommend"
               PROVE  Answered(s)' /\ exec' \in {"concluding", "closing", "ended"}
    BY DEF Recommended
  <2>1. CASE recs' = recs
    BY <1>2, <2>1, RunStands DEF PolicyInv, Recommended
  <2>2. CASE writeRecommendations
    <3>1. exec = "recommending" /\ exec' \in {"concluding", "closing"}
      BY <2>2 DEF writeRecommendations
    <3>2. PICK good \in DefaultQualityFloor, n \in 1..Len(Order) :
            insertRecommendations(SelectAll(good), n)
      BY <2>2 DEF writeRecommendations
    <3>3. SelectAll(good)[s] = "recommend"
      BY <3>2 DEF insertRecommendations
    <3>4. Answered(s)
      BY <3>1, <3>3, SelectedAnswered
    <3> QED
      BY <1>2, <3>1, <3>4
  <2> QED
    BY <2>1, <2>2, RunStands
<1> QED
  BY <1>3, <1>4 DEF PolicyInv, Trusted

\* An approval is of a candidate whose benchmark is complete.
LEMMA ApproveKeeps ==
    ASSUME PolicyInv, NEW s \in Candidates, ApproveRecommendation(s)
    PROVE  PolicyInv'
<1>1. UNCHANGED <<plan, results, recs, exec, row, policy>> /\ approving' = s
  BY DEF ApproveRecommendation, runVars
<1>2. Proven(s)
  BY DEF ApproveRecommendation, Approvable, PolicyInv, Recommended, Proven
<1>3. ASSUME NEW t PROVE (Answered(t) <=> Answered(t)') /\ (Proven(t) <=> Proven(t)')
  BY <1>1 DEF Answered, Proven, Cases, Real, Enough, Distinct
<1> QED
  BY <1>1, <1>2, <1>3 DEF PolicyInv, Recommended, Trusted

LEMMA DecisionKeeps == ASSUME PolicyInv, applyPolicyTx \/ Rollback PROVE PolicyInv'
<1>1. UNCHANGED <<plan, results, recs, exec, row>>
  BY DEF applyPolicyTx, Rollback, runVars
<1>2. ASSUME NEW t PROVE (Answered(t) <=> Answered(t)') /\ (Proven(t) <=> Proven(t)')
  BY <1>1 DEF Answered, Proven, Cases, Real, Enough, Distinct
<1>3. Recommended'
  BY <1>1, <1>2 DEF PolicyInv, Recommended
<1>4. ASSUME NEW t PROVE Trusted(t) <=> Trusted(t)'
  BY <1>2 DEF Trusted
<1>5. CASE applyPolicyTx
  <2>1. /\ approving # "none" /\ approving' = "none"
        /\ policy' = [there |-> TRUE, spec |-> approving, previous |-> Inforce(policy), run |-> "this"]
    BY <1>5 DEF applyPolicyTx
  <2>2. approving \in Specs /\ Trusted(approving)
    BY <2>1, OrderFacts DEF PolicyInv, Trusted
  <2>3. Inforce(policy) \in Specs \cup {"inherit"} /\ (Inforce(policy) # "inherit" => Trusted(Inforce(policy)))
    BY DEF Inforce, PolicyInv, PolicyRows
  <2>4. policy' \in PolicyRows
    BY <2>1, <2>2, <2>3 DEF PolicyRows
  <2> QED
    BY <1>3, <1>4, <2>1, <2>2, <2>3, <2>4 DEF PolicyInv
<1>6. CASE Rollback
  <2>1. /\ policy.there /\ policy.previous # "null" /\ approving' = approving
        /\ policy' = IF policy.previous = "inherit" THEN NoRow ELSE Restored(policy)
    BY <1>6 DEF Rollback, RollbackPreview
  <2>2. approving # "none" => approving \in Candidates /\ Proven(approving)'
    BY <1>1, <2>1 DEF PolicyInv, Proven, Answered, Cases, Real, Enough, Distinct
  <2>3. CASE policy.previous = "inherit"
    <3>1. policy' \in PolicyRows /\ ~policy'.there
      BY <2>1, <2>3, OrderFacts DEF NoRow, PolicyRows
    <3> QED
      BY <1>3, <2>1, <2>2, <3>1 DEF PolicyInv
  <2>4. CASE policy.previous # "inherit"
    <3>1. policy.previous \in Specs /\ Trusted(policy.previous)
      BY <2>1, <2>4 DEF PolicyInv, PolicyRows
    <3>2. /\ policy' \in PolicyRows /\ policy'.spec = policy.previous
          /\ policy'.previous = "null"
      BY <2>1, <2>4, <3>1 DEF PolicyInv, PolicyRows, Restored
    <3> QED
      BY <1>3, <1>4, <2>1, <2>2, <3>1, <3>2 DEF PolicyInv
  <2> QED
    BY <2>3, <2>4
<1> QED
  BY <1>5, <1>6

LEMMA DecisionsLeaveRun ==
    [Next]_vars => \/ (RunNext \/ UNCHANGED runVars) /\ UNCHANGED <<policy, approving>>
                   \/ (\E s \in Candidates : ApproveRecommendation(s)) /\ UNCHANGED runVars
                   \/ (applyPolicyTx \/ Rollback) /\ UNCHANGED runVars
  BY DEF Next, vars, ApproveRecommendation, applyPolicyTx, Rollback

LEMMA EvaluationInvariant == Spec => [](RunInv /\ PolicyInv)
<1>1. Init => RunInv /\ PolicyInv
  BY InitRun, InitPolicy DEF Init
<1>2. RunInv /\ PolicyInv /\ [Next]_vars => RunInv' /\ PolicyInv'
  BY DecisionsLeaveRun, RunKeeps, RunKeepsPolicy, ApproveKeeps, DecisionKeeps
<1> QED
  BY <1>1, <1>2, PTL DEF Spec

\* What the provider's requests can have cost exceeds the run's budget only by the
\* requests whose usage the run did not get, beyond what their reservations count, and
\* by what the others cost beyond their reservation: whatever the number of workers, the
\* prices, the retries and the outcomes of the calls.  A reservation is made under the
\* budget before its call (tryReserve) and counts until the usage is known (reconcile).
THEOREM BudgetIsHeld == Spec => []BudgetHeld
<1>1. RunInv => BudgetHeld
  BY PaidIsCounted DEF RunInv, BudgetHeld
<1> QED
  BY <1>1, EvaluationInvariant, PTL

\* A candidate that the task's calls are made with has answered every case of a
\* real benchmark that is over, with enough cases, and has a price: however the
\* approval's reading of the recommendation and its transaction interleave with
\* the run and with other decisions (candidateCoverageComplete,
\* ApproveRecommendation, Rollback, ResolveTaskModel).
THEOREM ServedWasProven == Spec => []ServedIsProven
<1>1. ASSUME PolicyInv PROVE ServedIsProven
  <2> SUFFICES ASSUME NEW s \in Candidates, NEW userChoice \in BOOLEAN, s \in ApplyTask(userChoice)
               PROVE  /\ ResolveTaskModel(userChoice).source = "policy_approved"
                      /\ Proven(s) /\ Resolve(s)
    BY <1>1 DEF ServedIsProven, Proven, Answered, Enough
  <2>1. s \in ResolveTaskModel(userChoice).specs /\ s # Baseline
    BY DEF ApplyTask, Candidates
  <2>2. CASE policy.there
    <3>1. ResolveTaskModel(userChoice) =
            [source |-> "policy_approved",
             specs |-> {t \in ApprovedPolicy : t \notin plan.foreign /\ Resolve(t)}]
      BY <2>2 DEF ResolveTaskModel
    <3>2. s = policy.spec /\ Resolve(s)
      BY <2>1, <2>2, <3>1 DEF ApprovedPolicy
    <3> QED
      BY <1>1, <2>2, <3>1, <3>2 DEF PolicyInv, Trusted
  <2>3. CASE ~policy.there /\ userChoice
    BY <2>1, <2>3 DEF ResolveTaskModel
  <2>4. CASE ~policy.there /\ ~userChoice
    BY <2>1, <2>4 DEF ResolveTaskModel
  <2> QED
    BY <2>2, <2>3, <2>4
<1> QED
  BY <1>1, EvaluationInvariant, PTL

\* A rollback is offered only while the newest decision is the approval it
\* undoes, however approvals and rollbacks follow each other (RollbackPreview,
\* Rollback, applyPolicyTx).
THEOREM RollbackUndoesNewest == Spec => []RollbackUndoesLast
<1>1. Init => RollbackUndoesLast
  <2> SUFFICES ASSUME Init PROVE RollbackUndoesLast
    OBVIOUS
  <2>1. plan.incumbent \in {"inherit", "approved", "restored"}
    BY EvaluationConstants DEF Init, RunInit, PlanType
  <2> QED
    BY <2>1 DEF Init, RollbackUndoesLast, RollbackPreview, NoRow
<1>2. RollbackUndoesLast /\ PolicyInv /\ [Next]_vars => RollbackUndoesLast'
  <2> SUFFICES ASSUME RollbackUndoesLast, PolicyInv, [Next]_vars PROVE RollbackUndoesLast'
    OBVIOUS
  <2>1. CASE UNCHANGED <<policy, audit>>
    BY <2>1 DEF RollbackUndoesLast, RollbackPreview
  <2>2. CASE applyPolicyTx
    BY <2>2 DEF applyPolicyTx, RollbackUndoesLast
  <2>3. CASE Rollback
    <3>1. ~policy'.there \/ policy'.previous = "null"
      BY <2>3 DEF Rollback, NoRow, Restored, PolicyInv, PolicyRows
    <3> QED
      BY <3>1 DEF RollbackUndoesLast, RollbackPreview
  <2> QED
    BY <2>1, <2>2, <2>3 DEF Next, vars, ApproveRecommendation
<1> QED
  BY <1>1, <1>2, EvaluationInvariant, PTL DEF Spec

-----------------------------------------------------------------------------
(***************************************************************************)
(* The bounds of what a run saves and of the decisions.                    *)
(***************************************************************************)
ResultsInv ==
    \A s \in Specs : /\ results[s] <= Cases /\ registry[s].completed <= Cases
                     /\ worker[s] = "unpriced" => results[s] < Cases
ModelsInv == gone \subseteq {ModelOf[s] : s \in Specs}
DecisionsInv ==
    /\ audit.kind \in {"none", "approve", "rollback"}
    /\ decisions \in Nat /\ decisions <= MaxDecisions + 1
    /\ approving # "none" => decisions <= MaxDecisions

\* A step that leaves the results and the completed cases alone keeps them in bounds,
LEMMA BoundsStand ==
    ASSUME ResultsInv, UNCHANGED <<plan, results>>,
           \A s \in Specs : /\ registry'[s].completed = registry[s].completed
                            /\ worker'[s] = "unpriced" => worker[s] = "unpriced" \/ results[s] < Cases
    PROVE  ResultsInv'
  BY DEF ResultsInv, Cases

\* and so does every step of a worker:
LEMMA WorkerBounds ==
    ASSUME RunInv, ResultsInv, NEW s \in Specs, Worker(s)
    PROVE  ResultsInv'
<1>1. /\ registry \in [Specs -> Registered] /\ results \in [Specs -> Nat] /\ Cases \in Nat
      /\ worker \in [Specs -> WorkerStates]
  BY PlanFacts DEF RunInv, Types, Registered
<1>2. UNCHANGED plan /\ Cases' = Cases
  BY DEF Worker, StartWorker, CasesOver, GiveUp, PutCase, ModelUnavailable, CallReturns, Abandon, SaveFails,
         SaveResult, Quietly, Cases
<1>3. CASE StartWorker(s) \/ ModelUnavailable(s)
  <2>1. UNCHANGED results /\ \/ UNCHANGED registry
                             \/ \E status \in Blocked : registry' = setStatus(registry, s, status)
    BY <1>3 DEF StartWorker, ModelUnavailable, Blocked
  <2>2. \A t \in Specs : registry'[t].completed = registry[t].completed
    BY <1>1, <2>1 DEF setStatus
  <2>3. \A t \in Specs : worker'[t] = "unpriced" => worker[t] = "unpriced"
    BY <1>1, <1>3 DEF StartWorker, ModelUnavailable, WorkerEnds
  <2> QED
    BY <1>2, <2>1, <2>2, <2>3, BoundsStand
<1>4. CASE CasesOver(s)
  <2>1. UNCHANGED results /\ registry' = [registry EXCEPT ![s] = finalizeRunnable(registry[s])]
    BY <1>4 DEF CasesOver
  <2>2. \A t \in Specs : registry'[t].completed = registry[t].completed
    BY <1>1, <2>1, FinalizeFacts
  <2>3. \A t \in Specs : worker'[t] = "unpriced" => worker[t] = "unpriced"
    BY <1>1, <1>4 DEF CasesOver, WorkerEnds
  <2> QED
    BY <1>2, <2>1, <2>2, <2>3, BoundsStand
<1>5. CASE GiveUp(s) \/ PutCase(s) \/ Abandon(s) \/ SaveFails(s)
  <2>1. UNCHANGED <<results, registry>>
    BY <1>5 DEF GiveUp, PutCase, Abandon, SaveFails, shared
  <2>2. \A t \in Specs : worker'[t] = "unpriced" => worker[t] = "unpriced"
    BY <1>1, <1>5 DEF GiveUp, PutCase, Abandon, SaveFails, WorkerEnds
  <2> QED
    BY <1>2, <2>1, <2>2, BoundsStand
<1>6. CASE CallReturns(s)
  <2>1. UNCHANGED results /\ (UNCHANGED registry \/ registry' = setStatus(registry, s, "pricing_unresolved"))
    BY <1>6 DEF CallReturns
  <2>2. \A t \in Specs : registry'[t].completed = registry[t].completed
    BY <1>1, <2>1 DEF setStatus
  <2>3. worker[s] = "calling" /\ results[s] < Cases
    BY <1>6, AtWork DEF CallReturns, Covered
  <2>4. \A t \in Specs : worker'[t] = "unpriced" => worker[t] = "unpriced" \/ t = s
    BY <1>1, <1>6 DEF CallReturns
  <2> QED
    BY <1>2, <2>1, <2>2, <2>3, <2>4, BoundsStand
<1>7. CASE SaveResult(s)
  <2>1. /\ worker[s] \in {"free", "priced", "unpriced", "failed"} /\ Covered(s)
        /\ results' = [results EXCEPT ![s] = results[s] + 1]
        /\ \A t \in Specs : worker'[t] = "unpriced" => t # s /\ worker[t] = "unpriced"
    <3>1. worker' = [worker EXCEPT ![s] = "done"] \/ worker' = [worker EXCEPT ![s] = "turn"]
      BY <1>7 DEF SaveResult, WorkerEnds
    <3> QED
      BY <1>1, <1>7, <3>1, AtWork DEF SaveResult, insertResult
  <2>2. results[s] < Cases
    BY <1>1, <2>1 DEF ResultsInv, Covered
  <2>3. \/ UNCHANGED registry
        \/ registry' = addCompleted(registry, s) /\ worker[s] # "unpriced" /\ registry[s].completed < Cases
    BY <1>7, <2>1, AtWork DEF SaveResult, Covered
  <2>4. \A t \in Specs : registry'[t].completed <= Cases
    <3>1. registry[s].completed \in Nat
      BY <1>1 DEF Registered
    <3>2. registry[s].completed < Cases => registry[s].completed + 1 <= Cases
      BY <1>1, <3>1
    <3>3. CASE UNCHANGED registry
      BY <3>3 DEF ResultsInv
    <3>4. CASE registry' = addCompleted(registry, s) /\ registry[s].completed < Cases
      <4>1. \A t \in Specs : registry'[t].completed = IF t = s THEN registry[s].completed + 1 ELSE registry[t].completed
        BY <1>1, <3>4 DEF addCompleted, Registered
      <4> QED
        BY <3>2, <3>4, <4>1 DEF ResultsInv
    <3> QED
      BY <2>3, <3>3, <3>4
  <2>5. \A t \in Specs : results'[t] <= Cases /\ (t # s => results'[t] = results[t])
    BY <1>1, <2>1, <2>2 DEF ResultsInv
  <2> QED
    BY <1>2, <2>1, <2>4, <2>5 DEF ResultsInv
<1> QED
  BY <1>3, <1>4, <1>5, <1>6, <1>7 DEF Worker

\* and of the run.
LEMMA RunBounds ==
    ASSUME RunInv, ResultsInv, RunNext \/ UNCHANGED runVars
    PROVE  ResultsInv'
<1>1. CASE UNCHANGED runVars
  BY <1>1, BoundsStand DEF runVars
<1>2. CASE CreateRun \/ CancelRun \/ Register \/ Begin \/ LoadDataset \/ Conclude \/ writeRecommendations
  <2>1. UNCHANGED <<plan, results, registry, worker>>
    BY <1>2 DEF CreateRun, CancelRun, Register, Begin, LoadDataset, Conclude, writeRecommendations, shared
  <2> QED
    BY <2>1, BoundsStand
<1>3. CASE Launch
  <2>1. UNCHANGED <<plan, results, registry>> /\ \E t \in Specs : worker' = [worker EXCEPT ![t] = "start"]
    BY <1>3, OrderFacts DEF Launch, shared
  <2> QED
    BY <2>1, BoundsStand DEF RunInv, Types
<1>4. CASE Finish
  <2>1. UNCHANGED <<plan, results, worker>> /\ registry' = [s \in Specs |-> finalizeRunnable(registry[s])]
    BY <1>4 DEF Finish
  <2>2. \A s \in Specs : registry'[s].completed = registry[s].completed
    BY <2>1, FinalizeFacts DEF RunInv, Types, Registered
  <2> QED
    BY <2>1, <2>2, BoundsStand
<1>5. CASE Close
  <2>1. UNCHANGED <<plan, results>> /\ Cases' = Cases /\ Cases \in Nat
    BY <1>5, PlanFacts DEF Close, Cases, RunInv
  <2>2. \A s \in Specs : registry'[s].completed = 0 /\ worker'[s] = "queued"
    BY <1>5 DEF Close, Forget
  <2> QED
    BY <2>1, <2>2 DEF ResultsInv
<1>6. CASE \E s \in Specs : Worker(s)
  BY <1>6, WorkerBounds
<1> QED
  BY <1>1, <1>2, <1>3, <1>4, <1>5, <1>6 DEF RunNext, Executor

\* The models that the provider turned out not to offer are models of the run.
LEMMA ModelsKnown ==
    ASSUME ModelsInv, RunNext \/ UNCHANGED runVars
    PROVE  ModelsInv'
<1>1. CASE Close
  BY <1>1 DEF Close, Forget, ModelsInv
<1>2. CASE \E s \in Specs : ModelUnavailable(s)
  BY <1>2 DEF ModelUnavailable, ModelsInv
<1>3. CASE ~Close /\ ~(\E s \in Specs : ModelUnavailable(s))
  <2>1. UNCHANGED gone
    BY <1>3 DEF RunNext, CreateRun, CancelRun, Executor, Register, Begin, LoadDataset, Launch, Finish,
           writeRecommendations, Conclude, Worker, StartWorker, CasesOver, GiveUp, PutCase, CallReturns, Abandon,
           SaveFails, SaveResult, shared, runVars
  <2> QED
    BY <2>1 DEF ModelsInv
<1> QED
  BY <1>1, <1>2, <1>3

\* An approval is counted when it is written, which may be after other decisions.
LEMMA DecisionsBounded ==
    ASSUME DecisionsInv, [Next]_vars
    PROVE  DecisionsInv'
<1>0. MaxDecisions \in Nat
  BY PolicyConstants
<1>1. CASE UNCHANGED <<audit, approving, decisions>>
  BY <1>1 DEF DecisionsInv
<1>2. CASE \E s \in Candidates : ApproveRecommendation(s)
  BY <1>0, <1>2 DEF ApproveRecommendation, DecisionsInv
<1>3. CASE applyPolicyTx
  BY <1>0, <1>3 DEF applyPolicyTx, DecisionsInv
<1>4. CASE Rollback
  BY <1>0, <1>4 DEF Rollback, DecisionsInv
<1> QED
  BY <1>1, <1>2, <1>3, <1>4 DEF Next, vars

\* Whatever is cancelled, fails or is decided: a spec has at most one result for each case of the
\* dataset (insertResult), no model is given up that is none of the run's, and what is approved, restored
\* and recorded are specs of the run.
THEOREM EvaluationTypeCorrect == Spec => []TypeOK
<1> DEFINE Inv == RunInv /\ PolicyInv /\ ResultsInv /\ ModelsInv /\ DecisionsInv
<1>1. Init => Inv
  <2>1. ASSUME Init PROVE ResultsInv /\ ModelsInv
    <3>1. RunInv /\ Cases \in Nat
      BY <2>1, InitRun, PlanFacts DEF Init, RunInv
    <3> QED
      BY <2>1, <3>1 DEF Init, RunInit, ResultsInv, ModelsInv
  <2>2. ASSUME Init PROVE DecisionsInv
    <3>1. plan.incumbent \in {"inherit", "approved", "restored"}
      BY <2>2, EvaluationConstants DEF Init, RunInit, PlanType
    <3> QED
      BY <2>2, <3>1, PolicyConstants DEF Init, DecisionsInv
  <2> QED
    BY <2>1, <2>2, InitRun, InitPolicy DEF Init
<1>2. Inv /\ [Next]_vars => Inv'
  <2> SUFFICES ASSUME Inv, [Next]_vars PROVE Inv'
    OBVIOUS
  <2>1. (RunNext \/ UNCHANGED runVars) /\ DecisionsInv'
    BY DecisionsLeaveRun, DecisionsBounded
  <2>2. RunInv' /\ PolicyInv'
    BY DecisionsLeaveRun, RunKeeps, RunKeepsPolicy, ApproveKeeps, DecisionKeeps
  <2> QED
    BY <2>1, <2>2, RunBounds, ModelsKnown
<1>3. Inv => TypeOK
  <2> SUFFICES ASSUME Inv PROVE TypeOK
    OBVIOUS
  <2>1. results \in [Specs -> 0..Cases]
    BY PlanFacts DEF RunInv, Types, ResultsInv
  <2>2. RunTypeOK
    BY <2>1 DEF RunInv, Types, ModelsInv, RunTypeOK, WorkerStates, RunStatuses, Terminal, Early, Late
  <2>3. decisions \in 0..(MaxDecisions + 1)
    BY PolicyConstants DEF DecisionsInv
  <2> QED
    BY <2>2, <2>3 DEF PolicyInv, PolicyRows, DecisionsInv, TypeOK
<1> QED
  BY <1>1, <1>2, <1>3, PTL DEF Spec

\* A run that is over: only its last step may still write its row, and only to say that it failed.
OverIsOver == row.status \in Terminal => row'.status \in {row.status, "failed"}

\* A run that is over stays over, although Conclude and Close write the status over whatever is
\* there: neither a request to cancel, nor a goroutine that begins, nor a decision opens it again, and what
\* was cancelled or ran out of budget never counts as completed (RunSettles without its fairness).
THEOREM RunStaysOver == Spec => [][OverIsOver]_vars
<1>1. RunInv /\ [Next]_vars => OverIsOver
  <2> SUFFICES ASSUME RunInv, [Next]_vars, row.status \in Terminal
               PROVE  row'.status \in {row.status, "failed"}
    BY DEF OverIsOver
  <2>1. exec \in {"closing", "ended"} /\ row.status \notin {"none", "pending", "running"}
    BY DEF RunInv, Phases, Terminal
  <2>2. CASE UNCHANGED row
    BY <2>2
  <2>3. CASE CancelRun
    BY <2>3 DEF CancelRun, RunInv, Types
  <2>4. CASE Close
    BY <2>4 DEF Close, RunInv, Types
  <2> QED
    BY <2>1, <2>2, <2>3, <2>4, DecisionsLeaveRun DEF RunNext, Executor, runVars, CreateRun, Register, Begin, LoadDataset,
       Launch, Finish, writeRecommendations, Conclude, Worker, StartWorker, CasesOver, GiveUp, PutCase,
       ModelUnavailable, CallReturns, Abandon, SaveFails, SaveResult, Quietly
<1> QED
  BY <1>1, EvaluationInvariant, PTL DEF Spec

-----------------------------------------------------------------------------
(***************************************************************************)
(* The steps a run has left.                                               *)
(***************************************************************************)
\* What adds up w along the order of the specs (Sums), and its last value.
RunningSum(w) == CHOOSE f : Sums(f, w)
Sum(w) == RunningSum(w)[Len(Order)]

\* Induction, as a fact about a set: the least number outside of it has a predecessor within.
Less == OpToRel(<, Nat)
LEMMA LessThan == \A x \in Nat, y \in Nat : <<x, y>> \in Less <=> x < y
  BY DEF OpToRel, Less

LEMMA InductiveSet ==
    ASSUME NEW S, 0 \in S, \A n \in Nat : n \in S => n + 1 \in S
    PROVE  Nat \subseteq S
<1> DEFINE T == Nat \ S
<1> SUFFICES ASSUME T # {} PROVE FALSE
  OBVIOUS
<1>1. IsWellFoundedOn(Less, Nat) /\ T \subseteq Nat
  BY NatLessThanWellFounded, Zenon DEF Less
<1> HIDE DEF T
<1>2. PICK x \in T : \A y \in T : ~(<<y, x>> \in Less)
  BY <1>1, WFMin, Zenon
<1>3. x \in Nat /\ x \notin S
  BY DEF T
<1>4. x # 0 /\ x - 1 \in Nat /\ x - 1 < x /\ x = (x - 1) + 1
  BY <1>3
<1>5. <<x - 1, x>> \in Less
  BY <1>3, <1>4, LessThan
<1>6. x - 1 \in S
  BY <1>2, <1>4, <1>5 DEF T
<1> QED
  BY <1>3, <1>4, <1>6

\* f adds up the first n entries.
SumsTo(f, w, n) ==
    /\ f \in [0..n -> Nat] /\ f[0] = 0
    /\ \A i \in 1..n : f[i] = f[i - 1] + w[Order[i]]
    /\ \A i, k \in 0..n : i <= k => f[i] <= f[k]

\* Something adds up every entry,
LEMMA SumsExist ==
    ASSUME NEW w \in Costs
    PROVE  \E f : SumsTo(f, w, Len(Order))
<1> DEFINE S == {n \in Nat : n <= Len(Order) => \E f : SumsTo(f, w, n)}
<1>0. Len(Order) \in Nat /\ \A i \in 1..Len(Order) : w[Order[i]] \in Nat
  BY OrderFacts DEF Costs
<1>1. 0 \in S
  <2>1. SumsTo([i \in 0..0 |-> 0], w, 0)
    BY DEF SumsTo
  <2> QED
    BY <2>1
<1>2. ASSUME NEW n \in Nat, n \in S PROVE n + 1 \in S
  <2> SUFFICES ASSUME n + 1 <= Len(Order) PROVE \E f : SumsTo(f, w, n + 1)
    OBVIOUS
  <2>1. n <= Len(Order) /\ n + 1 \in 1..Len(Order)
    BY <1>0
  <2>2. PICK f : SumsTo(f, w, n)
    BY <1>2, <2>1
  <2>3. w[Order[n + 1]] \in Nat /\ f[n] \in Nat
    BY <1>0, <2>1, <2>2 DEF SumsTo
  <2> DEFINE v == w[Order[n + 1]]
             g == [i \in 0..(n + 1) |-> IF i <= n THEN f[i] ELSE f[n] + v]
  <2>4. v \in Nat /\ f[n] + v \in Nat
    BY <2>3
  <2>5. \A i \in 0..n : g[i] = f[i]
    OBVIOUS
  <2>11. g[n + 1] = f[n] + v
    OBVIOUS
  <2>12. g = [i \in 0..(n + 1) |-> g[i]]
    OBVIOUS
  <2>13. \A i \in 0..(n + 1) : i \in 0..n \/ i = n + 1
    OBVIOUS
  <2>6. v = w[Order[n + 1]]
    OBVIOUS
  <2> HIDE DEF g, v
  <2>7. \A i \in 0..(n + 1) : g[i] \in Nat
    <3>1. \A i \in 0..n : f[i] \in Nat
      BY <2>2 DEF SumsTo
    <3> QED
      BY <2>4, <2>5, <2>11, <2>13, <3>1
  <2>8. g \in [0..(n + 1) -> Nat] /\ g[0] = 0
    <3>1. 0 \in 0..n /\ f[0] = 0
      BY <2>2 DEF SumsTo
    <3>2. g[0] = 0
      BY <2>5, <3>1
    <3> QED
      BY <2>7, <2>12, <3>2
  <2>9. ASSUME NEW i \in 1..(n + 1) PROVE g[i] = g[i - 1] + w[Order[i]]
    <3>1. CASE i = n + 1
      <4>1. i - 1 = n /\ n \in 0..n
        BY <3>1
      <4> QED
        BY <2>5, <2>6, <2>11, <3>1, <4>1
    <3>2. CASE i # n + 1
      <4>1. i \in 1..n /\ i \in 0..n /\ i - 1 \in 0..n
        BY <3>2
      <4> QED
        BY <2>2, <2>5, <4>1 DEF SumsTo
    <3> QED
      BY <3>1, <3>2
  <2>10. ASSUME NEW i \in 0..(n + 1), NEW k \in 0..(n + 1), i <= k PROVE g[i] <= g[k]
    <3>1. CASE k \in 0..n
      <4>1. i \in 0..n
        BY <2>10, <3>1
      <4> QED
        BY <2>2, <2>5, <2>10, <3>1, <4>1 DEF SumsTo
    <3>2. CASE k = n + 1 /\ i \in 0..n
      <4>1. f[i] <= f[n] /\ f[i] \in Nat
        BY <2>2, <3>2 DEF SumsTo
      <4> QED
        BY <2>3, <2>4, <2>5, <2>11, <3>2, <4>1
    <3>3. CASE k = n + 1 /\ i = n + 1
      BY <2>7, <3>3
    <3> QED
      BY <3>1, <3>2, <3>3
  <2> QED
    BY <2>8, <2>9, <2>10 DEF SumsTo
<1> HIDE DEF S
<1>3. Nat \subseteq S
  BY <1>1, <1>2, InductiveSet
<1> QED
  BY <1>0, <1>3 DEF S

\* and only one thing does.
LEMMA SumsUnique ==
    ASSUME NEW w \in Costs, NEW f, Sums(f, w), NEW g, Sums(g, w)
    PROVE  f[Len(Order)] = g[Len(Order)]
<1> DEFINE S == {n \in Nat : n <= Len(Order) => f[n] = g[n]}
<1>0. Len(Order) \in Nat
  BY OrderFacts
<1>1. 0 \in S
  BY DEF Sums
<1>2. ASSUME NEW n \in Nat, n \in S PROVE n + 1 \in S
  <2> SUFFICES ASSUME n + 1 <= Len(Order) PROVE f[n + 1] = g[n + 1]
    OBVIOUS
  <2>1. n <= Len(Order) /\ n + 1 \in 1..Len(Order) /\ (n + 1) - 1 = n
    BY <1>0
  <2>2. f[n] = g[n]
    BY <1>2, <2>1
  <2>3. f[n + 1] = f[n] + w[Order[n + 1]] /\ g[n + 1] = g[n] + w[Order[n + 1]]
    BY <2>1 DEF Sums
  <2> QED
    BY <2>2, <2>3
<1> HIDE DEF S
<1>3. Nat \subseteq S
  BY <1>1, <1>2, InductiveSet
<1> QED
  BY <1>0, <1>3 DEF S

LEMMA SumFacts ==
    ASSUME NEW w \in Costs
    PROVE  Sums(RunningSum(w), w) /\ Sum(w) \in Nat
<1>0. Len(Order) \in Nat
  BY OrderFacts
<1>1. PICK f : SumsTo(f, w, Len(Order))
  BY SumsExist
<1>2. f \in [0..Len(Order) -> Nat] /\ f \in [0..Len(Order) -> Int]
  BY <1>1 DEF SumsTo
<1>3. Sums(f, w)
  BY <1>1, <1>2 DEF SumsTo, Sums
<1>4. Sums(RunningSum(w), w)
  BY <1>3 DEF RunningSum
<1>5. Sum(w) = f[Len(Order)]
  BY <1>3, <1>4, SumsUnique DEF Sum
<1> QED
  BY <1>0, <1>2, <1>4, <1>5

\* One entry becomes less, or all vanish: so does the sum, or it becomes less.
LEMMA SumMoves ==
    ASSUME NEW w \in Costs, NEW u \in Costs, NEW s \in Specs, \A t \in Specs \ {s} : u[t] = w[t]
    PROVE  Sum(u) = Sum(w) - w[s] + u[s]
<1>1. Sums(RunningSum(w), w) /\ Sums(RunningSum(u), u)
  BY SumFacts
<1>2. PICK g : Sums(g, u) /\ g[Len(Order)] = RunningSum(w)[Len(Order)] - w[s] + u[s]
  BY <1>1, SumsUpdate
<1> QED
  BY <1>1, <1>2, SumsUnique DEF Sum

LEMMA SumOfNothing ==
    ASSUME NEW w \in Costs, \A s \in Specs : w[s] = 0
    PROVE  Sum(w) = 0
<1> DEFINE f == [i \in 0..Len(Order) |-> 0]
<1>1. Sums(f, w) /\ f[Len(Order)] = 0
  BY OrderFacts DEF Sums
<1> HIDE DEF f
<1> QED
  BY <1>1, SumFacts, SumsUnique DEF Sum

-----------------------------------------------------------------------------
\* A worker has three steps for each case it has not completed, and its start and its end.
CasesLeft(s) == Cases - registry[s].completed
StepsFrom(at) == CASE at = "queued" -> 5 [] at = "start" -> 4 [] at = "turn" -> 3 [] at = "calling" -> 2 [] OTHER -> 1
WorkLeft(s) == IF exec = "ended" \/ worker[s] = "done" THEN 0 ELSE 3 * CasesLeft(s) + StepsFrom(worker[s])
Work == [s \in Specs |-> WorkLeft(s)]

\* The run's goroutine goes through its phases once, and is asked to cancel once.
PhasesLeft ==
    CASE exec = "idle" -> 8      [] exec = "spawned" -> 7      [] exec = "registered" -> 6
      [] exec = "loading" -> 5   [] exec = "launching" -> 4    [] exec = "recommending" -> 3
      [] exec = "concluding" -> 2 [] exec = "closing" -> 1     [] OTHER -> 0
StepsLeft == Sum(Work) + PhasesLeft + (IF row.cancel THEN 0 ELSE 1)

WorkTyped == Work \in Costs /\ \A s \in Specs : CasesLeft(s) \in Nat

LEMMA WorkFacts ==
    ASSUME RunInv, ResultsInv
    PROVE  WorkTyped
<1>1. ASSUME NEW s \in Specs PROVE WorkLeft(s) \in Nat /\ CasesLeft(s) \in Nat
  <2>1. CasesLeft(s) \in Nat
    BY PlanFacts DEF RunInv, Types, ResultsInv, CasesLeft
  <2> DEFINE c == CasesLeft(s)
  <2>2. c \in Nat
    BY <2>1
  <2> HIDE DEF c
  <2>3. WorkLeft(s) \in {0, 3 * c + 5, 3 * c + 4, 3 * c + 3, 3 * c + 2, 3 * c + 1}
    BY DEF WorkLeft, StepsFrom, c
  <2> QED
    BY <2>1, <2>2, <2>3
<1> QED
  BY <1>1 DEF WorkTyped, Work, Costs

LEMMA PhaseFacts == PhasesLeft \in Nat
  BY DEF PhasesLeft

\* The work of the others stays, of this one becomes less: there are fewer steps left.
LEMMA WorkerLowers ==
    ASSUME WorkTyped, WorkTyped', NEW s \in Specs,
           UNCHANGED <<plan, row, exec>>,
           \A t \in Specs \ {s} : worker'[t] = worker[t] /\ registry'[t].completed = registry[t].completed,
           WorkLeft(s)' < WorkLeft(s)
    PROVE  StepsLeft' < StepsLeft
<1>1. Work \in Costs /\ Work' \in Costs
  BY DEF WorkTyped
<1>2. \A t \in Specs : Work[t] = WorkLeft(t) /\ Work'[t] = WorkLeft(t)'
  BY DEF Work
<1>3. \A t \in Specs \ {s} : Work'[t] = Work[t]
  BY <1>2 DEF WorkLeft, CasesLeft, Cases
<1> DEFINE w == Work
           u == Work'
<1>4. w \in Costs /\ u \in Costs /\ \A t \in Specs \ {s} : u[t] = w[t]
  BY <1>1, <1>3
<1>5. u[s] < w[s]
  BY <1>2
<1>6. Sum(Work)' = Sum(u)
  BY DEF Sum, RunningSum, Sums
<1>7. PhasesLeft' = PhasesLeft /\ row' = row
  BY DEF PhasesLeft
<1>8. Sum(w) = Sum(Work)
  OBVIOUS
<1> HIDE DEF w, u
<1>9. Sum(u) = Sum(w) - w[s] + u[s] /\ Sum(w) \in Nat /\ Sum(u) \in Nat
  BY <1>4, SumMoves, SumFacts
<1>10. w[s] \in Nat /\ u[s] \in Nat
  BY <1>4 DEF Costs
<1>11. Sum(u) < Sum(w)
  BY <1>5, <1>9, <1>10
<1> DEFINE asked == IF row.cancel THEN 0 ELSE 1
<1>12. StepsLeft = Sum(w) + PhasesLeft + asked /\ StepsLeft' = Sum(u) + PhasesLeft + asked /\ asked \in Nat
  BY <1>6, <1>7, <1>8 DEF StepsLeft
<1> HIDE DEF asked
<1> QED
  BY <1>9, <1>11, <1>12, PhaseFacts

\* A step of a worker lowers its work: it ends, goes on to its next place, or has completed one
\* case more when it is back at the top of the loop.
LEMMA WorkerStepLowers ==
    ASSUME RunInv, WorkTyped, WorkTyped', NEW s \in Specs, Worker(s)
    PROVE  StepsLeft' < StepsLeft
<1>1. worker[s] \notin {"queued", "done"}
  BY DEF Worker, StartWorker, CasesOver, GiveUp, PutCase, ModelUnavailable, CallReturns, Abandon, SaveFails, SaveResult
<1>2. /\ exec = "launching" /\ Covered(s) /\ registry \in [Specs -> Registered]
      /\ worker \in [Specs -> WorkerStates] /\ registry[s].completed \in Nat /\ Cases \in Nat
  BY <1>1, AtWork DEF RunInv, Types, Registered
<1>3. UNCHANGED <<plan, row, exec>> /\ Cases' = Cases
  BY DEF Worker, StartWorker, CasesOver, GiveUp, PutCase, ModelUnavailable, CallReturns, Abandon, SaveFails,
         SaveResult, Quietly, Cases
<1> DEFINE Others == \A t \in Specs \ {s} : /\ worker'[t] = worker[t]
                                             /\ registry'[t].completed = registry[t].completed
           Ends == worker'[s] = "done"
           Goes == /\ registry'[s].completed = registry[s].completed
                   /\ worker'[s] # "done" /\ StepsFrom(worker'[s]) < StepsFrom(worker[s])
           Completes == /\ registry'[s].completed = registry[s].completed + 1
                        /\ worker[s] \notin {"start", "turn", "calling"} /\ worker'[s] = "turn"
<1>4. Others /\ (Ends \/ Goes \/ Completes)
  <2>1. CASE StartWorker(s)
    <3>1. CASE worker' = [worker EXCEPT ![s] = "turn"] /\ UNCHANGED registry
      BY <1>2, <2>1, <3>1 DEF StartWorker, StepsFrom
    <3>2. CASE WorkerEnds(s) /\ \E status \in Blocked : registry' = setStatus(registry, s, status)
      BY <1>2, <3>2 DEF WorkerEnds, setStatus
    <3> QED
      BY <2>1, <3>1, <3>2 DEF StartWorker, Blocked
  <2>2. CASE CasesOver(s) \/ GiveUp(s) \/ ModelUnavailable(s) \/ Abandon(s) \/ SaveFails(s)
    BY <1>2, <2>2 DEF CasesOver, GiveUp, ModelUnavailable, Abandon, SaveFails, WorkerEnds, setStatus, shared
  <2>3. CASE PutCase(s)
    BY <1>2, <2>3 DEF PutCase, StepsFrom
  <2>4. CASE CallReturns(s)
    <3>1. /\ worker[s] = "calling"
          /\ \E at \in {"free", "priced", "unpriced", "failed"} : worker' = [worker EXCEPT ![s] = at]
          /\ UNCHANGED registry \/ registry' = setStatus(registry, s, "pricing_unresolved")
      BY <2>4 DEF CallReturns
    <3> QED
      BY <1>2, <3>1 DEF setStatus, StepsFrom
  <2>5. CASE SaveResult(s)
    <3>1. \/ WorkerEnds(s) /\ UNCHANGED registry
          \/ /\ worker[s] \in {"free", "priced", "unpriced", "failed"}
             /\ registry' = addCompleted(registry, s) /\ worker' = [worker EXCEPT ![s] = "turn"]
      BY <2>5 DEF SaveResult
    <3>2. CASE WorkerEnds(s) /\ UNCHANGED registry
      BY <1>2, <3>2 DEF WorkerEnds
    <3>3. CASE /\ worker[s] \in {"free", "priced", "unpriced", "failed"}
               /\ registry' = addCompleted(registry, s) /\ worker' = [worker EXCEPT ![s] = "turn"]
      <4>1. \A t \in Specs : registry'[t].completed = IF t = s THEN registry[s].completed + 1 ELSE registry[t].completed
        BY <1>2, <3>3 DEF addCompleted, Registered
      <4>2. worker'[s] = "turn" /\ \A t \in Specs \ {s} : worker'[t] = worker[t]
        BY <1>2, <3>3
      <4> QED
        BY <3>3, <4>1, <4>2
    <3> QED
      BY <3>1, <3>2, <3>3
  <2> QED
    BY <2>1, <2>2, <2>3, <2>4, <2>5 DEF Worker
<1>5. /\ CasesLeft(s) \in Nat /\ CasesLeft(s)' \in Nat
      /\ CasesLeft(s) = Cases - registry[s].completed /\ CasesLeft(s)' = Cases - registry'[s].completed
  BY <1>2, <1>3 DEF WorkTyped, CasesLeft
<1>6. /\ WorkLeft(s) = 3 * CasesLeft(s) + StepsFrom(worker[s])
      /\ WorkLeft(s)' = IF worker'[s] = "done" THEN 0 ELSE 3 * CasesLeft(s)' + StepsFrom(worker'[s])
  BY <1>1, <1>2, <1>3 DEF WorkLeft
<1>7. \A at : StepsFrom(at) \in 1..5
  BY DEF StepsFrom
<1>8. WorkLeft(s)' < WorkLeft(s)
  <2> DEFINE c == CasesLeft(s)
             d == CasesLeft(s)'
             m == StepsFrom(worker[s])
             n == StepsFrom(worker'[s])
  <2>1. c \in Nat /\ d \in Nat /\ m \in 1..5 /\ n \in 1..5
    BY <1>5, <1>7
  <2>2. CASE Ends
    <3>1. WorkLeft(s)' = 0 /\ WorkLeft(s) = 3 * c + m
      BY <1>6, <2>2
    <3> HIDE DEF c, m
    <3> QED
      BY <2>1, <3>1
  <2>3. CASE Goes
    <3>1. d = c /\ n < m /\ WorkLeft(s)' = 3 * d + n /\ WorkLeft(s) = 3 * c + m
      BY <1>5, <1>6, <2>3
    <3> HIDE DEF c, d, m, n
    <3> QED
      BY <2>1, <3>1
  <2>4. CASE Completes
    <3>1. d = c - 1
      BY <1>2, <1>5, <2>4
    <3>2. m = 1 /\ n = 3
      BY <1>1, <2>4 DEF StepsFrom
    <3>3. WorkLeft(s)' = 3 * d + n /\ WorkLeft(s) = 3 * c + m
      BY <1>6, <2>4
    <3> HIDE DEF c, d, m, n
    <3> QED
      BY <2>1, <3>1, <3>2, <3>3
  <2> QED
    BY <1>4, <2>2, <2>3, <2>4
<1> QED
  BY <1>3, <1>4, <1>8, WorkerLowers

\* The work stays or vanishes, and a phase ends or the request to cancel arrives.
LEMMA PhaseLowers ==
    ASSUME WorkTyped, WorkTyped',
           Work' = Work \/ (\A s \in Specs : WorkLeft(s)' = 0),
           \/ PhasesLeft' < PhasesLeft /\ row'.cancel = row.cancel
           \/ PhasesLeft' = PhasesLeft /\ ~row.cancel /\ row'.cancel
    PROVE  StepsLeft' < StepsLeft
<1> DEFINE w == Work
           u == Work'
<1>1. w \in Costs /\ u \in Costs
  BY DEF WorkTyped
<1>2. w = u \/ \A s \in Specs : u[s] = 0
  BY DEF Work
<1>3. Sum(Work)' = Sum(u) /\ Sum(Work) = Sum(w)
  BY DEF Sum, RunningSum, Sums
<1> HIDE DEF w, u
<1>4. Sum(w) \in Nat /\ Sum(u) \in Nat /\ (Sum(u) = Sum(w) \/ Sum(u) = 0)
  BY <1>1, <1>2, SumFacts, SumOfNothing
<1> DEFINE asked == IF row.cancel THEN 0 ELSE 1
           then == IF row'.cancel THEN 0 ELSE 1
<1>5. StepsLeft = Sum(w) + PhasesLeft + asked /\ StepsLeft' = Sum(u) + PhasesLeft' + then
  BY <1>3 DEF StepsLeft
<1>6. /\ asked \in Nat /\ then \in Nat /\ PhasesLeft \in Nat /\ PhasesLeft' \in Nat
      /\ \/ PhasesLeft' < PhasesLeft /\ then = asked
         \/ PhasesLeft' = PhasesLeft /\ asked = 1 /\ then = 0
  <2>1. PhasesLeft' \in Nat
    BY DEF PhasesLeft
  <2> QED
    BY <2>1, PhaseFacts
<1> HIDE DEF asked, then
<1> QED
  BY <1>4, <1>5, <1>6

LEMMA OtherStepLowers ==
    ASSUME RunInv, WorkTyped, WorkTyped', CreateRun \/ CancelRun \/ Executor
    PROVE  StepsLeft' < StepsLeft
<1>0. worker \in [Specs -> WorkerStates] /\ registry \in [Specs -> Registered] /\ row \in [status : RunStatuses, cancel : BOOLEAN]
  BY DEF RunInv, Types, Registered
<1>1. CASE Launch
  <2>1. PICK s \in Specs : worker[s] = "queued" /\ worker' = [worker EXCEPT ![s] = "start"]
    BY <1>1, OrderFacts DEF Launch
  <2>2. exec = "launching" /\ UNCHANGED <<plan, row, exec, registry>>
    BY <1>1 DEF Launch, shared
  <2>3. CasesLeft(s)' = CasesLeft(s) /\ CasesLeft(s) \in Nat
    BY <2>2 DEF WorkTyped, CasesLeft, Cases
  <2>4. WorkLeft(s) = 3 * CasesLeft(s) + 5 /\ WorkLeft(s)' = 3 * CasesLeft(s) + 4
    BY <1>0, <2>1, <2>2, <2>3 DEF WorkLeft, StepsFrom
  <2>5. WorkLeft(s)' < WorkLeft(s)
    BY <2>3, <2>4
  <2>6. \A t \in Specs \ {s} : worker'[t] = worker[t] /\ registry'[t].completed = registry[t].completed
    BY <1>0, <2>1, <2>2
  <2> QED
    BY <2>2, <2>5, <2>6, WorkerLowers
<1>2. CASE CancelRun
  <2>1. ~row.cancel /\ row'.cancel /\ UNCHANGED <<plan, exec, worker, registry>>
    BY <1>0, <1>2 DEF CancelRun, shared
  <2>2. PhasesLeft' = PhasesLeft /\ Work' = Work
    BY <2>1 DEF PhasesLeft, Work, WorkLeft, CasesLeft, Cases
  <2> QED
    BY <2>1, <2>2, PhaseLowers
<1>3. CASE CreateRun \/ Register \/ Begin \/ LoadDataset \/ Finish \/ writeRecommendations \/ Conclude \/ Close
  <2>1. PhasesLeft' < PhasesLeft /\ row'.cancel = row.cancel
    <3>1. CASE CreateRun
      <4>1. exec = "idle"
        BY <3>1 DEF CreateRun, RunInv, Phases
      <4> QED
        BY <1>0, <3>1, <4>1 DEF CreateRun, PhasesLeft
    <3>2. CASE Register \/ Begin \/ LoadDataset
      BY <1>0, <3>2 DEF Register, Begin, LoadDataset, failRun, PhasesLeft
    <3>3. CASE Finish \/ writeRecommendations \/ Conclude \/ Close
      BY <1>0, <3>3 DEF Finish, writeRecommendations, Conclude, Close, PhasesLeft
    <3> QED
      BY <1>3, <3>1, <3>2, <3>3
  <2>2. Work' = Work \/ (\A s \in Specs : WorkLeft(s)' = 0)
    <3>1. CASE exec' = "ended"
      BY <3>1 DEF WorkLeft
    <3>2. CASE exec' # "ended"
      <4>1. exec # "ended" /\ UNCHANGED <<plan, worker>>
        BY <1>3, <3>2 DEF CreateRun, RunInv, Phases, Register, Begin, LoadDataset, Finish, writeRecommendations,
           Conclude, Close
      <4>2. \A s \in Specs : registry'[s].completed = registry[s].completed
        <5>1. CASE Finish
          BY <1>0, <5>1, FinalizeFacts DEF Finish
        <5>2. CASE ~Finish
          BY <1>3, <3>2, <5>2 DEF CreateRun, Register, Begin, LoadDataset, writeRecommendations, Conclude, Close, shared
        <5> QED
          BY <5>1, <5>2
      <4>3. \A s \in Specs : WorkLeft(s)' = WorkLeft(s)
        BY <3>2, <4>1, <4>2 DEF WorkLeft, CasesLeft, Cases
      <4> QED
        BY <4>3 DEF Work
    <3> QED
      BY <3>1, <3>2
  <2> QED
    BY <2>1, <2>2, PhaseLowers
<1> QED
  BY <1>1, <1>2, <1>3 DEF Executor

\* Every step of a run lowers what is left of it.
StepsCount == StepsLeft \in Nat /\ (RunNext => StepsLeft' < StepsLeft)

\* No run goes on for ever: whatever its workers' calls come to, whoever gives up, fails to save or
\* is cancelled, each step of the run, its workers and its requests lowers a number that is a natural one
\* (RunSettles without its fairness: the loops of runCandidate, launch and the goroutine itself end).
THEOREM EveryRunIsBounded == Spec => [][StepsCount]_vars
<1> DEFINE Inv == RunInv /\ PolicyInv /\ ResultsInv
<1>1. Init => Inv
  <2>1. ASSUME Init PROVE ResultsInv
    <3>1. RunInv /\ Cases \in Nat
      BY <2>1, InitRun, PlanFacts DEF Init, RunInv
    <3> QED
      BY <2>1, <3>1 DEF Init, RunInit, ResultsInv
  <2> QED
    BY <2>1, InitRun, InitPolicy DEF Init
<1>2. Inv /\ [Next]_vars => Inv'
  BY DecisionsLeaveRun, RunKeeps, RunKeepsPolicy, ApproveKeeps, DecisionKeeps, RunBounds
<1>4. Inv => WorkTyped
  BY WorkFacts
<1>3. Inv /\ WorkTyped /\ WorkTyped' /\ [Next]_vars => StepsCount
  <2> SUFFICES ASSUME Inv, WorkTyped, WorkTyped' PROVE StepsCount
    OBVIOUS
  <2>1. Sum(Work) \in Nat
    BY SumFacts DEF WorkTyped
  <2>2. StepsLeft \in Nat
    BY <2>1, PhaseFacts DEF StepsLeft
  <2>3. RunNext => StepsLeft' < StepsLeft
    BY WorkerStepLowers, OtherStepLowers DEF RunNext
  <2> QED
    BY <2>2, <2>3 DEF StepsCount
<1> QED
  BY <1>1, <1>2, <1>3, <1>4, PTL DEF Spec
=============================================================================
