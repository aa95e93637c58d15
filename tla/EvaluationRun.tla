--------------------------- MODULE EvaluationRun ---------------------------
(***************************************************************************)
(* One run of the model evaluation: an administrator compares candidate     *)
(* models with the one in use by putting the same cases to each, under a    *)
(* budget (internal/eval/engine).                                           *)
(*                                                                          *)
(* The run is a goroutine that starts one worker per candidate, at most     *)
(* MaxConcurrency of them at a time, waits for all, decides how the run     *)
(* ended and writes the recommendations.  The workers share the budget, the *)
(* registry of the candidates' states and the set of models the provider    *)
(* turned out not to offer.  Meanwhile a request may cancel the run, and    *)
(* any write to the database may fail.                                      *)
(*                                                                          *)
(* A candidate's answers are abstracted to what the decisions read: how     *)
(* many cases it completed, how many of its calls had a price, and whether  *)
(* it cleared the quality floor (chosen when the recommendations are made). *)
(* Of a case only its input and whether it is borderline are kept.          *)
(***************************************************************************)
EXTENDS Naturals, FiniteSets, Sequences

CONSTANTS
  Order,           \* the specs in the order they are started, baseline first
  ModelOf,         \* the model of a spec: specs may differ only in effort
  Price,           \* what a request with a spec costs the provider's account
  Bound,           \* what the most tokens that are reckoned with would cost
  FakeCharge,      \* what a case of the fake runner counts
  MinCases,        \* distinct cases a recommendation takes
  MaxConcurrency,  \* workers at a time
  Plans            \* the runs an administrator may ask for (see PlanType)

Specs == {Order[i] : i \in DOMAIN Order}
Baseline == Order[1]
Candidates == Specs \ {Baseline}

PlanType(plan) ==
  /\ plan.purpose \in {"smoke", "benchmark"}
  /\ plan.runner \in {"fake", "real"}
  /\ plan.budget \in Nat \ {0}
  /\ plan.foreign \subseteq Specs      \* specs of another provider
  /\ plan.billable \subseteq Specs     \* specs in the billing catalog
  /\ plan.staged \subseteq Specs       \* specs priced for evaluations only
  /\ plan.unsupported \subseteq Specs  \* specs whose model has no such effort
  /\ plan.dataset \in Seq([input : Nat, borderline : BOOLEAN])
  /\ plan.writing \in BOOLEAN          \* a task whose answers a person judges
  /\ plan.requests \in 1..3            \* requests a call may take, chat's limit
  /\ plan.faults \in Nat               \* bound: writes that fail
  /\ plan.cancels \in BOOLEAN          \* bound: whether a request cancels it
  /\ plan.incumbent \in {"inherit", "approved", "restored"}

\* The specs are distinct: nothing keeps an administrator from listing one twice,
\* but the run would then count two workers' cases under one entry.
ASSUME EvaluationConstants ==
  /\ Order \in Seq(Specs) /\ Len(Order) > 1
  /\ \A i, j \in DOMAIN Order : Order[i] = Order[j] => i = j
  /\ \A s \in Specs : Price[s] \in Nat /\ Bound[s] \in Nat \ {0}
  /\ FakeCharge \in Nat
  /\ MinCases \in Nat /\ MaxConcurrency \in Nat \ {0}
  /\ \A plan \in Plans : PlanType(plan)

\* The cost of as many tokens as are reckoned with, plus a quarter, at the billing
\* catalog's price or its fallback.  A request may cost more: one of a spec without
\* a limit of its own is reckoned with 8192 tokens and sent the settings' limit,
\* or none; and a staged price may be above the fallback.
perCallBudgetReserve(s) == Bound[s] + Bound[s] \div 4

VARIABLES
  plan,       \* the run asked for
  row,        \* the row of model_eval_runs: its status and cancel_requested
  results,    \* rows of model_eval_results, per spec
  recs,       \* rows of model_eval_recommendations: none, other, recommend
  exec,       \* where the run's goroutine is
  final,      \* the status it decided on, "error" when a write failed
  ctxDone,    \* its context is cancelled
  registry,   \* each candidate's state, expected and completed cases
  priced,     \* completed cases whose call had a price, per spec
  gone,       \* models the provider does not offer
  budget,     \* what is spent, what is reserved, and whether to stop
  persistErr, \* a result could not be saved
  worker,     \* where each spec's worker is
  paid,       \* the most the provider's requests can have cost
  unseen,     \* of it, for requests whose usage the run did not get, beyond
              \* what their call's reservation goes on to count
  over,       \* of it, for the other requests, beyond the reservation
  faults

runVars == <<plan, row, results, recs, exec, final, ctxDone, registry, priced,
             gone, budget, persistErr, worker, paid, unseen, over, faults>>
money == <<paid, unseen, over>>
shared == <<registry, priced, gone, budget, persistErr>>

Blocked == {"unavailable_model", "pricing_unresolved"}
Terminal == {"completed", "failed", "cancelled", "budget_exhausted"}
Real == plan.runner = "real"
Cases == Len(plan.dataset)
Distinct(cases) == {plan.dataset[i].input : i \in cases}

RunInit ==
  /\ plan \in Plans
  /\ row = [status |-> "none", cancel |-> FALSE]
  /\ results = [s \in Specs |-> 0]
  /\ recs = [s \in Candidates |-> "none"]
  /\ exec = "idle" /\ final = "none"
  /\ ctxDone = FALSE
  /\ registry = [s \in Specs |-> [status |-> "runnable", expected |-> Cases, completed |-> 0]]
  /\ priced = [s \in Specs |-> 0]
  /\ gone = {}
  /\ budget = [spent |-> 0, reserved |-> 0, stop |-> FALSE]
  /\ persistErr = FALSE
  /\ worker = [s \in Specs |-> "queued"]
  /\ paid = 0 /\ unseen = 0 /\ over = 0
  /\ faults = 0

-----------------------------------------------------------------------------
(* The dataset and the catalogs. *)

\* The same input has the same expectation wherever it appears.
ValidateBundle ==
  \A i, j \in DOMAIN plan.dataset :
    plan.dataset[i].input = plan.dataset[j].input =>
      plan.dataset[i].borderline = plan.dataset[j].borderline

Load == ValidateBundle

ComputeSampleStats ==
  [unique |-> Cardinality(Distinct(DOMAIN plan.dataset)),
   hard |-> Cardinality(Distinct({i \in DOMAIN plan.dataset : ~plan.dataset[i].borderline}))]

\* A dataset without a hard case counts by its inputs.
effectiveSampleSize == IF ComputeSampleStats.hard > 0 THEN ComputeSampleStats.hard
                       ELSE ComputeSampleStats.unique

\* The billing catalog, asked strictly; the evaluations' prices beside it.
Resolve(s) == s \in plan.billable
lookupStaged(s) == s \in plan.staged
ResolveEvalPricing(s) == Resolve(s) \/ lookupStaged(s)

-----------------------------------------------------------------------------
(* The candidates' states. *)

\* A blocked candidate is expected to complete no more than it has.
setStatus(reg, s, status) ==
  [reg EXCEPT ![s] = [status |-> status, expected |-> reg[s].completed,
                      completed |-> reg[s].completed]]

addCompleted(reg, s) == [reg EXCEPT ![s].completed = @ + 1]

\* A candidate whose first case was never put stays runnable.
finalizeRunnable(rec) ==
  CASE rec.status # "runnable" -> rec
    [] rec.status = "runnable" /\ rec.completed >= rec.expected /\ rec.expected > 0 ->
         [rec EXCEPT !.status = "completed"]
    [] rec.status = "runnable" /\ rec.completed < rec.expected /\ rec.completed > 0 ->
         [rec EXCEPT !.status = "failed"]
    [] OTHER -> rec

CoverageComplete(s) ==
  registry[s].status = "completed" /\ registry[s].completed >= registry[s].expected

benchmarkComplete(reg) ==
  \A s \in Specs : \/ reg[s].status \in Blocked
                   \/ reg[s].status = "completed" /\ reg[s].completed >= reg[s].expected

-----------------------------------------------------------------------------
(* The budget: each operation is one critical section of its mutex. *)

overBudget == budget.spent + budget.reserved >= plan.budget

\* Mutant of CanReserve: what other workers have set aside is not counted.
CanReserveAlone(amount) == ~budget.stop /\ budget.spent + amount <= plan.budget

CanReserve(amount) == ~budget.stop /\ budget.spent + budget.reserved + amount <= plan.budget

\* A call whose usage is not known counts as much as was reserved for it.
reconcile(b, reserved, amount) ==
  LET spent == b.spent + (IF amount > 0 THEN amount ELSE reserved) IN
  [spent |-> spent, reserved |-> b.reserved - reserved,
   stop |-> b.stop \/ spent >= plan.budget]

\* A case that nothing was reserved for.
charge(b, amount) ==
  [b EXCEPT !.spent = @ + amount, !.stop = @ \/ b.spent + amount >= plan.budget]

-----------------------------------------------------------------------------
(* The requests. *)

\* POST /api/admin/models/evals: the run is inserted and its goroutine started.
CreateRun ==
  /\ row.status = "none" /\ Load
  /\ row' = [row EXCEPT !.status = "pending"]
  /\ exec' = "spawned"
  /\ UNCHANGED <<plan, results, recs, final, ctxDone, shared, worker, money, faults>>

\* POST /api/admin/models/evals/{id}/cancel.  The context is cancelled when the
\* goroutine is registered, the flag set whatever state the run is in.
CancelRun ==
  /\ plan.cancels /\ row.status # "none" /\ ~row.cancel
  /\ ctxDone' = (ctxDone \/ exec \notin {"spawned", "ended"})
  /\ row' = [row EXCEPT !.cancel = TRUE]
  /\ UNCHANGED <<plan, results, recs, exec, final, shared, worker, money, faults>>

-----------------------------------------------------------------------------
(* A worker: one candidate, its cases one after the other. *)

WorkerEnds(s) == worker' = [worker EXCEPT ![s] = "done"]
Quietly == UNCHANGED <<plan, row, recs, exec, final, ctxDone>>

\* The model is known not to be offered, or the evaluation has no price for it.
StartWorker(s) ==
  /\ worker[s] = "start"
  /\ LET blocked == IF ModelOf[s] \in gone THEN "unavailable_model"
                    ELSE IF Real /\ ~ResolveEvalPricing(s) THEN "pricing_unresolved"
                    ELSE "none" IN
     IF blocked = "none"
     THEN worker' = [worker EXCEPT ![s] = "turn"] /\ UNCHANGED registry
     ELSE WorkerEnds(s) /\ registry' = setStatus(registry, s, blocked)
  /\ Quietly
  /\ UNCHANGED <<results, priced, gone, budget, persistErr, money, faults>>

\* The top of the loop over the cases.
CasesOver(s) ==
  /\ worker[s] = "turn" /\ registry[s].completed = Cases
  /\ registry' = [registry EXCEPT ![s] = finalizeRunnable(@)]
  /\ WorkerEnds(s)
  /\ Quietly
  /\ UNCHANGED <<results, priced, gone, budget, persistErr, money, faults>>

MustStop(s) == ctxDone \/ budget.stop \/ row.cancel \/ overBudget
                 \/ (Real /\ ~CanReserve(perCallBudgetReserve(s)))

\* The run is cancelled, or its budget is used up: every worker is to stop.
GiveUp(s) ==
  /\ worker[s] = "turn" /\ registry[s].completed < Cases
  /\ MustStop(s)
  /\ budget' = [budget EXCEPT !.stop = @ \/ ~ctxDone]
  /\ WorkerEnds(s)
  /\ Quietly
  /\ UNCHANGED <<results, registry, priced, gone, persistErr, money, faults>>

\* The client of a call.  Without one, because the model has no such effort, the
\* call fails before it is made, and counts as a case that failed.
ApplyEvalClient(s) == s \notin plan.unsupported
Client(s) == ResolveEvalPricing(s) /\ ApplyEvalClient(s)

\* A call is reserved for and made.
PutCase(s) ==
  /\ worker[s] = "turn" /\ registry[s].completed < Cases
  /\ ~MustStop(s)
  /\ budget' = IF Real THEN [budget EXCEPT !.reserved = @ + perCallBudgetReserve(s)] ELSE budget
  /\ worker' = [worker EXCEPT ![s] = "calling"]
  /\ Quietly
  /\ UNCHANGED <<results, registry, priced, gone, persistErr, money, faults>>

\* What n requests cost beyond the reservation of their call.
Beyond(s, n) == IF n * Price[s] > perCallBudgetReserve(s)
                THEN n * Price[s] - perCallBudgetReserve(s) ELSE 0

\* The provider does not offer the model: its last answer, after requests that ended
\* in errors of another kind.  The reservation is not given back.
ModelUnavailable(s) ==
  /\ worker[s] = "calling" /\ Real /\ Client(s)
  /\ gone' = gone \cup {ModelOf[s]}
  /\ registry' = setStatus(registry, s, "unavailable_model")
  /\ WorkerEnds(s)
  /\ \E n \in 0..(plan.requests - 1) :
       paid' = paid + n * Price[s] /\ unseen' = unseen + Beyond(s, n)
  /\ Quietly
  /\ UNCHANGED <<results, priced, budget, persistErr, over, faults>>

\* The call ended, after as many requests as it took.  An answer has a price, or, when
\* another model gave it, none; its usage is what the run gets to see of the call.
\* A request that ended in an error may have cost the money all the same: paid counts
\* the worst, at the price of the model that was asked for.
CallReturns(s) ==
  /\ worker[s] = "calling"
  /\ \/ /\ ~(Real /\ Client(s))
        /\ worker' = [worker EXCEPT ![s] = IF Real THEN "failed" ELSE "free"]
        /\ UNCHANGED <<registry, money>>
     \/ /\ Real /\ Client(s)
        /\ \E n \in 1..plan.requests :
             /\ paid' = paid + n * Price[s]
             /\ \/ /\ unseen' = unseen + (n - 1) * Price[s] /\ over' = over + Beyond(s, 1)
                   /\ \/ worker' = [worker EXCEPT ![s] = "priced"] /\ UNCHANGED registry
                      \/ /\ worker' = [worker EXCEPT ![s] = "unpriced"]
                         /\ registry' = setStatus(registry, s, "pricing_unresolved")
                \/ /\ worker' = [worker EXCEPT ![s] = "failed"]
                   /\ unseen' = unseen + Beyond(s, n)
                   /\ UNCHANGED <<registry, over>>
  /\ Quietly
  /\ UNCHANGED <<results, priced, gone, budget, persistErr, faults>>

\* Another worker could not save its result: this one stops.
Abandon(s) ==
  /\ worker[s] \in {"free", "priced", "unpriced", "failed"}
  /\ persistErr
  /\ WorkerEnds(s)
  /\ Quietly
  /\ UNCHANGED <<results, shared, money, faults>>

\* The result cannot be saved: the run will fail.
SaveFails(s) ==
  /\ worker[s] \in {"free", "priced", "unpriced", "failed"}
  /\ ~persistErr /\ faults < plan.faults
  /\ faults' = faults + 1
  /\ persistErr' = TRUE
  /\ WorkerEnds(s)
  /\ Quietly
  /\ UNCHANGED <<results, registry, priced, gone, budget, money>>

\* A row of model_eval_results.  A locked database is tried again.
insertResult(s) == results' = [results EXCEPT ![s] = @ + 1]

\* The result is saved and the reservation settled by the usage, which counts at the
\* price of the model asked for when that of the answering one is unknown.  Such an
\* answer ends the candidate's evaluation.
SaveResult(s) ==
  /\ worker[s] \in {"free", "priced", "unpriced", "failed"}
  /\ ~persistErr
  /\ insertResult(s)
  /\ budget' = IF Real THEN reconcile(budget, perCallBudgetReserve(s),
                                      IF worker[s] \in {"priced", "unpriced"} THEN Price[s] ELSE 0)
               ELSE charge(budget, FakeCharge)
  /\ IF worker[s] = "unpriced"
     THEN WorkerEnds(s) /\ UNCHANGED <<registry, priced>>
     ELSE /\ registry' = addCompleted(registry, s)
          /\ priced' = [priced EXCEPT ![s] = @ + (IF worker[s] = "priced" THEN 1 ELSE 0)]
          /\ worker' = [worker EXCEPT ![s] = "turn"]
  /\ Quietly
  /\ UNCHANGED <<gone, persistErr, money, faults>>

Worker(s) ==
  \/ StartWorker(s)
  \/ CasesOver(s)
  \/ GiveUp(s)
  \/ PutCase(s)
  \/ ModelUnavailable(s)
  \/ CallReturns(s)
  \/ Abandon(s)
  \/ SaveFails(s)
  \/ SaveResult(s)
-----------------------------------------------------------------------------
(* The run's goroutine. *)

\* Its memory is dropped when it ends.
Forget ==
  /\ registry' = [s \in Specs |-> [status |-> "runnable", expected |-> Cases, completed |-> 0]]
  /\ priced' = [s \in Specs |-> 0]
  /\ gone' = {}
  /\ budget' = [spent |-> 0, reserved |-> 0, stop |-> FALSE]
  /\ persistErr' = FALSE
  /\ worker' = [s \in Specs |-> "queued"]
  /\ paid' = 0 /\ unseen' = 0 /\ over' = 0
  /\ final' = "none" /\ ctxDone' = FALSE

\* It makes itself known to the cancelling requests.
Register ==
  /\ exec = "spawned"
  /\ exec' = "registered"
  /\ UNCHANGED <<plan, row, results, recs, final, ctxDone, shared, worker, money, faults>>

\* The run failed before it put a case.
failRun ==
  /\ faults < plan.faults
  /\ faults' = faults + 1
  /\ row' = [row EXCEPT !.status = "failed"]
  /\ exec' = "ended"

\* The run is read and marked as running, unless it is over already.  When it cannot
\* be read, nothing is written: it stays pending.
Begin ==
  /\ exec = "registered"
  /\ row.status \in {"pending", "running"}
  /\ \/ /\ row' = [row EXCEPT !.status = "running"]
        /\ exec' = "loading"
        /\ UNCHANGED faults
     \/ failRun
     \/ /\ faults < plan.faults
        /\ faults' = faults + 1 /\ exec' = "ended" /\ UNCHANGED row
  /\ UNCHANGED <<plan, results, recs, final, ctxDone, shared, worker, money>>

\* The dataset is loaded once more, and its hash and the number of cases saved.
LoadDataset ==
  /\ exec = "loading"
  /\ \/ Load /\ exec' = "launching" /\ UNCHANGED <<row, faults>>
     \/ failRun
  /\ UNCHANGED <<plan, results, recs, final, ctxDone, shared, worker, money>>

\* Mutant of HasRoom: a worker that is done keeps its place.
HasRoomForEver == Cardinality({s \in Specs : worker[s] # "queued"}) < MaxConcurrency

HasRoom == Cardinality({s \in Specs : worker[s] \notin {"queued", "done"}}) < MaxConcurrency

\* The next candidate's worker, as soon as the semaphore has room.
Launch ==
  /\ exec = "launching"
  /\ HasRoom
  /\ \E i \in DOMAIN Order :
       /\ worker[Order[i]] = "queued"
       /\ \A j \in 1..(i - 1) : worker[Order[j]] # "queued"
       /\ worker' = [worker EXCEPT ![Order[i]] = "start"]
  /\ UNCHANGED <<plan, row, results, recs, exec, final, ctxDone, shared, money, faults>>

\* What the run came to, in the order the code asks.
FinalStatus(reg) ==
  CASE ctxDone \/ row.cancel -> "cancelled"
    [] ~(ctxDone \/ row.cancel) /\ budget.stop /\ overBudget -> "budget_exhausted"
    [] ~(ctxDone \/ row.cancel) /\ ~(budget.stop /\ overBudget)
         /\ plan.purpose = "benchmark" /\ ~benchmarkComplete(reg) -> "failed"
    [] OTHER -> "completed"

\* All workers are done.
Finish ==
  /\ exec = "launching"
  /\ \A s \in Specs : worker[s] = "done"
  /\ \E reg \in {[s \in Specs |-> finalizeRunnable(registry[s])]} :
       /\ registry' = reg
       /\ final' = IF persistErr THEN "error" ELSE FinalStatus(reg)
  /\ exec' = IF persistErr THEN "closing" ELSE "recommending"
  /\ UNCHANGED <<plan, row, results, recs, ctxDone, priced, gone, budget, persistErr,
                 worker, money, faults>>

TotalCost(s) == priced[s] * Price[s]

\* Mutant of Eligible: the candidate's coverage is not asked for.
EligibleUncovered(s) ==
  /\ s \notin plan.foreign /\ Baseline \notin plan.foreign
  /\ registry[Baseline].completed > 0
  /\ effectiveSampleSize >= MinCases /\ ~plan.writing
  /\ TotalCost(s) < TotalCost(Baseline)

\* A candidate that may replace the baseline, the quality floor apart.  A
\* baseline that answered nothing has no provider, so every candidate is of
\* another one; a baseline cut short is compared as if it were complete.
Eligible(s) ==
  /\ s \notin plan.foreign /\ Baseline \notin plan.foreign
  /\ registry[Baseline].completed > 0
  /\ CoverageComplete(s)
  /\ effectiveSampleSize >= MinCases /\ ~plan.writing
  /\ TotalCost(s) < TotalCost(Baseline)

\* Which candidates clear the quality floor is a matter of their answers.
DefaultQualityFloor == SUBSET Candidates

\* Of those that cleared the quality floor, the first of the cheapest.
SelectAll(good) ==
  LET eligible == {i \in DOMAIN Order : /\ Order[i] \in good /\ Eligible(Order[i])}
      cheapest == {i \in eligible : \A j \in eligible : TotalCost(Order[i]) <= TotalCost(Order[j])}
      best == {i \in cheapest : \A j \in cheapest : i <= j}
      deployable == /\ Real /\ plan.purpose = "benchmark" /\ final = "completed" IN
  [s \in Candidates |-> IF deployable /\ s \in {Order[i] : i \in best}
                        THEN "recommend" ELSE "other"]

\* The rows of model_eval_recommendations after those of the first n specs.
insertRecommendations(all, n) ==
  recs' = [s \in Candidates |-> IF \E i \in 2..n : Order[i] = s THEN all[s] ELSE "none"]

\* One row per candidate, until one cannot be inserted.
writeRecommendations ==
  /\ exec = "recommending"
  /\ \E good \in DefaultQualityFloor, n \in 1..Len(Order) :
       \E all \in {SelectAll(good)} :
         /\ n < Len(Order) => faults < plan.faults
         /\ faults' = IF n < Len(Order) THEN faults + 1 ELSE faults
         /\ insertRecommendations(all, n)
         /\ exec' = IF n < Len(Order) THEN "closing" ELSE "concluding"
         /\ final' = IF n < Len(Order) THEN "error" ELSE final
  /\ UNCHANGED <<plan, row, results, ctxDone, shared, worker, money>>

\* The status is written over whatever it is.
Conclude ==
  /\ exec = "concluding"
  /\ \/ row' = [row EXCEPT !.status = final] /\ UNCHANGED <<final, faults>>
     \/ /\ faults < plan.faults
        /\ faults' = faults + 1 /\ final' = "error" /\ UNCHANGED row
  /\ exec' = "closing"
  /\ UNCHANGED <<plan, results, recs, ctxDone, shared, worker, money>>

\* The count of completed cases is saved, or the run fails after all, even one
\* that was completed; an error fails it too.
Close ==
  /\ exec = "closing"
  /\ \/ /\ row' = IF final \in {"error", "failed"} THEN [row EXCEPT !.status = "failed"] ELSE row
        /\ UNCHANGED faults
     \/ /\ faults < plan.faults
        /\ faults' = faults + 1
        /\ row' = [row EXCEPT !.status = "failed"]
  /\ exec' = "ended"
  /\ Forget
  /\ UNCHANGED <<plan, results, recs>>

Executor == Register \/ Begin \/ LoadDataset \/ Launch \/ Finish \/ writeRecommendations \/ Conclude \/ Close

RunNext ==
  \/ CreateRun
  \/ CancelRun
  \/ Executor
  \/ \E s \in Specs : Worker(s)

\* A started goroutine goes on: the provider's client has a timeout, and every
\* other step is the process's own.
RunFairness == WF_runVars(Executor) /\ \A s \in Specs : WF_runVars(Worker(s))

-----------------------------------------------------------------------------
RunTypeOK ==
  /\ plan \in Plans
  /\ row.status \in {"none", "pending", "running"} \cup Terminal /\ row.cancel \in BOOLEAN
  /\ results \in [Specs -> 0..Cases]
  /\ recs \in [Candidates -> {"none", "other", "recommend"}]
  /\ exec \in {"idle", "spawned", "registered", "loading", "launching", "recommending",
               "concluding", "closing", "ended"}
  /\ gone \subseteq {ModelOf[s] : s \in Specs}
  /\ worker \in [Specs -> {"queued", "start", "turn", "calling", "free", "priced",
                           "unpriced", "failed", "done"}]

\* What the provider is paid for a run exceeds its budget by no more than what the run
\* does not see or did not reckon with, however the workers' calls overlap: requests
\* that were repeated (chat makes up to three for one reservation, and RunCase keeps
\* the last usage) and what a request costs beyond its reservation.  Everything else is
\* reserved for before it is made (tryReserve) and counts until its price is known
\* (reconcile).
BudgetHeld == paid <= plan.budget + unseen + over

\* A run that was created ends, and stays ended: cancelled, out of budget,
\* failed or completed, even when one write to the database fails.  Only a run whose
\* row could not be read at the start stays as it was created.
RunSettles ==
  (row.status = "pending") ~> [](\/ row.status \in Terminal
                                 \/ row.status = "pending" /\ exec = "ended")
=============================================================================
