--------------------------- MODULE MCModelPolicy ---------------------------
(* The evaluation of two candidates that are the same model at two efforts, *)
(* against the model in use, on two cases.                                  *)
EXTENDS ModelPolicy

CONSTANTS base, low, high

MCOrder == <<base, low, high>>
MCModelOf == [s \in {base, low, high} |-> IF s = base THEN "incumbent" ELSE "newcomer"]
\* The newcomer is cheaper, at the higher effort by less than the lower, and by then
\* costs more than was reckoned with.
MCPrice == [s \in {base, low, high} |-> CASE s = base -> 4 [] s = high -> 3 [] s = low -> 1]
MCBound == [s \in {base, low, high} |-> IF s = base THEN 4 ELSE 2]

Case(input, borderline) == [input |-> input, borderline |-> borderline]

\* A run that its budget covers, by whatever number of reservations its calls
\* without a price keep.
Ample ==
  [purpose |-> "benchmark", runner |-> "real", budget |-> 30, foreign |-> {},
   billable |-> {base, low, high}, staged |-> {}, unsupported |-> {},
   dataset |-> <<Case(1, FALSE), Case(2, FALSE)>>, writing |-> FALSE, requests |-> 1,
   faults |-> 1, cancels |-> FALSE, incumbent |-> "approved"]

MCPlans ==
  { Ample,
    \* the budget ends among the calls, on a multiple of the reservation or not
    [Ample EXCEPT !.budget = 6, !.incumbent = "restored"],
    [Ample EXCEPT !.budget = 5],
    \* a call may take three requests
    [Ample EXCEPT !.budget = 7, !.requests = 3, !.faults = 0],
    \* one candidate has no price; another is of another provider, or has no
    \* such effort, or a price for evaluations only
    [Ample EXCEPT !.billable = {base, high}, !.incumbent = "inherit"],
    [Ample EXCEPT !.foreign = {high}, !.billable = {base, low}, !.staged = {high}],
    [Ample EXCEPT !.unsupported = {high}, !.billable = {base, high}, !.staged = {low}],
    \* a request cancels the run
    [Ample EXCEPT !.budget = 6, !.cancels = TRUE],
    \* runs nothing can be approved from
    [Ample EXCEPT !.purpose = "smoke", !.billable = {base, high}],
    [Ample EXCEPT !.runner = "fake", !.cancels = TRUE, !.budget = 4],
    [Ample EXCEPT !.dataset[2] = Case(1, FALSE), !.billable = {base, high}],
    [Ample EXCEPT !.writing = TRUE, !.billable = {base, high}],
    [Ample EXCEPT !.dataset[2] = Case(1, TRUE)] }
=============================================================================
