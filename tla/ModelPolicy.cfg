\* One evaluation run with two workers at a time, one failing write, three
\* decisions.  The run ends and the administrator may have nothing left to do.
SPECIFICATION Spec
CONSTANTS
  base = base
  low = low
  high = high
  Order <- MCOrder
  ModelOf <- MCModelOf
  Price <- MCPrice
  Bound <- MCBound
  FakeCharge = 1
  MinCases = 2
  MaxConcurrency = 2
  Plans <- MCPlans
  MaxDecisions = 3
INVARIANT BudgetHeld
INVARIANT ServedIsProven
INVARIANT RollbackUndoesLast
PROPERTY RunSettles
CHECK_DEADLOCK FALSE
