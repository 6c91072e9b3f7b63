CONSTANTS
  MaxQ <- MCMaxQ
  Target <- MCTarget
  Curves <- MCCurves
  Tolerances = {0, 1}
  Budgets = {0, 3, 4}
SPECIFICATION Spec
CHECK_DEADLOCK FALSE
INVARIANTS
  BestIsClosest
  BracketKeepsBest
  EarlyStopIsOptimal
  LogBudgetSuffices
PROPERTIES
  SearchReturns
