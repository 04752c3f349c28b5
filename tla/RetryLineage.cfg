\* A work report, two providers, all five callers.
SPECIFICATION Spec
CONSTANTS
  Requests = {r1, r2}
  Agents = {a, b}
  Kinds <- AllKinds
  Report = TRUE
  WindowLimit = 2
  LifetimeLimit = 2
  MaxAttempts = 2
  MaxHalfway = 1
  MaxCrashes = 1
SYMMETRY Symmetry
INVARIANTS BudgetIsExact  LineIsServed
CHECK_DEADLOCK FALSE
