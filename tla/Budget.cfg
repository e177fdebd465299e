\* Three runs; one or two of them fill a window, across a change of month and of the limit.
CONSTANTS
  Runs = {r1, r2, r3}
  LastMonth = 2
  HardLimits = {3, 4}
  Estimates = {2}
  Actuals = {0, 3}
  MaxSingleRun = 2
  WarnAt = 5000
  OnExhausted = "pause_agent"
  NoCost = NoCost
SYMMETRY RunSymmetry
SPECIFICATION BudgetSpec
INVARIANTS BudgetTypeOK WindowAccounts HardLimitHolds
PROPERTIES ChargedOnce ImplementsLedger
