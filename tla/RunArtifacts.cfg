\* One run, two prunes and two faults.
CONSTANTS
  Runs = {r1}
  Tasks <- MCTasks
  Results <- MCResults
  MaxFaults = 2
  MaxPrunes = 2
  MaxEdits = 1
SPECIFICATION Spec
INVARIANTS RunnerTypeOK PolicyHolds WorkKept RowsMatchFiles ReadyMeansPreflighted
CHECK_DEADLOCK FALSE
