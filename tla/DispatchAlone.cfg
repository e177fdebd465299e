\* Three dispatches alone with the scheduler compete for three items, one without a budget
\* policy, for an agent that runs two at once and for money that two reservations use up.
CONSTANTS
  a = a
  NoWork = NoWork  NoLease = NoLease  NoCost = NoCost
  Agents = {a}
  Works = {w1, w2, w3}
  Leases = {l1, l2, l3, l4}
  Runs = {r1, r2, r3}
  AgentOf <- AgentOfAll
  MaxAttempts <- TriesOfAll  MaxTries = 2
  MaxRuns <- RunsOfAll  RunsAtOnce = 2
  Priority <- SamePriority
  Deps <- NoDeps
  Scheduled = {w1, w2, w3}
  AutoAccept = {w1, w2, w3}
  Funded = {w1, w2}
  TTL = 1
  MaxLag = 0
  HardLimit = 4
  Estimate = 2
  MaxSingleRun = 2
  Actuals = {1, 3}
  OnExhausted = "pause_agent"
  GiveLease = FALSE
  Faulty = FALSE
CHECK_DEADLOCK FALSE
SYMMETRY DispatchSymmetry
SPECIFICATION AloneSpec
INVARIANTS WorkerIsCovered DoneOnce NothingHeld
