\* Two dispatches of one item, with or without --lease, among claims, renewals, releases,
\* recoveries and time; store calls fail and processes die; two reservations do not fit.
CONSTANTS
  a = a
  NoWork = NoWork  NoLease = NoLease  NoCost = NoCost
  Agents = {a}
  Works = {w1}
  Leases = {l1, l2}
  Runs = {r1, r2}
  AgentOf <- AgentOfAll
  MaxAttempts <- TriesOfAll  MaxTries = 1
  MaxRuns <- RunsOfAll  RunsAtOnce = 1
  Priority <- SamePriority
  Deps <- NoDeps
  Scheduled = {w1}
  AutoAccept = {w1}
  Funded = {w1}
  TTL = 1
  MaxLag = 0
  HardLimit = 3
  Estimate = 2
  MaxSingleRun = 2
  Actuals = {3}
  OnExhausted = "block_work"
  GiveLease = TRUE
  Faulty = TRUE
CHECK_DEADLOCK FALSE
SYMMETRY DispatchSymmetry
SPECIFICATION DispatchSpec
INVARIANT DispatchAccounts
