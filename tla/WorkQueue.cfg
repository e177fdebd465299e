\* One agent that runs one item at a time, an assigned item with two attempts and an
\* auto-accepted one without a limit on its attempts, three lease ids.
CONSTANTS
  a1 = a1  w1 = w1  w2 = w2
  NoWork = NoWork
  Agents = {a1}
  Works = {w1, w2}
  Leases = {l1, l2, l3}
  AgentOf <- OneAgentOf
  MaxAttempts <- OneMaxAttempts
  MaxRuns <- OneMaxRuns
  Priority <- OnePriority
  Deps <- OneDeps
  Scheduled = {w2}
  AutoAccept = {w2}
  TTL = 2
  MaxLag = 1
SPECIFICATION QueueFairSpec
INVARIANTS QueueTypeOK LeaseExclusive LeasedIffHeld AttemptsAccounted RunCap
PROPERTY LeaseEnds
