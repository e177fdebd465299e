\* Two daemons, a doctor and syncs that overlap, on an interval schedule and a webhook.
CONSTANTS
  Schedules = {1, 2}
  Config <- OverlapConfig
  Daemons = {d1, d2}
  TTL = 0
  MaxTime = 2
  MaxFaults = 0
  Overlap = TRUE
SPECIFICATION ProactiveSpec
INVARIANT EnqueuedHasWork
