\* One command at a time, up to two of which die: a heartbeat, a one-shot
\* schedule and a webhook.
CONSTANTS
  Schedules = {1, 2, 3}
  Config <- AloneConfig
  Daemons = {d1}
  TTL = 0
  MaxTime = 2
  MaxFaults = 2
  Overlap = FALSE
SPECIFICATION ProactiveFairSpec
INVARIANTS ProactiveTypeOK WorkIffEnqueued
PROPERTIES OncePerWindow QueuedIsServed
