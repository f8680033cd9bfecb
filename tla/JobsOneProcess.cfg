\* Two workers of one process, handlers within their lease, interruptions and
\* deaths of the process.
SPECIFICATION FairMetrics
CONSTANTS
  NumJobs = 3
  Workers = {w1, w2}
  LeaseTicks = 1
  MaxAttempts = 2
  Unhandled = {2}
  Stoppable = {w2}
  Interleaved = FALSE
  Overrun = FALSE
  MaxCrashes = 2
  MaxClaims = 9
  Idle = Idle
  NoLease = NoLease
INVARIANTS ExtraAttemptsInterrupted MetricsFitTable
PROPERTIES OldestFirst EveryJobFinishes
CHECK_DEADLOCK FALSE
