\* Workers are interrupted while they handle a job.
SPECIFICATION JobSpec
CONSTANTS
  NumJobs = 1
  Workers = {w1}
  LeaseTicks = 1
  MaxAttempts = 2
  Unhandled = {}
  Stoppable = {}
  Interleaved = FALSE
  Overrun = FALSE
  MaxCrashes = 2
  MaxClaims = 9
  Idle = Idle
  NoLease = NoLease
INVARIANT AttemptsBounded
CHECK_DEADLOCK FALSE
