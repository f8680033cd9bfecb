\* Two workers, a queue of two, submissions that race with close().  Two calls of
\* tools, through the executor or not; timeouts of two ticks.  Five operations in
\* batches of two, up to three attempts of each call.  Four calls under a limiter of
\* two permits, with up to one retry each.
SPECIFICATION FairSpec
CONSTANTS
  NumTasks = 3
  Priorities = {0, 10}
  NumWorkers = 2
  MaxQueue = 2
  Slots = {s1, s2}
  Closers = {a}
  Gone = Gone
  Calls = {c1, c2}
  Timeout = 2
  NumOperations = 5
  BatchSize = 2
  BatchAttempts = 3
  Works = {w1, w2, w3, w4}
  Permits = 2
  MaxRetries = 1
INVARIANTS
  FixedCrew AcceptedIsAnswered OutcomesAreTrue OneAttemptDecides PermitsConserved
PROPERTIES UrgentFirst EveryCallEnds
CHECK_DEADLOCK FALSE
