\* One call at a time and no escalate(): the intended use of the runtime,
\* with crashes, cancellations, failing saves and operations that raise.
SPECIFICATION FairSpec
CONSTANTS
  Workflows = {w1, w2}
  Runners = {r1}
  NumPhases = 4
  ApprovalPhases = {1, 2}
  HighRiskPhases = {2}
  Unreadable = {w2}
  MaxActions = 2
  StoreMayFail = TRUE
  MaxRequests = 5
  MaxFaults = 3
  MaxEscalations = 0
  Idle = Idle
  NoRequest = NoRequest
PROPERTIES RefinesLifecycle EveryWorkflowEnds
CHECK_DEADLOCK FALSE
