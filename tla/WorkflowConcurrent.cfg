\* Two calls of run() and resume() on two workflows, escalations, crashes and
\* cancellations at any await.
SPECIFICATION Spec
CONSTANTS
  Workflows = {w1, w2}
  Runners = {r1, r2}
  NumPhases = 3
  ApprovalPhases = {1, 2}
  HighRiskPhases = {1}
  Unreadable = {}
  MaxActions = 2
  StoreMayFail = FALSE
  MaxRequests = 3
  MaxFaults = 1
  MaxEscalations = 1
  Idle = Idle
  NoRequest = NoRequest
SYMMETRY RunnerSymmetry
INVARIANTS ApprovalUsedOnce ApprovalMatchesOperation TrailExplainsProgress
CHECK_DEADLOCK FALSE
