\* One workflow whose operations may raise WorkflowEscalation, and that may be
\* escalated while a call of run() awaits one of them.
SPECIFICATION Spec
CONSTANTS
  Workflows = {w1}
  Runners = {r1}
  NumPhases = 3
  ApprovalPhases = {1}
  HighRiskPhases = {1}
  Unreadable = {}
  MaxActions = 4
  StoreMayFail = FALSE
  MaxRequests = 2
  MaxFaults = 1
  MaxEscalations = 1
  Idle = Idle
  NoRequest = NoRequest
PROPERTIES EscalationStops
CHECK_DEADLOCK FALSE
