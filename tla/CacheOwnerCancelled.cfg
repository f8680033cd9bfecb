\* The caller that runs the factory is cancelled.
SPECIFICATION Spec
CONSTANTS
  Keys = {k1}
  Callers = {c1, c2}
  Flights = {f1, f2}
  MaxEntries = 1
  TTL = 1
  Idle = Idle
  NoFlight = NoFlight
INVARIANT NoneAbandoned
CHECK_DEADLOCK FALSE
