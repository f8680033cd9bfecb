\* Two callers of three keys in a cache of two entries, and a third one of the same
\* key as they; any may be cancelled.
SPECIFICATION MCSpec
CONSTANTS
  Keys = {k1, k2, k3}
  Callers = {c1, c2, c3}
  Third = c3
  Popular = k1
  Flights = {f1, f2}
  MaxEntries = 2
  TTL = 1
  Idle = Idle
  NoFlight = NoFlight
INVARIANTS SingleFlight JoinersAreServed KeepsRecentlyUsed
PROPERTY EveryCallEnds
CHECK_DEADLOCK FALSE
