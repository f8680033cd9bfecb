\* One call through the executor whose process outlives the timeout.
SPECIFICATION ToolSpec
CONSTANTS
  Calls = {c1}
  Timeout = 1
INVARIANT TimedOutIsOver
CHECK_DEADLOCK FALSE
