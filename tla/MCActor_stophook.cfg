CONSTANTS
  Calls = {c1}
  Sends = {}
  Capacity = 1
  MaxInFlight = 1
SPECIFICATION Safe
PROPERTIES
  StopHookNotAfterKill
CHECK_DEADLOCK FALSE
