CONSTANTS
  Calls = {c1, c2}
  Sends = {}
  Capacity = 1
  MaxInFlight = 1
SPECIFICATION Spec
PROPERTIES
  ShutdownExits
  WaitersReleased
  CallsAnswered
CHECK_DEADLOCK FALSE
