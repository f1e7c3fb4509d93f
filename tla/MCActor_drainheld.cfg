CONSTANTS
  Calls = {c1, c2, c3}
  Sends = {}
  Capacity = 2
  MaxInFlight = 1
SPECIFICATION UnattendedSpec
PROPERTIES
  DrainNeedsNoCaller
CHECK_DEADLOCK FALSE
