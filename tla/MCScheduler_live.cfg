CONSTANTS
  Replies = {r1, r2}
  Leasing = {}
  Wakers = {w1}
  Fires = 1
  PollBudget = 1
  DispatchBudget = 1
  MaxInFlight = 2
  Free = Free
SPECIFICATION Spec
PROPERTIES EventsSeen ShutdownFinishes
CHECK_DEADLOCK FALSE
