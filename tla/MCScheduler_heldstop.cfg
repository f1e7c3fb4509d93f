CONSTANTS
  Replies = {r1}
  Leasing = {r1}
  Wakers = {w1}
  Fires = 1
  PollBudget = 2
  DispatchBudget = 1
  MaxInFlight = 1
  Free = Free
SPECIFICATION Spec
PROPERTIES ShutdownFinishes
CHECK_DEADLOCK FALSE
