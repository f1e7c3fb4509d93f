CONSTANTS
  Replies = {r1}
  Leasing = {}
  Wakers = {w1}
  Fires = 2
  PollBudget = 2
  DispatchBudget = 1
  MaxInFlight = 1
  Free = Free
SPECIFICATION Safe
INVARIANTS NoStrandedReply
CHECK_DEADLOCK FALSE
