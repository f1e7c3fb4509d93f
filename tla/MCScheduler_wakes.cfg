CONSTANTS
  Replies = {r1, r2, r3}
  Leasing = {r1, r2, r3}
  Wakers = {w1}
  Fires = 1
  PollBudget = 2
  DispatchBudget = 2
  MaxInFlight = 2
  Free = Free
SPECIFICATION Safe
SYMMETRY ReplySymmetry
INVARIANTS TypeOK NoStrandedReply
PROPERTIES PromiseKept
CHECK_DEADLOCK FALSE
