CONSTANTS
  Replies = {r1, r2}
  Leasing = {r1}
  Wakers = {w1, w2}
  Fires = 1
  PollBudget = 2
  DispatchBudget = 1
  MaxInFlight = 2
  Free = Free
SPECIFICATION Safe
SYMMETRY WakerSymmetry
INVARIANTS ReadyKeyQueued NoPollAfterReturn NoStrandedMessage OnlySpentWakersStrand
CHECK_DEADLOCK FALSE
