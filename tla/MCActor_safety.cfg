CONSTANTS
  Calls = {c1, c2}
  Sends = {s1, s2}
  Capacity = 2
  MaxInFlight = 2
SPECIFICATION Safe
SYMMETRY Symmetry
INVARIANTS
  TypeOK
  CapacityKept
  ClosedAfterCutoff
  TruthfulPhase
  TruthfulReason
  StartedInAdmissionOrder
  GracefulExitKeepsWork
  ExitLeavesNothing
  StopHookAfterWork
PROPERTIES
  PromiseKept
CHECK_DEADLOCK FALSE
