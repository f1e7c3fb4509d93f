CONSTANTS
  root = root
  first = first
  second = second
  Actors = {root, first}
  Root = root
  Nobody = nobody
  Profiles <- OneChild
  Requests <- KillRoot
SPECIFICATION Spec
INVARIANTS
  KillReachesChildren
CHECK_DEADLOCK FALSE
