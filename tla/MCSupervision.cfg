CONSTANTS
  root = root
  first = first
  second = second
  Actors = {root, first, second}
  Root = root
  Nobody = nobody
  Profiles <- OneOrTwo
  Requests <- RootAndChild
SPECIFICATION Spec
INVARIANTS
  TypeOK
  TerminatedMeansGone
  LostOnlyByAbort
  WaitsDownwards
  CleanupAfterChildren
  OrphansKilled
  ExitsReported
PROPERTIES
  PromiseKept
  HookEntry
  TreeGoesDown
CHECK_DEADLOCK FALSE
