CONSTANTS
  own = own
  brought = brought
  Messages = {own, brought}
  Nothing = nothing
  Kinds <- OwnAndBrought
  Capacity = 1
  MaxItems = 2
SPECIFICATION Spec
INVARIANTS
  TypeOK
  NothingLost
  FinalTruthful
  ExitClosesStreams
PROPERTIES
  SilentAfterReply
  FinishComes
  ReadersReleased
  GracefulEnds
CHECK_DEADLOCK FALSE
