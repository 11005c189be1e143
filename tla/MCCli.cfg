SPECIFICATION Spec
CONSTANTS
  BufferSize = 2
  PipeSize = 2
  Sizes <- MCSizes
INVARIANTS TypeOK StatusTellsDelivery StreamsAreApart FormFollowsFlag
PROPERTIES Exits
CHECK_DEADLOCK FALSE
