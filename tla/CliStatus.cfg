SPECIFICATION Spec
CONSTANTS
  BufferSize = 2
  PipeSize = 2
  Sizes <- MCSizes
INVARIANTS StatusIsListed
CHECK_DEADLOCK FALSE
