SPECIFICATION Spec
CONSTANTS
  BufferSize = 2
  PipeSize = 2
  Sizes <- MCSizes
INVARIANTS BrokenPipeIsClean
CHECK_DEADLOCK FALSE
