SPECIFICATION Spec
CONSTANTS
  BufferSize = 2
  PipeSize = 2
  Sizes <- MCSizes
INVARIANTS EnvelopeWhenAsked
CHECK_DEADLOCK FALSE
