SPECIFICATION Spec
CONSTANTS
  MaxName = 253
  MaxLabel = 63
  UsizeMax = 65535
  AddressLiterals <- MCAddressLiterals
  Targets = {t}
  Patterns <- MCPatterns
  Queries <- MCQueries
  Revisions = {1}
  MaxMappings = 3
INVARIANTS
  TypeOK
  StrictlyOrdered
  LoopsSoFar
  AnswerIsBest
PROPERTIES
  ImplementsResolution
  CallsReturn
