SPECIFICATION Spec
CONSTANTS
  CargoLines <- MCCargoLines
  MakeLines <- MCMakeLines
  MiseLines <- MCMiseLines
  MaxLines = 5
  MaxDepth = 2
INVARIANTS
  TypeOK
  PassMeansOneVersion
  SinglePinsAreCompared
PROPERTIES
  VerdictSettles
CHECK_DEADLOCK FALSE
