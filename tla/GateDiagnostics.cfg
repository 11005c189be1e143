SPECIFICATION Spec
CONSTANTS
  Size = 7
  Parent <- MCParent
  SourceRoots <- MCSourceRoots
  Possible <- MCPossible
  SourceNamed <- MCSourceNamed
  RustNamed <- MCRustNamed
  TooLong = {"long"}
  Analysis <- MCAnalysis
  Unparsed = {"garbled"}
  MaxEdited = 0
INVARIANTS
  DiagnosticsAreDeterministic
CHECK_DEADLOCK FALSE
