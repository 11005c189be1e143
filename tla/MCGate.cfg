SPECIFICATION Spec
CONSTANTS
  Size = 7
  Parent <- MCParent
  SourceRoots <- MCSourceRoots
  Possible <- MCPossible
  SourceNamed <- MCSourceNamed
  RustNamed <- MCRustNamed
  TooLong = {"long"}
  Analysis <- MCAnalysis
  Unparsed = {"garbled"}
  MaxEdited = 2
INVARIANTS
  TypeOK
  RunsAgree
  ReportWasTrue
  SuccessIsEarned
  ErrorHasCause
PROPERTIES
  RunsEnd
CHECK_DEADLOCK FALSE
