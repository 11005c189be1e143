SPECIFICATION Spec
CONSTANTS
  Kinds = {"fn", "signature", "type", "if", "else if", "for", "while", "loop", "match", "and", "let"}
  Counts = {0, 2}
  MaxNodes = 4
  MaxFunctionLines = 2
  MaxTypeLines = 2
  MaxParameters = 1
  MaxComplexity = 2
  MaxNesting = 1
INVARIANTS
  TypeOK
  NestingIsDepth
  ReportIsExact
CHECK_DEADLOCK FALSE
