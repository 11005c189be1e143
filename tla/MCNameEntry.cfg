SPECIFICATION Spec
CONSTANTS
  MaxName = 5
  MaxLabel = 3
  UsizeMax = 65535
  AddressLiterals <- MCAddressLiterals
  Alphabets <- MCAlphabets
INVARIANTS
  TypeOK
  AcceptsHostnames
  FirstFaultIsBlamed
  DisplayIsReadBack
  SpellingIsInvisible
  MatchesSomeNameIfRoom
  MatchesByLabels
  RankDecides
  SpecificityNests
CHECK_DEADLOCK FALSE
