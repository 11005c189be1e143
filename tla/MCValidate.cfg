SPECIFICATION ValidateSpec
CONSTANTS
  MaxName = 7
  MaxLabel = 4
  UsizeMax = 65535
  MaxPort = 65535
  AddressLiterals <- MCAddressLiterals
  Ipv6Literals <- MCIpv6Literals
  AddressDisplay <- MCAddressDisplay
  Vocabularies <- MCCommandVocabularies
  PatternFragments <- MCPatternFragments
  MaxFragments = 5
INVARIANTS
  TypeOK
  AcceptsUpstreamUrls
  TargetIsReadBack
  TargetSpellingIsInvisible
  NamesAreNotAddresses
  AnswersAreExpected
PROPERTIES
  ReportsAreFixed
CHECK_DEADLOCK FALSE
