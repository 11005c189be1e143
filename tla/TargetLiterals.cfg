SPECIFICATION Spec
CONSTANTS
  MaxName = 7
  MaxLabel = 4
  UsizeMax = 65535
  MaxPort = 65535
  AddressLiterals <- MCAddressLiterals
  Ipv6Literals <- MCIpv6Literals
  AddressDisplay <- MCAddressDisplay
  Vocabularies <- MCVocabularies
  MaxFragments = 5
INVARIANTS AddressLiteralIsAnAddress
CHECK_DEADLOCK FALSE
