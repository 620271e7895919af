SPECIFICATION FairSpec
CONSTANTS
  Chunks = 3
  TlsKinds = {TRUE, FALSE}
  Cipher = Cipher
INVARIANTS
  TypeOK
PROPERTIES
  ImplementsChannels
  RelayEnds
CHECK_DEADLOCK FALSE
