SPECIFICATION Spec
CONSTANTS
  Chunks = 3
  TlsKinds = {TRUE, FALSE}
  Cipher = Cipher
INVARIANTS
  CopiesBytes
CHECK_DEADLOCK FALSE
