SPECIFICATION Spec
CONSTANTS
  Events = {e1, e2}
  None = None
  c1 = c1
  c2 = c2
  Tokens <- MCTokens
  CredentialIds <- MCOneCredential
  SinkKinds = {"tee"}
  BackendKinds = {"local"}
  RevokerKinds = {"http"}
  HostKinds = {TRUE}
INVARIANTS
  FirstKillWins
CHECK_DEADLOCK FALSE
