SPECIFICATION Spec
CONSTANTS
  Events = {e1, e2}
  None = None
  c1 = c1
  c2 = c2
  Tokens <- MCTokens
  CredentialIds <- MCCredentialIds
  SinkKinds = {"tee", "local"}
  BackendKinds = {"local", "gvisor", "firecracker"}
  RevokerKinds = {"http", "badurl", "none"}
  HostKinds = {TRUE, FALSE}
SYMMETRY Symmetry
INVARIANTS
  TypeOK
  LockInv
  CredentialsFirst
  SeverOrder
  ResultTruthful
  PublicationOrder
  ForensicRecord
  LocalBeforeNetwork
  BroadcastAccounting
  NothingRaises
PROPERTIES
  ImplementsKillSwitch
  KilledOnce
CHECK_DEADLOCK FALSE
