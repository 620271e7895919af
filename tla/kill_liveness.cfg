SPECIFICATION FairSpec
CONSTANTS
  Events = {e1, e2}
  None = None
  c1 = c1
  c2 = c2
  Tokens <- MCTokens
  CredentialIds <- MCOneCredential
  SinkKinds = {"tee", "local"}
  BackendKinds = {"firecracker"}
  RevokerKinds = {"http", "badurl"}
  HostKinds = {TRUE, FALSE}
PROPERTIES
  KillCompletes
  EveryReportReturns
CHECK_DEADLOCK FALSE
