SPECIFICATION InterceptFairSpec
CONSTANTS
  c1 = c1
  k1 = k1
  k2 = k2
  Events = {k1, k2}
  ConnSets <- MCConnSets
  None = None
  NoPath = NoPath
  NetworkRules <- MCNetworkRules
  Requests <- MCRequests
  Tokens <- MCTokens
  CredentialIds <- MCCredentialIds
  SinkKinds = {"local"}
  BackendKinds = {"local"}
  RevokerKinds = {"http"}
  HostKinds = {TRUE}
INVARIANTS
  InterceptTypeOK
  ForwardedOnRecord
  NothingLostSilently
  SocketsClosed
PROPERTIES
  ImplementsEnforcement
  DenialKills
  HandlerEnds
CHECK_DEADLOCK FALSE
