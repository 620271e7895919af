SPECIFICATION InterceptSpec
CONSTANTS
  c1 = c1
  k1 = k1
  k2 = k2
  Events = {k1, k2}
  ConnSets <- MCConnSets
  None = None
  NoPath = NoPath
  NetworkRules <- MCNetworkRules
  Requests <- MCRequests
  Tokens <- MCTokens
  CredentialIds <- MCCredentialIds
  SinkKinds = {"tee"}
  BackendKinds = {"local"}
  RevokerKinds = {"http"}
  HostKinds = {TRUE}
INVARIANTS
  EveryObservationReported
CHECK_DEADLOCK FALSE
