SPECIFICATION FairSpec
CONSTANTS
  Runs = 2
  MaxRules = 4
  MaxSent = 2
  MaxFaults = 2
INVARIANTS
  TypeOK
  CreateInOrder
  DestroyUndoes
  RulesAccounted
  NoFalseTrip
PROPERTIES
  NonTcpNoticed
CHECK_DEADLOCK FALSE
