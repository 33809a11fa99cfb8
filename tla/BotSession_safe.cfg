SPECIFICATION FairSpec
CONSTANTS
  InCap = 2
  OutCap = 3
  RegisterLines = 2
  MaxConns = 3
INVARIANTS TypeOK NoLeftovers LossesReported SomeoneReconnects
   
CHECK_DEADLOCK FALSE
