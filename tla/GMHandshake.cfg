SPECIFICATION Spec
CONSTANTS
  Configs <- AllConfigs
  MaxUndecryptable = 1
  CutsMessages = FALSE
INVARIANTS
  TypeOK
  HandshakeAgreement
  EarlyDataFate
  AuthenticatedDelivery
  
CHECK_DEADLOCK FALSE
