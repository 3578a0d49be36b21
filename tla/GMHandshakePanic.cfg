SPECIFICATION Spec
CONSTANTS
  Configs <- OnlyEarly
  MaxUndecryptable = 1
  CutsMessages = FALSE
INVARIANTS
  NoQueueingAfterCompletion
CHECK_DEADLOCK FALSE
