CONSTANTS
  MaxFrames = 4
  TxRetries = 3

SPECIFICATION Spec

INVARIANTS
  SuccessMeansSent

CHECK_DEADLOCK FALSE
