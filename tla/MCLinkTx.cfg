CONSTANTS
  MaxFrames = 4
  TxRetries = 3

SPECIFICATION Spec

INVARIANTS
  FramesIntact
  SuccessMeansSentInTime
  WireNeverOlder

PROPERTIES
  SendReturns

CHECK_DEADLOCK FALSE
