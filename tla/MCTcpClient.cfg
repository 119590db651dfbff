CONSTANTS
  Port = {1, 2}
  Word = 3
  Byte = {0}
  Segment <- MCSegment
  Payload <- MCPayload
  ISN = {1}
  Buffer = {b1}
  NULL = NULL
  MaxLen = {0, 1, 2}
  TimeoutMs = {0, 1, 2}
  LoopsPerMs = 2
  Retransmit = 2
  MaxLoops = 3
  CloseLoops = 2

SPECIFICATION Spec

INVARIANTS
  TypeOK
  BufferAccounting

PROPERTIES
  BufferReturned
  HonestReceive
  SilentWhenClosed
  ConnectIsBlockingCall
  ReceiveIsBlockingCall
