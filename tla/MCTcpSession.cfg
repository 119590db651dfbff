CONSTANTS
  Port = {1}
  Word = 12
  Byte <- MCByte
  Segment = {}
  Payload = {}
  ISN = {10}
  ISS = {9}
  Buffer = {b1}
  NULL = NULL
  MaxLen = {2}
  TimeoutMs = {1}
  LoopsPerMs = 2
  Retransmit = 1
  MaxLoops = 1
  CloseLoops = 2
  StreamLen = 2
  ChunkLen = {1, 2}
  Sends = 2
  ServerFirst = FALSE
  MaxSegments = 3

SPECIFICATION SessionSpec

INVARIANTS
  NeverAcksUnsent
  DeliveredIsContiguous
  PeerReadsInOrder
  SequenceNumbersUnique
