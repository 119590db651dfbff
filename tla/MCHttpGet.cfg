CONSTANTS
  Port = {1, 2}
  Word = 12
  Byte <- MCByte
  Segment = {}
  Payload = {}
  ISN = {10}
  ISS = {9}
  Buffer = {b1}
  NULL = NULL
  MaxLen = {2}
  TimeoutMs = {1}
  LoopsPerMs = 2
  Retransmit = 1
  MaxLoops = 1
  CloseLoops = 1
  StreamLen = 2
  ChunkLen = {2}
  Sends = 1
  ServerFirst = FALSE
  MaxSegments = 3
  ResolveLoops = 1

SPECIFICATION HttpSpec

INVARIANTS
  HandshakeGenuine

PROPERTIES
  ResponseIsOneSegment
  GetLeavesNoSession
  GetReturns
