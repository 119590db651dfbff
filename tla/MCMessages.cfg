CONSTANTS
  h1 = h1
  h2 = h2
  h3 = h3
  i1 = i1
  i2 = i2
  Port = {1, 2}
  DnsPort = 53
  Word16 = {0, 1, 2}
  Host <- MCHost
  Ip <- MCIp
  NoIp = NoIp
  Buffer = {b1}
  NULL = NULL
  Nothing = Nothing
  MaxLen = {0, 2}
  TimeoutMs = {1, 4}
  LoopsPerMs = 2
  Word = 8
  Retransmit = 1
  MaxLoops = 2
  EchoLen = 2
  EchoMax = 2
  Zone <- MCZone
  DnsLen = 2
  Service = 7
  Greeting <- MCGreeting
  Datagrams <- MCDatagrams
  Asking <- MCAsking
  Draws <- MCDraws
  UserPorts = {1}
  Pings <- MCPings
  MaxCalls = 3

SPECIFICATION Spec

PROPERTIES
  NameResolved
  PingAnswered
  ReceivesOneDatagram
  BufferReturned
  ResolveIsBlockingCall
  UdpIsBlockingCall
  PingIsBlockingCall
  TimeoutHonoured
