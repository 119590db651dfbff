CONSTANTS
  Names <- MCNames
  Draws <- MCDraws
  MyIp <- MCMyIp
  DnsIp <- MCDnsIp
  Answers <- MCAnswers
  Stale <- MCStale
  Replies <- MCReplies
  MaxScan = 250

SPECIFICATION Spec

INVARIANTS
  DatagramVerifies
  NameTravels
  OptionsUnderstood

CHECK_DEADLOCK FALSE
