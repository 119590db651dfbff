CONSTANTS
  a1 = a1
  a2 = a2
  a3 = a3
  d1 = d1
  d2 = d2
  r1 = r1
  n1 = n1
  n2 = n2
  p1 = p1
  m1 = m1
  m2 = m2
  m3 = m3
  Ip <- MCIp
  Mac = {m1, m2, m3}
  NoIp = NoIp
  NoMac = NoMac
  Size = 2
  Xid = {1}
  Retransmit = 2
  MaxDhcpLoops = 5
  MaxArpLoops = 3
  Server <- MCServer
  Address <- MCAddress
  NextServer <- NextSelf
  Settings <- MCSettings
  Proposal <- MCProposal
  Static <- MCStatic
  MacsOf <- MCMacsOf
  Installed <- MCInstalled
  MaxRuns = 3
  Asked = {a1, a2, a3}

SPECIFICATION Spec

INVARIANTS
  TypeOK
  SettingsOfLessor
  RequestNamesOfferer
  GatewayCoherent
  UsableNetwork
  AnswersOnlyForOwn

PROPERTIES
  ProgramEnds

CHECK_DEADLOCK FALSE
