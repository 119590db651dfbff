CONSTANTS
  Ip = {i1, i2, i3, i4}
  Mac = {m1, m2}
  NoIp = NoIp
  NoMac = NoMac
  Size = 3

SPECIFICATION CacheSpec

INVARIANTS
  NoDuplicateIp

PROPERTIES
  LookupCurrent
  ImplementsMap
