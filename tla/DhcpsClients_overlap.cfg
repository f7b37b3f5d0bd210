SPECIFICATION CSpec
CONSTANTS
  Macs = {m1, m2, m3}
  NoMac = NoMac
  NoOption = NoOption
  Nets <- SmallNets
  Hosts <- SmallHosts
  Netifs <- SmallNetifs
  IpRanges <- NoneGiven
  Pools <- NoneGiven
  ReqIps <- NoneGiven
  Apif <- SmallApif
  MaxLost = 1
  MaxReboots = 1
  MaxRenews = 1
  MaxInforms = 1
SYMMETRY Symmetry
INVARIANTS
  ConflictNeedsAnInform
  BoundIsLatched
CHECK_DEADLOCK FALSE
