SPECIFICATION FairCSpec
CONSTANTS
  Macs = {m1, m2, m3}
  NoMac = NoMac
  NoOption = NoOption
  Nets <- SmallNets
  Hosts <- SmallHosts
  Netifs <- SmallNetifs
  IpRanges <- NoneGiven
  Pools <- NoneGiven
  ReqIps <- NoneGiven
  Apif <- SmallApif
  MaxLost = 0
  MaxReboots = 0
  MaxRenews = 0
  MaxInforms = 1
PROPERTIES
  EventuallyBound
CHECK_DEADLOCK FALSE
