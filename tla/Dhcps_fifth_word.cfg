SPECIFICATION Spec
CONSTANTS
  Macs = {m1, m2}
  NoMac = NoMac
  NoOption = NoOption
  Nets <- MCNets
  Hosts <- FifthWordHosts
  Netifs <- FifthWordNetifs
  IpRanges <- NoRanges
  Pools <- NoRanges
  ReqIps <- FifthWordReqIps
SYMMETRY Symmetry
INVARIANTS
  EveryGrantIsLatched
