SPECIFICATION Spec
CONSTANTS
  Macs = {m1, m2, m3}
  NoMac = NoMac
  NoOption = NoOption
  Nets <- MCNets
  Hosts <- EdgeHosts
  Netifs <- EdgeNetifs
  IpRanges <- EdgeRanges
  Pools <- EdgeRanges
  ReqIps <- EdgeReqIps
SYMMETRY Symmetry
INVARIANTS
  OfferIsFreeOrOwn
  SharedOnlyByMisdirectedAck
  NeverGrantsOwnAddress
PROPERTIES
  IdleAckOnlyRenews
  KnownClientKeepsAddress
  ImplementsBook
