--------------------------- MODULE MCDhcpsClients ---------------------------
(* The DHCP server with two or three stations, for TLC.                      *)
EXTENDS DhcpsClients, TLC

SmallNets == 0..1
SmallHosts == 0..4
SmallApif == [net |-> 1, local |-> 1, gw |-> 1, first |-> 1, last |-> 4]
SmallNetifs == {SmallApif}
NoneGiven == {}

Symmetry == Permutations(Macs)
=============================================================================
