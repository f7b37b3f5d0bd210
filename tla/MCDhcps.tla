------------------------------ MODULE MCDhcps ------------------------------
(* Instances of Dhcps for TLC.  The interface configurations are soft-AP     *)
(* subnets; the pools sit at the edges of the table's 32-bit words.          *)
EXTENDS Dhcps, TLC

MCNets == 0..2
NoRanges == {}

\* Two interfaces, the server address of each a lease of the other's pool, around
\* the first word boundary; the last bit of the second word is no lease of either.
EdgeHosts == {0, 31, 32, 33, 64}
EdgeNetifs == {[net |-> 1, local |-> 31, gw |-> 31, first |-> 31, last |-> 33],
               [net |-> 2, local |-> 32, gw |-> 0, first |-> 31, last |-> 33]}
EdgeRanges == {<<<<1, 32>>, <<1, 33>>>>, <<<<2, 31>>, <<1, 33>>>>}
EdgeReqIps == {<<1, 31>>, <<1, 32>>, <<2, 33>>}

\* The lower edge of the fifth word.
FifthWordHosts == {0, 127, 128, 129}
FifthWordNetifs == {[net |-> 1, local |-> 127, gw |-> 127, first |-> 127, last |-> 129]}
FifthWordReqIps == {<<1, 128>>, <<1, 129>>}

Symmetry == Permutations(Macs)
=============================================================================
