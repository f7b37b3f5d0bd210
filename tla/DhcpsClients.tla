---------------------------- MODULE DhcpsClients ----------------------------
(***************************************************************************)
(* The DHCP server together with the stations it serves.  The server's     *)
(* handler is that of Dhcps, unchanged; the stations and the air between   *)
(* them are external: each station follows the usual DISCOVER, OFFER,      *)
(* REQUEST, ACK exchange, its packets stay in order but those of different *)
(* stations interleave freely, packets may be lost, a station that waits   *)
(* in vain starts over, and a bound one may renew or reboot.               *)
(***************************************************************************)
EXTENDS Dhcps, Sequences

CONSTANTS
  Apif,       \* the soft-AP's interface: the server is initialised on it
  MaxLost,    \* bound: packets and answers lost in a behaviour
  MaxReboots, \* bound: times that a bound station starts over
  MaxRenews,  \* bound: renewals sent in a behaviour
  MaxInforms  \* bound: INFORMs sent by bound stations in a behaviour

ASSUME BoundsAssumption ==
  /\ Apif \in Netifs
  /\ {MaxLost, MaxReboots, MaxRenews, MaxInforms} \subseteq Nat

VARIABLES
  phase,     \* what each station is doing
  lease,     \* the address each station was last offered or ACKed
  toServer,  \* packets of each station on their way to the server
  toClient,  \* the answer on its way to each station
  budget     \* what is left of the four bounds

cvars == <<phase, lease, toServer, toClient, budget>>
allvars == <<vars, cvars>>

Pkt(type, opt) == [type |-> type, opt |-> opt]

CInit ==
  /\ machine = "IDLE" /\ alloc = ZeroAddr /\ reqIp = ZeroAddr /\ clientAddr = NoMac
  /\ latched \in OwnLatched(Apif)
  /\ clientMac = [h \in Hosts |-> NoMac]
  /\ owned = [first |-> <<Apif.net, Apif.first>>, last |-> <<Apif.net, Apif.last>>]
  /\ pool = [set |-> TRUE, start |-> owned.first, end |-> owned.last]
  /\ netif = Apif /\ up = TRUE /\ sent = Nothing
  /\ granted = {} /\ offeredTo = NoMac /\ misdirected = FALSE
  /\ staleOffer = FALSE /\ staleAck = FALSE
  /\ phase = [m \in Macs |-> "init"]
  /\ lease = [m \in Macs |-> ZeroAddr]
  /\ toServer = [m \in Macs |-> <<>>]
  /\ toClient = [m \in Macs |-> Nothing]
  /\ budget = [lost |-> MaxLost, reboots |-> MaxReboots, renews |-> MaxRenews,
               informs |-> MaxInforms]

Spend(kind) ==
  /\ budget[kind] > 0
  /\ budget' = [budget EXCEPT ![kind] = @ - 1]

Send(m, p) == toServer' = [toServer EXCEPT ![m] = Append(@, p)]

-----------------------------------------------------------------------------
(* A station.                                                              *)

\* A station that had a lease asks for it in option 50.
StationDiscover(m) ==
  /\ phase[m] = "init"
  /\ phase' = [phase EXCEPT ![m] = "selecting"]
  /\ Send(m, Pkt("DISCOVER", IF lease[m] = ZeroAddr THEN NoOption ELSE lease[m]))
  /\ toClient' = [toClient EXCEPT ![m] = Nothing]
  /\ UNCHANGED <<vars, lease, budget>>

StationRequest(m) ==
  /\ phase[m] = "selecting" /\ toClient[m].type = "OFFER"
  /\ phase' = [phase EXCEPT ![m] = "requesting"]
  /\ lease' = [lease EXCEPT ![m] = toClient[m].yiaddr]
  /\ Send(m, Pkt("REQUEST", toClient[m].yiaddr))
  /\ toClient' = [toClient EXCEPT ![m] = Nothing]
  /\ UNCHANGED <<vars, budget>>

\* An ACK binds; a bound station that renewed takes the address it carries.
StationAcked(m) ==
  /\ phase[m] \in {"requesting", "bound"} /\ toClient[m].type = "ACK"
  /\ phase' = [phase EXCEPT ![m] = "bound"]
  /\ lease' = [lease EXCEPT ![m] = toClient[m].yiaddr]
  /\ toClient' = [toClient EXCEPT ![m] = Nothing]
  /\ UNCHANGED <<vars, toServer, budget>>

StationRefused(m) ==
  /\ phase[m] \in {"requesting", "bound"} /\ toClient[m].type = "NAK"
  /\ phase' = [phase EXCEPT ![m] = "init"]
  /\ lease' = [lease EXCEPT ![m] = ZeroAddr]
  /\ toClient' = [toClient EXCEPT ![m] = Nothing]
  /\ UNCHANGED <<vars, toServer, budget>>

\* The transaction id does not match what the station waits for.
StationIgnores(m) ==
  /\ \/ phase[m] = "init" /\ toClient[m].type # "none"
     \/ phase[m] = "selecting" /\ toClient[m].type \in {"ACK", "NAK"}
     \/ phase[m] \in {"requesting", "bound"} /\ toClient[m].type = "OFFER"
  /\ toClient' = [toClient EXCEPT ![m] = Nothing]
  /\ UNCHANGED <<vars, phase, lease, toServer, budget>>

\* Nothing is on its way: the station's packet or the answer was lost.
StationTimeout(m) ==
  /\ phase[m] \in {"selecting", "requesting"}
  /\ toServer[m] = <<>> /\ toClient[m].type = "none"
  /\ phase' = [phase EXCEPT ![m] = "init"]
  /\ UNCHANGED <<vars, lease, toServer, toClient, budget>>

StationRenews(m) ==
  /\ phase[m] = "bound" /\ toServer[m] = <<>>
  /\ Spend("renews")
  /\ Send(m, Pkt("REQUEST", NoOption))
  /\ UNCHANGED <<vars, phase, lease, toClient>>

StationInforms(m) ==
  /\ phase[m] = "bound" /\ toServer[m] = <<>>
  /\ Spend("informs")
  /\ Send(m, Pkt("INFORM", NoOption))
  /\ UNCHANGED <<vars, phase, lease, toClient>>

StationReboots(m) ==
  /\ phase[m] = "bound"
  /\ Spend("reboots")
  /\ phase' = [phase EXCEPT ![m] = "init"]
  /\ UNCHANGED <<vars, lease, toServer, toClient>>

-----------------------------------------------------------------------------
(* The server and the air.                                                 *)

Serve(m) ==
  /\ toServer[m] # <<>>
  /\ LET p == Head(toServer[m]) IN
       \/ p.type = "DISCOVER" /\ Discover(m, p.opt)
       \/ p.type = "REQUEST" /\ (RequestOffered(m, p.opt) \/ RequestIdle(m, p.opt))
       \/ p.type = "INFORM" /\ OtherMessage(m, p.opt)
  /\ toServer' = [toServer EXCEPT ![m] = Tail(@)]
  /\ toClient' = [toClient EXCEPT ![m] = IF sent'.type = "none" THEN @ ELSE sent']
  /\ UNCHANGED <<phase, lease, budget>>

LosePacket(m) ==
  /\ toServer[m] # <<>>
  /\ Spend("lost")
  /\ toServer' = [toServer EXCEPT ![m] = Tail(@)]
  /\ UNCHANGED <<vars, phase, lease, toClient>>

LoseAnswer(m) ==
  /\ toClient[m].type # "none"
  /\ Spend("lost")
  /\ toClient' = [toClient EXCEPT ![m] = Nothing]
  /\ UNCHANGED <<vars, phase, lease, toServer>>

Station(m) ==
  \/ StationDiscover(m) \/ StationRequest(m) \/ StationAcked(m)
  \/ StationRefused(m) \/ StationIgnores(m) \/ StationTimeout(m)

CNext ==
  \E m \in Macs :
    \/ Station(m) \/ Serve(m)
    \/ StationRenews(m) \/ StationInforms(m) \/ StationReboots(m)
    \/ LosePacket(m) \/ LoseAnswer(m)

CSpec == CInit /\ [][CNext]_allvars

\* The tcpip thread drains its mailbox and stations follow their protocol; nothing
\* has to be lost, renewed or rebooted.
CFairness == \A m \in Macs : WF_allvars(Serve(m)) /\ WF_allvars(Station(m))

FairCSpec == CSpec /\ CFairness

-----------------------------------------------------------------------------
(* No two bound stations use the same address, though exchanges overlap,   *)
(* answers are lost, stations renew and reboot, and the server ACKs its    *)
(* one pending offer to whoever asks for it.  One thing breaks this: a     *)
(* bound station's INFORM while an offer is pending makes the server offer *)
(* that station's own address.  The fifth word is excepted: there an       *)
(* address that is taken may not be latched, and is offered again.         *)
ConflictNeedsAnInform ==
  budget.informs = MaxInforms =>
    \A m, k \in Macs :
      m # k /\ phase[m] = "bound" /\ phase[k] = "bound" =>
        lease[m] # lease[k] \/ lease[m][2] \in Range5

(* Every bound station's address is one the server knows to be taken, the  *)
(* fifth word excepted.                                                    *)
BoundIsLatched ==
  \A m \in Macs : phase[m] = "bound" => lease[m][2] \in latched \union Range5

(* Every station is eventually bound and stays so.                         *)
EventuallyBound == \A m \in Macs : <>[](phase[m] = "bound")
=============================================================================
