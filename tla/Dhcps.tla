------------------------------- MODULE Dhcps -------------------------------
(***************************************************************************)
(* The DHCP server of the soft-AP (code/net/dhcps/dhcps.c).                *)
(*                                                                         *)
(* One state machine serves every client: the pending offer, the requested *)
(* address and the client's MAC are single static variables, and a packet  *)
(* handler, which runs to completion in the tcpip thread, reads what the   *)
(* packets of other clients left there.  An address is a pair              *)
(* <<net, host>>: the first three bytes and the last one.                  *)
(***************************************************************************)
EXTENDS Integers, FiniteSets

CONSTANTS
  Macs,      \* the clients' hardware addresses
  NoMac,     \* 00:00:00:00:00:00, what memset leaves in a MAC
  Nets,      \* the first three bytes of the addresses in play; 0 is 0.0.0
  Hosts,     \* the last bytes in play; 0 is one of them
  Netifs,    \* interface configurations that dhcps_init may be given
  IpRanges,  \* pairs of addresses that dhcps_set_iprange may be given
  Pools,     \* pairs of addresses that dhcps_set_addr_pool may be given
  ReqIps,    \* addresses that clients put in option 50
  NoOption   \* option 50 is absent

Address == Nets \X Hosts
ZeroAddr == <<0, 0>>

ASSUME ConstantsAssumption ==
  /\ NoMac \notin Macs
  /\ Nets \subseteq Nat /\ 0 \in Nets
  /\ Hosts \subseteq 0..255 /\ 0 \in Hosts
  /\ Netifs \subseteq [net: Nets \ {0}, local: Hosts, gw: Hosts,
                       first: Hosts, last: Hosts]
  /\ IpRanges \subseteq Address \X Address
  /\ Pools \subseteq Address \X Address
  /\ ReqIps \subseteq Address
  /\ NoOption \notin Address

VARIABLES
  machine,     \* dhcp_server_state_machine
  alloc,       \* dhcps_allocated_client_address
  reqIp,       \* client_request_ip
  clientAddr,  \* client_addr
  latched,     \* ip_table.ip_range: h is in it iff bit (h-1)%32 of word (h-1)/32 is set
  clientMac,   \* ip_table.client_mac
  pool,        \* dhcps_addr_pool_set, dhcps_addr_pool_start, dhcps_addr_pool_end
  owned,       \* dhcps_owned_first_ip, dhcps_owned_last_ip
  netif,       \* the configuration dhcps_init copied from the interface
  up,          \* dhcps_pcb is bound and the table's mutex exists
  sent         \* the message the last step sent, if it sent one

(* History variables, which the code does not have.                        *)
VARIABLES
  granted,     \* <<client, host>> of every ACK since the last dhcps_init
  offeredTo,   \* the client that the pending offer was sent to
  misdirected, \* since the last dhcps_init, an offer was ACKed to a client it was not
               \* made to, or an offer made before that dhcps_init was ACKed
  staleOffer,  \* the pending offer is older than the last dhcps_init
  staleAck     \* since the last dhcps_init, an offer made before it was ACKed

book == <<granted, offeredTo, misdirected, staleOffer, staleAck>>
config == <<pool, owned, netif, up>>
table == <<latched, clientMac>>
vars == <<machine, alloc, reqIp, clientAddr, latched, clientMac, config, sent, book>>

Nothing == [type |-> "none", to |-> NoMac, yiaddr |-> ZeroAddr]
Reply(type, m, a) == [type |-> type, to |-> m, yiaddr |-> a]

-----------------------------------------------------------------------------
(* The address table.  An operator named X_Y is a mutated form of X, there *)
(* to show which property a slip in that code would break; no specification *)
(* uses it.                                                                *)

Range5 == 129..160

MarkIpInTable_Dropped(d, T) == {T}  \* mutated form: the bit is never written

\* What mark_ip_in_table can leave in the table.  For 129..160 the macro is given
\* d instead of d - 128 and shifts a 32-bit word by 128 or more, which C leaves
\* undefined: a register shift on the Cortex-M yields 0 and sets no bit, a shift
\* modulo 32 sets the right one.
MarkIpInTable(d, T) ==
  {U \in {T, T \union {d}} : (d = 0 => U = T) /\ (d \notin Range5 \union {0} => d \in U)}

\* save_client_addr.
SaveClientAddr(a, m) == [clientMac EXCEPT ![a[2]] = m]

First(S) == IF S = {} THEN 0 ELSE CHOOSE h \in S : \A k \in S : h <= k

InPool(h) == pool.start[2] <= h /\ h <= pool.end[2]

\* check_client_request_ip tests bit (i%32 - 1) of word i/32.  That is i's own bit,
\* except at a multiple of 32: there it shifts the next word by -1, undefined again
\* (0 on the Cortex-M; modulo 32 it is the bit of i + 32).
RecordedAt_AnyMac(m) == {h \in Hosts : InPool(h) /\ clientMac[h] # NoMac}
RecordedAt(m) == {h \in Hosts : InPool(h) /\ clientMac[h] = m}
SureHits(m) == {h \in RecordedAt(m) : h % 32 # 0 /\ h \in latched}
MaybeHits(m) == {h \in RecordedAt(m) : h % 32 = 0 /\ (h + 32) \in latched}
CheckClientRequestIp_NextBit(m) ==
  {First({h \in RecordedAt(m) : (h + 1) \in latched})}
CheckClientRequestIp(m) == {First(SureHits(m) \union hit) : hit \in SUBSET MaybeHits(m)}

SearchNextIp_Anywhere == First({h \in Hosts \ {0} : pool.set => InPool(h)})
SearchNextIp ==
  First({h \in Hosts \ {0} : h \notin latched /\ (pool.set => InPool(h))})

-----------------------------------------------------------------------------
Init ==
  /\ machine = "IDLE"
  /\ alloc = ZeroAddr
  /\ reqIp = ZeroAddr
  /\ clientAddr = NoMac
  /\ latched = {}
  /\ clientMac = [h \in Hosts |-> NoMac]
  /\ pool = [set |-> FALSE, start |-> ZeroAddr, end |-> ZeroAddr]
  /\ owned = [first |-> ZeroAddr, last |-> ZeroAddr]
  /\ netif = [net |-> 0, local |-> 0, gw |-> 0, first |-> 0, last |-> 0]
  /\ up = FALSE
  /\ sent = Nothing
  /\ granted = {}
  /\ offeredTo = NoMac
  /\ misdirected = FALSE
  /\ staleOffer = FALSE
  /\ staleAck = FALSE

-----------------------------------------------------------------------------
(* Configuration, called from the application's tasks.                     *)

\* A cleared table with the local address and the gateway latched.
OwnLatched(n) == UNION {MarkIpInTable(n.gw, T) : T \in MarkIpInTable(n.local, {})}

\* dhcps_init with a PCB available.  The table is cleared; the state machine, the
\* pending offer and the requested address are not.  The owned range and the pool
\* are taken from the interface only while they are still zero.
DhcpsInit(n) ==
  LET default == \/ owned.first = ZeroAddr
                 \/ owned.last = ZeroAddr
      range   == IF default
                 THEN [first |-> <<n.net, n.first>>, last |-> <<n.net, n.last>>]
                 ELSE owned
  IN  /\ netif' = n
      /\ owned' = range
      /\ pool' = IF pool.start = ZeroAddr /\ pool.end = ZeroAddr
                 THEN [set |-> TRUE, start |-> range.first, end |-> range.last]
                 ELSE pool
      /\ latched' \in OwnLatched(n)
      /\ clientMac' = [h \in Hosts |-> NoMac]
      /\ up' = TRUE
      /\ sent' = Nothing
      /\ granted' = {}
      /\ misdirected' = FALSE
      /\ staleAck' = FALSE
      /\ staleOffer' = (machine = "OFFER")
      /\ UNCHANGED <<machine, alloc, reqIp, clientAddr, offeredTo>>

\* udp_new has no PCB left: dhcps_init returns after clearing the table.
DhcpsInitNoPcb ==
  /\ latched' = {}
  /\ clientMac' = [h \in Hosts |-> NoMac]
  /\ up' = FALSE
  /\ sent' = Nothing
  /\ granted' = {}
  /\ misdirected' = FALSE
  /\ staleAck' = FALSE
  /\ staleOffer' = (machine = "OFFER")
  /\ UNCHANGED <<machine, alloc, reqIp, clientAddr, pool, owned, netif, offeredTo>>

DhcpsDeinit ==
  /\ up' = FALSE
  /\ sent' = Nothing
  /\ UNCHANGED <<machine, alloc, reqIp, clientAddr, table, pool, owned, netif, book>>

AddrLeq(a, b) == a[1] < b[1] \/ (a[1] = b[1] /\ a[2] <= b[2])

DhcpsSetIpRange(r) ==
  /\ AddrLeq(r[1], r[2])
  /\ owned' = [first |-> r[1], last |-> r[2]]
  /\ sent' = Nothing
  /\ UNCHANGED <<machine, alloc, reqIp, clientAddr, table, pool, netif, up, book>>

DhcpsSetAddrPool(r) ==
  /\ pool' = [set |-> TRUE, start |-> r[1], end |-> r[2]]
  /\ sent' = Nothing
  /\ UNCHANGED <<machine, alloc, reqIp, clientAddr, table, owned, netif, up, book>>

DhcpsClearAddrPool ==
  /\ pool' = [pool EXCEPT !.set = FALSE]
  /\ sent' = Nothing
  /\ UNCHANGED <<machine, alloc, reqIp, clientAddr, table, owned, netif, up, book>>

-----------------------------------------------------------------------------
(* Packets.  m is the packet's chaddr, opt its option 50.                  *)

\* client_request_ip is overwritten only when the packet has the option.
RequestedIp_Unread(opt) == reqIp
RequestedIp(opt) == IF opt = NoOption THEN reqIp ELSE opt

\* The machine's state once a reply to a REQUEST is out.
StateAfterReply == "IDLE"

SendOffer(m) ==
  \E known \in CheckClientRequestIp(m) :
    LET host == IF known # 0 THEN known ELSE SearchNextIp IN
    /\ alloc' = <<netif.net, host>>
    /\ sent' = Reply("OFFER", m, alloc')
    /\ offeredTo' = m
    /\ staleOffer' = FALSE

\* send_ack, mark_ip_in_table, save_client_addr, the three memsets, back to IDLE.
SendAck(m, a) ==
  /\ sent' = Reply("ACK", m, a)
  /\ latched' \in MarkIpInTable(a[2], latched)
  /\ clientMac' = SaveClientAddr(a, m)
  /\ reqIp' = ZeroAddr
  /\ clientAddr' = NoMac
  /\ alloc' = ZeroAddr
  /\ machine' = StateAfterReply
  /\ granted' = granted \union {<<m, a[2]>>}
  /\ staleOffer' = FALSE
  /\ UNCHANGED <<config, offeredTo>>

\* The pending offer and the requested address survive a NAK, which also carries
\* the pending address.
SendNak(m, opt) ==
  /\ sent' = Reply("NAK", m, alloc)
  /\ machine' = StateAfterReply
  /\ clientAddr' = m
  /\ reqIp' = RequestedIp(opt)
  /\ staleOffer' = FALSE
  /\ UNCHANGED <<alloc, table, config, granted, offeredTo, misdirected, staleAck>>

\* DISCOVER makes an IDLE server OFFER; one that already offers starts over.
Discover(m, opt) ==
  /\ up
  /\ machine' = "OFFER"
  /\ clientAddr' = m
  /\ reqIp' = RequestedIp(opt)
  /\ SendOffer(m)
  /\ UNCHANGED <<table, config, granted, misdirected, staleAck>>

\* A REQUEST while an offer is pending is compared with that offer, whoever sent it.
RequestOffered(m, opt) ==
  /\ up /\ machine = "OFFER"
  /\ \/ /\ alloc[2] # 0 /\ alloc = RequestedIp(opt)
        /\ misdirected' = (misdirected \/ offeredTo # m \/ staleOffer)
        /\ staleAck' = (staleAck \/ staleOffer)
        /\ SendAck(m, alloc)
     \/ /\ alloc[2] = 0 \/ alloc # RequestedIp(opt)
        /\ SendNak(m, opt)

\* A REQUEST to an idle server is a known client's renewal: the address it asks for
\* is ignored, the one in the table is confirmed.
RequestIdle(m, opt) ==
  /\ up /\ machine = "IDLE"
  /\ \E known \in CheckClientRequestIp(m) :
       \/ /\ known # 0
          /\ UNCHANGED <<misdirected, staleAck>>
          /\ SendAck(m, <<netif.net, known>>)
       \/ /\ known = 0
          /\ SendNak(m, opt)

\* DECLINE and RELEASE: back to IDLE; the lease is not given back.
DeclineOrRelease(m, opt) ==
  /\ up
  /\ machine' = "IDLE"
  /\ clientAddr' = m
  /\ reqIp' = RequestedIp(opt)
  /\ sent' = Nothing
  /\ staleOffer' = FALSE
  /\ UNCHANGED <<alloc, table, config, granted, offeredTo, misdirected, staleAck>>

\* Any other message type (INFORM, or none): the state stays, and if it is OFFER
\* the handler sends an offer.
OtherMessage(m, opt) ==
  /\ up
  /\ clientAddr' = m
  /\ reqIp' = RequestedIp(opt)
  /\ \/ machine = "OFFER" /\ SendOffer(m)
     \/ machine = "IDLE" /\ sent' = Nothing /\ UNCHANGED <<alloc, offeredTo, staleOffer>>
  /\ UNCHANGED <<machine, table, config, granted, misdirected, staleAck>>

\* A packet without the magic cookie still leaves its MAC behind.
NotDhcp(m) ==
  /\ up
  /\ clientAddr' = m
  /\ sent' = Nothing
  /\ UNCHANGED <<machine, alloc, reqIp, table, config, book>>

-----------------------------------------------------------------------------
Options == ReqIps \union {NoOption}

Packet(m, opt) ==
  \/ Discover(m, opt)
  \/ RequestOffered(m, opt)
  \/ RequestIdle(m, opt)
  \/ DeclineOrRelease(m, opt)
  \/ OtherMessage(m, opt)

Configure ==
  \/ \E n \in Netifs : DhcpsInit(n)
  \/ DhcpsInitNoPcb
  \/ DhcpsDeinit
  \/ \E r \in IpRanges : DhcpsSetIpRange(r)
  \/ \E r \in Pools : DhcpsSetAddrPool(r)
  \/ DhcpsClearAddrPool

Next ==
  \/ Configure
  \/ \E m \in Macs : NotDhcp(m) \/ \E opt \in Options : Packet(m, opt)

Spec == Init /\ [][Next]_vars

-----------------------------------------------------------------------------
MacOrNone == Macs \union {NoMac}
Messages == [type: {"none", "OFFER", "ACK", "NAK"}, to: MacOrNone, yiaddr: Address]

(* Every variable holds a value of its C type; the two transient states of *)
(* the machine, ACK and NAK, never outlive the packet that entered them,   *)
(* so that the last branch of REQUEST is dead.                             *)
TypeOK ==
  /\ machine \in {"IDLE", "OFFER"}
  /\ alloc \in Address
  /\ reqIp \in Address
  /\ clientAddr \in MacOrNone
  /\ latched \subseteq Hosts
  /\ clientMac \in [Hosts -> MacOrNone]
  /\ pool \in [set: BOOLEAN, start: Address, end: Address]
  /\ owned \in [first: Address, last: Address]
  /\ netif \in [net: Nets, local: Hosts, gw: Hosts, first: Hosts, last: Hosts]
  /\ up \in BOOLEAN
  /\ sent \in Messages
  /\ granted \subseteq Macs \X Hosts
  /\ offeredTo \in MacOrNone
  /\ misdirected \in BOOLEAN
  /\ staleOffer \in BOOLEAN
  /\ staleAck \in BOOLEAN

(* An address that some client was ACKed stays latched until the next      *)
(* dhcps_init, whatever packets, NAKs and pool changes come in between, so *)
(* the search never hands it out as new.  The fifth word (129..160) is     *)
(* excepted: mark_ip_in_table may miss it.                                 *)
GrantedIsLatched ==
  \A g \in granted : g[2] \in latched \union Range5

(* The table names at most what was granted: the MAC recorded for an       *)
(* address belongs to a client that was ACKed that address.                *)
RecordedWasGranted ==
  \A h \in Hosts : clientMac[h] # NoMac => <<clientMac[h], h>> \in granted

(* A pending offer made since the last dhcps_init is of the served network *)
(* and is an address that nobody holds, or that the client it was made to  *)
(* holds already, or the 0 of an exhausted pool.                           *)
OfferIsFreeOrOwn ==
  machine = "OFFER" /\ ~staleOffer =>
    /\ alloc[1] = netif.net
    /\ alloc[2] \notin latched \/ clientMac[alloc[2]] = offeredTo

(* Two clients share an address only after the server has ACKed one        *)
(* client's pending offer to another: with exchanges that do not overlap,  *)
(* leases are unique (the fifth word excepted, as above).                  *)
SharedOnlyByMisdirectedAck ==
  ~misdirected =>
    \A g, k \in granted : g[2] = k[2] /\ g[2] \notin Range5 => g[1] = k[1]

(* No client is given the server's own address, its gateway's or the host  *)
(* 0 of an exhausted pool, whoever's offer it is ACKed, unless an offer    *)
(* that an earlier configuration left behind has been ACKed since (or the  *)
(* address is in the fifth word).                                          *)
NeverGrantsOwnAddress ==
  ~staleAck =>
    \A g \in granted : g[2] \notin {0, netif.local, netif.gw} \ Range5

(* An idle server, asked by a REQUEST, never gives a client an address it  *)
(* did not hold, whatever is left over in alloc and client_request_ip.     *)
IdleAckOnlyRenews ==
  [][machine = "IDLE" /\ sent'.type = "ACK" => granted' = granted]_vars

(* A client with a lease (in the pool, not at a multiple of 32) that starts *)
(* over with DISCOVER is offered an address it was granted, never another. *)
KnownClientKeepsAddress ==
  [][\A m \in Macs :
       sent'.type = "OFFER" /\ sent'.to = m /\ SureHits(m) # {} =>
         <<m, sent'.yiaddr[2]>> \in granted]_vars

(* mark_ip_in_table's comment, "latch the specific ip in the ip table",    *)
(* taken at its word for every address.  The fifth word breaks it.         *)
EveryGrantIsLatched == \A g \in granted : g[2] \in latched

-----------------------------------------------------------------------------
Book == INSTANCE AddressBook WITH
          Clients <- Macs, Nobody <- NoMac, Addrs <- Hosts, NoAddr <- 0,
          Leaky <- Range5, taken <- latched, holder <- clientMac,
          offer <- IF machine = "OFFER" THEN alloc[2] ELSE 0

(* The packet handler and dhcps_init, with all the state they leave lying  *)
(* about between packets, implement the address book.                      *)
ImplementsBook == Book!BSpec
=============================================================================
