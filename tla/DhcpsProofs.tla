---------------------------- MODULE DhcpsProofs ----------------------------
EXTENDS DhcpsClients, WellFoundedInduction, TLAPS

(***************************************************************************)
(* Proofs about the DHCP server.  The properties of Dhcps are not          *)
(* inductive one by one: that a pending offer is free or the client's own  *)
(* needs the table to record only what was granted, uniqueness needs both, *)
(* and the server's own address needs to be latched while the server is    *)
(* up.  IInv is their conjunction with the three facts that are missing.   *)
(* CInv, further below, adds what is true of the stations.                 *)
(***************************************************************************)

(* Bit 0 is never set: mark_ip_in_table ignores 0.                         *)
ZeroNotLatched == 0 \notin latched

(* While the server runs, its own address and its gateway's are latched.   *)
OwnIsLatched == up => {netif.local, netif.gw} \subseteq latched \union Range5 \union {0}

(* A pending offer of this session was made to some client.                *)
OfferHasTaker == machine = "OFFER" /\ ~staleOffer => offeredTo # NoMac

IInv ==
  /\ TypeOK
  /\ GrantedIsLatched
  /\ RecordedWasGranted
  /\ OfferIsFreeOrOwn
  /\ SharedOnlyByMisdirectedAck
  /\ NeverGrantsOwnAddress
  /\ ZeroNotLatched
  /\ OwnIsLatched
  /\ OfferHasTaker

-----------------------------------------------------------------------------
(* The operators of the table.                                             *)

LEMMA LeastElement ==
  ASSUME NEW S \in SUBSET Nat, S # {}
  PROVE  \E h \in S : \A k \in S : h <= k
<1> DEFINE Less == {ss \in Nat \X Nat : ss[1] < ss[2]}
<1>1. OpToRel(<, Nat) = Less
  BY DEF OpToRel
<1>2. IsWellFoundedOn(Less, Nat)
  BY <1>1, NatLessThanWellFounded
<1> HIDE DEF Less
<1>3. PICK h \in S : \A k \in S : <<k, h>> \notin Less
  BY <1>2, WFMin, Zenon
<1>4. ASSUME NEW k \in S  PROVE h <= k
  <2>1. <<k, h>> \in Nat \X Nat /\ <<k, h>>[1] = k /\ <<k, h>>[2] = h
    OBVIOUS
  <2>2. ~(k < h)
    BY <1>3, <2>1 DEF Less
  <2> QED BY <2>2
<1> QED BY <1>4

(* First is the least element of a set of hosts, and 0 for the empty set.  *)
LEMMA FirstIsMember ==
  ASSUME NEW S \in SUBSET Hosts
  PROVE  First(S) \in Hosts /\ (S # {} => First(S) \in S) /\ (S = {} => First(S) = 0)
<1>1. CASE S = {}
  BY <1>1, ConstantsAssumption DEF First
<1>2. CASE S # {}
  <2>1. S \subseteq Nat
    BY ConstantsAssumption
  <2>2. \E h \in S : \A k \in S : h <= k
    BY <1>2, <2>1, LeastElement
  <2>3. First(S) \in S
    BY <1>2, <2>2 DEF First
  <2> QED BY <1>2, <2>3
<1> QED BY <1>1, <1>2

(* The lookup of a client yields 0 or an address the table records for it. *)
LEMMA LookupFindsOwn ==
  ASSUME NEW m, NEW known \in CheckClientRequestIp(m)
  PROVE  known \in Hosts /\ (known # 0 => clientMac[known] = m)
<1>1. PICK hit \in SUBSET MaybeHits(m) : known = First(SureHits(m) \union hit)
  BY DEF CheckClientRequestIp
<1>2. /\ SureHits(m) \union hit \subseteq Hosts
      /\ \A h \in SureHits(m) \union hit : clientMac[h] = m
  BY <1>1 DEF SureHits, MaybeHits, RecordedAt
<1> QED BY <1>1, <1>2, FirstIsMember

(* The search yields 0 or an address that is not latched.                  *)
LEMMA SearchFindsFree ==
  SearchNextIp \in Hosts /\ (SearchNextIp # 0 => SearchNextIp \notin latched)
<1> DEFINE free == {h \in Hosts \ {0} : h \notin latched /\ (pool.set => InPool(h))}
<1>1. free \in SUBSET Hosts /\ SearchNextIp = First(free)
  BY DEF SearchNextIp
<1>2. \A h \in free : h \notin latched
  OBVIOUS
<1> HIDE DEF free
<1> QED BY <1>1, <1>2, FirstIsMember

(* Latching d keeps what is latched, adds at most d, and adds d outside    *)
(* the fifth word.                                                         *)
LEMMA MarkAddsOnly ==
  ASSUME NEW d \in Hosts, NEW T, NEW U \in MarkIpInTable(d, T)
  PROVE  /\ T \subseteq U /\ U \subseteq T \union {d}
         /\ d \in U \union Range5 \union {0}
         /\ 0 \notin T => 0 \notin U
  BY DEF MarkIpInTable

(* A cleared table holds the interface's own addresses, but for the fifth  *)
(* word, and no other.                                                     *)
LEMMA OwnAreLatched ==
  ASSUME NEW n \in Netifs, NEW L \in OwnLatched(n)
  PROVE  /\ L \subseteq Hosts /\ 0 \notin L
         /\ {n.local, n.gw} \subseteq L \union Range5 \union {0}
<1>1. n.local \in Hosts /\ n.gw \in Hosts
  BY ConstantsAssumption
<1>2. PICK T \in MarkIpInTable(n.local, {}) : L \in MarkIpInTable(n.gw, T)
  BY DEF OwnLatched
<1>3. /\ T \subseteq {n.local} /\ n.local \in T \union Range5 \union {0} /\ 0 \notin T
      /\ T \subseteq L /\ L \subseteq T \union {n.gw}
      /\ n.gw \in L \union Range5 \union {0} /\ 0 \notin L
  BY <1>1, <1>2, MarkAddsOnly
<1> QED BY <1>1, <1>3

-----------------------------------------------------------------------------
(* Preservation.                                                           *)

LEMMA InitEstablishes == Init => IInv
<1> SUFFICES ASSUME Init PROVE IInv
  OBVIOUS
<1> USE DEF Init, ZeroAddr, Nothing
<1>1. TypeOK
  BY ConstantsAssumption DEF TypeOK, Address, MacOrNone, Messages
<1>2. GrantedIsLatched /\ SharedOnlyByMisdirectedAck /\ NeverGrantsOwnAddress
  BY DEF GrantedIsLatched, SharedOnlyByMisdirectedAck, NeverGrantsOwnAddress
<1>3. RecordedWasGranted /\ OfferIsFreeOrOwn /\ ZeroNotLatched /\ OwnIsLatched
      /\ OfferHasTaker
  BY DEF RecordedWasGranted, OfferIsFreeOrOwn, ZeroNotLatched, OwnIsLatched, OfferHasTaker
<1> QED BY <1>1, <1>2, <1>3 DEF IInv

(* An ACK of a to m keeps the invariant, whatever is pending, provided     *)
(* that a is free or m's own, unless it is recorded as misdirected, and    *)
(* free or somebody's, unless it is recorded as that of a stale offer.     *)
LEMMA AckPreserves ==
  ASSUME IInv, up,
         NEW m \in Macs, NEW a \in Address, a[2] # 0,
         misdirected' \in BOOLEAN, staleAck' \in BOOLEAN,
         ~misdirected' => ~misdirected /\ (clientMac[a[2]] = m \/ a[2] \notin latched),
         ~staleAck' => ~staleAck /\ (clientMac[a[2]] # NoMac \/ a[2] \notin latched),
         SendAck(m, a)
  PROVE  IInv'
<1> DEFINE h == a[2]
<1> USE DEF IInv, SendAck, SaveClientAddr, StateAfterReply, config
<1>0. h \in Hosts /\ a \in Address /\ m # NoMac
  BY ConstantsAssumption DEF Address
<1>1. latched \subseteq latched' /\ latched' \subseteq latched \union {h}
      /\ h \in latched' \union Range5 \union {0} /\ (0 \notin latched => 0 \notin latched')
  BY <1>0, MarkAddsOnly
<1>2. TypeOK'
  <2>1. ZeroAddr \in Address
    BY ConstantsAssumption DEF ZeroAddr, Address
  <2>2. sent' \in Messages
    BY <1>0 DEF Reply, Messages, MacOrNone
  <2>3. granted' \subseteq Macs \X Hosts
    BY <1>0 DEF TypeOK
  <2>4. clientMac' \in [Hosts -> MacOrNone]
    BY <1>0 DEF TypeOK, MacOrNone
  <2> QED BY <1>0, <1>1, <2>1, <2>2, <2>3, <2>4 DEF TypeOK, MacOrNone
<1>3. GrantedIsLatched'
  BY <1>0, <1>1 DEF GrantedIsLatched
<1>4. RecordedWasGranted'
  BY <1>0 DEF RecordedWasGranted, TypeOK
<1>5. OfferIsFreeOrOwn' /\ OfferHasTaker'
  BY DEF OfferIsFreeOrOwn, OfferHasTaker
<1>6. ~misdirected' => <<m, h>> \in granted \/ h \notin latched
  BY <1>0 DEF RecordedWasGranted
<1>7. SharedOnlyByMisdirectedAck'
  <2> SUFFICES ASSUME ~misdirected', NEW g \in granted', NEW k \in granted',
                      g[2] = k[2], g[2] \notin Range5
               PROVE  g[1] = k[1]
    BY DEF SharedOnlyByMisdirectedAck, Range5
  <2>1. CASE g \in granted /\ k \in granted
    BY <2>1 DEF SharedOnlyByMisdirectedAck
  <2>2. \A j \in granted : j[2] = h /\ h \notin Range5 => j[1] = m
    <3> SUFFICES ASSUME NEW j \in granted, j[2] = h, h \notin Range5
                 PROVE  j[1] = m
      OBVIOUS
    <3>1. h \in latched
      BY DEF GrantedIsLatched
    <3>2. <<m, h>> \in granted
      BY <3>1, <1>6
    <3> QED BY <3>2 DEF SharedOnlyByMisdirectedAck
  <2> QED BY <2>1, <2>2
<1>8. NeverGrantsOwnAddress'
  <2> SUFFICES ASSUME ~staleAck' PROVE h \notin {0, netif.local, netif.gw} \ Range5
    BY DEF NeverGrantsOwnAddress, Range5
  <2>1. CASE clientMac[h] # NoMac
    <3>1. <<clientMac[h], h>> \in granted
      BY <1>0, <2>1 DEF RecordedWasGranted
    <3> QED BY <3>1 DEF NeverGrantsOwnAddress
  <2>2. CASE h \notin latched
    BY <2>2 DEF OwnIsLatched
  <2> QED BY <2>1, <2>2
<1>9. ZeroNotLatched' /\ OwnIsLatched'
  BY <1>1 DEF ZeroNotLatched, OwnIsLatched, Range5
<1> QED BY <1>2, <1>3, <1>4, <1>5, <1>7, <1>8, <1>9

(* A step that touches neither the table nor the history, and leaves no    *)
(* pending offer or the same one, keeps the invariant.                     *)
LEMMA QuietPreserves ==
  ASSUME IInv, TypeOK',
         UNCHANGED <<table, netif, granted, misdirected, staleAck>>,
         up' => up,
         machine' = "IDLE" \/ UNCHANGED <<machine, alloc, offeredTo, staleOffer>>
  PROVE  IInv'
<1> USE DEF IInv, table
<1>1. GrantedIsLatched' /\ RecordedWasGranted' /\ SharedOnlyByMisdirectedAck'
      /\ NeverGrantsOwnAddress'
  BY DEF GrantedIsLatched, RecordedWasGranted, SharedOnlyByMisdirectedAck,
         NeverGrantsOwnAddress, Range5
<1>2. OfferIsFreeOrOwn' /\ OfferHasTaker'
  BY DEF OfferIsFreeOrOwn, OfferHasTaker
<1>3. ZeroNotLatched' /\ OwnIsLatched'
  BY DEF ZeroNotLatched, OwnIsLatched, Range5
<1> QED BY <1>1, <1>2, <1>3

(* An offer is of 0, of a free address or of the client's own.             *)
LEMMA OfferPreserves ==
  ASSUME IInv, NEW m \in Macs, NEW opt, RequestedIp(opt) \in Address, SendOffer(m),
         machine' = "OFFER", clientAddr' = m, reqIp' = RequestedIp(opt),
         UNCHANGED <<table, config, granted, misdirected, staleAck>>
  PROVE  IInv'
<1> USE DEF IInv, table, config
<1>1. PICK known \in CheckClientRequestIp(m) :
        /\ alloc' = <<netif.net, IF known # 0 THEN known ELSE SearchNextIp>>
        /\ sent' = Reply("OFFER", m, alloc')
        /\ offeredTo' = m
        /\ staleOffer' = FALSE
  BY DEF SendOffer
<1> DEFINE h == IF known # 0 THEN known ELSE SearchNextIp
<1>2. h \in Hosts /\ (h \notin latched \/ clientMac[h] = m)
  BY LookupFindsOwn, SearchFindsFree DEF ZeroNotLatched
<1>3. alloc' \in Address
  BY <1>1, <1>2 DEF TypeOK, Address
<1>4. TypeOK'
  <2>1. reqIp' \in Address
    OBVIOUS
  <2>2. sent' \in Messages
    BY <1>1, <1>3 DEF Reply, Messages, MacOrNone
  <2> QED BY <1>1, <1>3, <2>1, <2>2 DEF TypeOK, MacOrNone
<1>5. OfferIsFreeOrOwn' /\ OfferHasTaker'
  BY <1>1, <1>2, ConstantsAssumption DEF OfferIsFreeOrOwn, OfferHasTaker
<1>6. GrantedIsLatched' /\ RecordedWasGranted' /\ SharedOnlyByMisdirectedAck'
      /\ NeverGrantsOwnAddress'
  BY DEF GrantedIsLatched, RecordedWasGranted, SharedOnlyByMisdirectedAck,
         NeverGrantsOwnAddress, Range5
<1>7. ZeroNotLatched' /\ OwnIsLatched'
  BY DEF ZeroNotLatched, OwnIsLatched, Range5
<1> QED BY <1>4, <1>5, <1>6, <1>7

(* dhcps_init starts a new book; an offer it leaves pending is stale.      *)
LEMMA ResetPreserves ==
  ASSUME IInv, TypeOK', granted' = {}, 0 \notin latched',
         clientMac' = [h \in Hosts |-> NoMac],
         staleOffer' = (machine = "OFFER"), UNCHANGED machine,
         up' => {netif'.local, netif'.gw} \subseteq latched' \union Range5 \union {0}
  PROVE  IInv'
<1>1. GrantedIsLatched' /\ SharedOnlyByMisdirectedAck' /\ NeverGrantsOwnAddress'
  BY DEF GrantedIsLatched, SharedOnlyByMisdirectedAck, NeverGrantsOwnAddress
<1>2. RecordedWasGranted'
  BY DEF RecordedWasGranted
<1>3. OfferIsFreeOrOwn' /\ OfferHasTaker'
  BY DEF OfferIsFreeOrOwn, OfferHasTaker
<1>4. ZeroNotLatched' /\ OwnIsLatched'
  BY DEF ZeroNotLatched, OwnIsLatched, Range5
<1> QED BY <1>1, <1>2, <1>3, <1>4 DEF IInv

LEMMA ConfigurePreserves ==
  ASSUME IInv, Configure
  PROVE  IInv'
<1> USE DEF IInv, Nothing
<1>0. Nothing \in Messages
  BY ConstantsAssumption DEF Messages, MacOrNone, Address, ZeroAddr
<1>1. ASSUME NEW n \in Netifs, DhcpsInit(n)
      PROVE  IInv'
  <2>1. n \in [net: Nets, local: Hosts, gw: Hosts, first: Hosts, last: Hosts]
    BY ConstantsAssumption
  <2>3. /\ latched' \subseteq Hosts /\ 0 \notin latched'
        /\ {n.local, n.gw} \subseteq latched' \union Range5 \union {0}
    BY <1>1, OwnAreLatched DEF DhcpsInit
  <2>5. owned' \in [first: Address, last: Address]
    BY <1>1, <2>1 DEF DhcpsInit, TypeOK, Address
  <2>6. pool' \in [set: BOOLEAN, start: Address, end: Address]
    <3>1. pool' = pool \/ pool' = [set |-> TRUE, start |-> owned'.first, end |-> owned'.last]
      BY <1>1 DEF DhcpsInit
    <3>2. owned'.first \in Address /\ owned'.last \in Address
      BY <2>5
    <3>3. [set |-> TRUE, start |-> owned'.first, end |-> owned'.last]
            \in [set: BOOLEAN, start: Address, end: Address]
      BY <3>2
    <3>4. pool \in [set: BOOLEAN, start: Address, end: Address]
      BY DEF TypeOK
    <3> HIDE DEF IInv
    <3> QED BY <3>1, <3>3, <3>4
  <2>7. /\ netif' = n /\ up' = TRUE /\ sent' = Nothing /\ granted' = {}
        /\ misdirected' = FALSE /\ staleAck' = FALSE
        /\ staleOffer' = (machine = "OFFER")
        /\ clientMac' = [h \in Hosts |-> NoMac]
        /\ UNCHANGED <<machine, alloc, reqIp, clientAddr, offeredTo>>
    BY <1>1 DEF DhcpsInit
  <2>8. TypeOK'
    BY <1>0, <2>1, <2>3, <2>5, <2>6, <2>7 DEF TypeOK, MacOrNone
  <2> QED BY <2>3, <2>7, <2>8, ResetPreserves
<1>2. CASE DhcpsInitNoPcb
  <2>1. TypeOK'
    BY <1>0, <1>2 DEF DhcpsInitNoPcb, TypeOK, MacOrNone
  <2> QED BY <1>2, <2>1, ResetPreserves DEF DhcpsInitNoPcb
<1>3. CASE DhcpsDeinit
  <2>1. TypeOK'
    BY <1>0, <1>3 DEF DhcpsDeinit, table, book, TypeOK
  <2> QED BY <1>3, <2>1, QuietPreserves DEF DhcpsDeinit, table, book
<1>4. ASSUME NEW r \in IpRanges, DhcpsSetIpRange(r)
      PROVE  IInv'
  <2>1. TypeOK'
    BY <1>0, <1>4, ConstantsAssumption DEF DhcpsSetIpRange, table, book, TypeOK
  <2> QED BY <1>4, <2>1, QuietPreserves DEF DhcpsSetIpRange, table, book
<1>5. ASSUME NEW r \in Pools, DhcpsSetAddrPool(r)
      PROVE  IInv'
  <2>1. TypeOK'
    BY <1>0, <1>5, ConstantsAssumption DEF DhcpsSetAddrPool, table, book, TypeOK
  <2> QED BY <1>5, <2>1, QuietPreserves DEF DhcpsSetAddrPool, table, book
<1>6. CASE DhcpsClearAddrPool
  <2>1. TypeOK'
    BY <1>0, <1>6 DEF DhcpsClearAddrPool, table, book, TypeOK
  <2> QED BY <1>6, <2>1, QuietPreserves DEF DhcpsClearAddrPool, table, book
<1> QED BY <1>1, <1>2, <1>3, <1>4, <1>5, <1>6 DEF Configure

LEMMA PacketPreserves ==
  ASSUME IInv, NEW m \in Macs, NEW opt, RequestedIp(opt) \in Address, Packet(m, opt)
  PROVE  IInv'
<1> USE DEF IInv
<1>0. /\ \A type \in {"OFFER", "ACK", "NAK"}, a \in Address : Reply(type, m, a) \in Messages
      /\ Nothing \in Messages
  BY ConstantsAssumption
     DEF TypeOK, Reply, Nothing, Messages, MacOrNone, Address, ZeroAddr
<1>1. ASSUME SendNak(m, opt)
      PROVE  IInv'
  <2>1. TypeOK'
    BY <1>0, <1>1 DEF SendNak, StateAfterReply, table, config, TypeOK, MacOrNone
  <2> QED BY <1>1, <2>1, QuietPreserves DEF SendNak, StateAfterReply, table, config
<1>2. CASE Discover(m, opt)
  BY <1>2, OfferPreserves DEF Discover
<1>3. CASE RequestOffered(m, opt)
  <2>1. ASSUME alloc[2] # 0, misdirected' = (misdirected \/ offeredTo # m \/ staleOffer),
               staleAck' = (staleAck \/ staleOffer), SendAck(m, alloc)
        PROVE  IInv'
    <3>1. ~misdirected' => /\ ~misdirected
                           /\ clientMac[alloc[2]] = m \/ alloc[2] \notin latched
      BY <1>3, <2>1 DEF RequestOffered, OfferIsFreeOrOwn
    <3>2. ~staleAck' => /\ ~staleAck
                        /\ clientMac[alloc[2]] # NoMac \/ alloc[2] \notin latched
      BY <1>3, <2>1 DEF RequestOffered, OfferIsFreeOrOwn, OfferHasTaker
    <3>3. misdirected' \in BOOLEAN /\ staleAck' \in BOOLEAN /\ alloc \in Address /\ up
      BY <1>3, <2>1 DEF TypeOK, RequestOffered
    <3> QED BY <2>1, <3>1, <3>2, <3>3, AckPreserves
  <2> QED BY <1>1, <1>3, <2>1 DEF RequestOffered
<1>4. CASE RequestIdle(m, opt)
  <2>1. PICK known \in CheckClientRequestIp(m) :
          \/ /\ known # 0 /\ UNCHANGED <<misdirected, staleAck>>
             /\ SendAck(m, <<netif.net, known>>)
          \/ SendNak(m, opt)
    BY <1>4 DEF RequestIdle
  <2>2. ASSUME known # 0, UNCHANGED <<misdirected, staleAck>>,
               SendAck(m, <<netif.net, known>>)
        PROVE  IInv'
    <3>1. known \in Hosts /\ clientMac[known] = m /\ m # NoMac
      BY <2>2, LookupFindsOwn, ConstantsAssumption
    <3>2. /\ <<netif.net, known>> \in Address /\ up
          /\ misdirected' \in BOOLEAN /\ staleAck' \in BOOLEAN
      BY <1>4, <2>2, <3>1 DEF TypeOK, Address, RequestIdle
    <3> QED BY <2>2, <3>1, <3>2, AckPreserves
  <2> QED BY <1>1, <2>1, <2>2
<1>5. CASE DeclineOrRelease(m, opt)
  <2>1. TypeOK'
    BY <1>0, <1>5 DEF DeclineOrRelease, table, config, TypeOK, MacOrNone
  <2> QED BY <1>5, <2>1, QuietPreserves DEF DeclineOrRelease, table, config
<1>6. CASE OtherMessage(m, opt)
  <2>1. CASE machine = "OFFER" /\ SendOffer(m)
    BY <1>6, <2>1, OfferPreserves DEF OtherMessage
  <2>2. CASE machine = "IDLE" /\ sent' = Nothing /\ UNCHANGED <<alloc, offeredTo, staleOffer>>
    <3>1. TypeOK'
      BY <1>0, <1>6, <2>2 DEF OtherMessage, table, config, TypeOK, MacOrNone
    <3> QED BY <1>6, <2>2, <3>1, QuietPreserves DEF OtherMessage, table, config
  <2> QED BY <1>6, <2>1, <2>2 DEF OtherMessage
<1> QED BY <1>2, <1>3, <1>4, <1>5, <1>6 DEF Packet

LEMMA NextPreserves == IInv /\ [Next]_vars => IInv'
<1> SUFFICES ASSUME IInv, [Next]_vars PROVE IInv'
  OBVIOUS
<1>1. CASE Configure
  BY <1>1, ConfigurePreserves
<1>2. ASSUME NEW m \in Macs, NotDhcp(m)
      PROVE  IInv'
  <2>1. TypeOK'
    BY <1>2, ConstantsAssumption
       DEF NotDhcp, IInv, TypeOK, table, config, book, MacOrNone, Nothing, Messages,
           Address, ZeroAddr
  <2> QED BY <1>2, <2>1, QuietPreserves DEF NotDhcp, table, config, book
<1>3. ASSUME NEW m \in Macs, NEW opt \in Options, Packet(m, opt)
      PROVE  IInv'
  <2>1. RequestedIp(opt) \in Address
    BY ConstantsAssumption DEF IInv, TypeOK, RequestedIp, Options
  <2> QED BY <1>3, <2>1, PacketPreserves
<1>4. CASE UNCHANGED vars
  <2>1. TypeOK'
    BY <1>4 DEF IInv, TypeOK, vars, table, config, book
  <2> QED BY <1>4, <2>1, QuietPreserves DEF vars, table, config, book
<1> QED BY <1>1, <1>2, <1>3, <1>4 DEF Next

-----------------------------------------------------------------------------
(* The inductive invariant holds in every reachable state, for every set   *)
(* of clients, hosts, interfaces, ranges and requested addresses.          *)
THEOREM Invariance == Spec => []IInv
BY InitEstablishes, NextPreserves, PTL DEF Spec

(* The server's variables keep their types, and its machine rests in IDLE  *)
(* or OFFER between packets.                                               *)
THEOREM TypeCorrect == Spec => []TypeOK
<1>1. IInv => TypeOK
  BY DEF IInv
<1> QED BY Invariance, <1>1, PTL

(* An ACKed address stays latched until the next dhcps_init (fifth word    *)
(* excepted).                                                              *)
THEOREM GrantsStayLatched == Spec => []GrantedIsLatched
<1>1. IInv => GrantedIsLatched
  BY DEF IInv
<1> QED BY Invariance, <1>1, PTL

(* The table names nobody for an address who was not ACKed it.             *)
THEOREM TableNamesGrantees == Spec => []RecordedWasGranted
<1>1. IInv => RecordedWasGranted
  BY DEF IInv
<1> QED BY Invariance, <1>1, PTL

(* A pending offer is of a free address or of its client's own.            *)
THEOREM OffersAreFreeOrOwn == Spec => []OfferIsFreeOrOwn
<1>1. IInv => OfferIsFreeOrOwn
  BY DEF IInv
<1> QED BY Invariance, <1>1, PTL

(* Leases are unique as long as no ACK was misdirected.                    *)
THEOREM LeasesAreUnique == Spec => []SharedOnlyByMisdirectedAck
<1>1. IInv => SharedOnlyByMisdirectedAck
  BY DEF IInv
<1> QED BY Invariance, <1>1, PTL

(* The server's own address, its gateway's and host 0 are never granted,   *)
(* to whomever the pending offer is ACKed, while no offer left over from   *)
(* before the last dhcps_init has been.                                    *)
THEOREM OwnAddressIsKept == Spec => []NeverGrantsOwnAddress
<1>1. IInv => NeverGrantsOwnAddress
  BY DEF IInv
<1> QED BY Invariance, <1>1, PTL

(* A REQUEST to an idle server grants nothing that was not granted before. *)
THEOREM IdleServerOnlyRenews == Spec => IdleAckOnlyRenews
<1>1. ASSUME IInv, [Next]_vars
      PROVE  [machine = "IDLE" /\ sent'.type = "ACK" => granted' = granted]_vars
  <2> SUFFICES ASSUME Next, machine = "IDLE", sent'.type = "ACK"
               PROVE  granted' = granted
    BY <1>1
  <2> USE DEF Nothing, Reply
  <2>1. CASE Configure
    BY <2>1 DEF Configure, DhcpsInit, DhcpsInitNoPcb, DhcpsDeinit, DhcpsSetIpRange,
                DhcpsSetAddrPool, DhcpsClearAddrPool
  <2>2. ASSUME NEW m \in Macs, NotDhcp(m)
        PROVE  FALSE
    BY <2>2 DEF NotDhcp
  <2>3. ASSUME NEW m \in Macs, NEW opt \in Options, Packet(m, opt), ~RequestIdle(m, opt)
        PROVE  FALSE
    BY <2>3 DEF Packet, Discover, SendOffer, RequestOffered, DeclineOrRelease, OtherMessage
  <2>4. ASSUME NEW m \in Macs, NEW opt \in Options, RequestIdle(m, opt)
        PROVE  granted' = granted
    <3>1. PICK known \in CheckClientRequestIp(m) :
            known # 0 /\ SendAck(m, <<netif.net, known>>)
      BY <2>4 DEF RequestIdle, SendNak
    <3>2. known \in Hosts /\ clientMac[known] = m /\ m # NoMac
      BY <3>1, LookupFindsOwn, ConstantsAssumption
    <3>3. <<m, known>> \in granted
      BY <1>1, <3>2 DEF IInv, RecordedWasGranted
    <3> QED BY <3>1, <3>3 DEF SendAck
  <2> QED BY <2>1, <2>2, <2>3, <2>4 DEF Next
<1> QED BY <1>1, Invariance, PTL DEF Spec, IdleAckOnlyRenews

(* A client whose lease the lookup is sure to find is offered an address   *)
(* it was granted, whoever else is recorded where the lookup may misread   *)
(* the latch.                                                              *)
THEOREM KnownClientIsKept == Spec => KnownClientKeepsAddress
<1>1. ASSUME IInv, NEW m \in Macs, NEW n \in Macs, SendOffer(n),
             sent'.to = m, SureHits(m) # {}
      PROVE  <<m, sent'.yiaddr[2]>> \in granted
  <2>1. PICK known \in CheckClientRequestIp(n) :
          /\ alloc' = <<netif.net, IF known # 0 THEN known ELSE SearchNextIp>>
          /\ sent' = Reply("OFFER", n, alloc')
    BY <1>1 DEF SendOffer
  <2>2. n = m /\ m # NoMac
    BY <1>1, <2>1, ConstantsAssumption DEF Reply
  <2>3. PICK hit \in SUBSET MaybeHits(m) : known = First(SureHits(m) \union hit)
    BY <2>1, <2>2 DEF CheckClientRequestIp
  <2>4. known \in SureHits(m) \union MaybeHits(m)
    <3>1. SureHits(m) \union hit \in SUBSET Hosts /\ SureHits(m) \union hit # {}
      BY <1>1, <2>3 DEF SureHits, MaybeHits, RecordedAt
    <3> QED BY <2>3, <3>1, FirstIsMember
  <2>5. known \in Hosts /\ clientMac[known] = m
    BY <2>4 DEF SureHits, MaybeHits, RecordedAt
  <2>6. <<m, known>> \in granted
    BY <1>1, <2>2, <2>5 DEF IInv, RecordedWasGranted
  <2>7. known # 0
    BY <1>1, <2>6 DEF IInv, GrantedIsLatched, ZeroNotLatched, Range5
  <2>8. sent'.yiaddr[2] = known
    BY <2>1, <2>7 DEF Reply
  <2> QED BY <2>6, <2>8
<1>2. ASSUME IInv, [Next]_vars
      PROVE  [\A m \in Macs :
                sent'.type = "OFFER" /\ sent'.to = m /\ SureHits(m) # {} =>
                  <<m, sent'.yiaddr[2]>> \in granted]_vars
  <2> SUFFICES ASSUME Next, NEW m \in Macs,
                      sent'.type = "OFFER", sent'.to = m, SureHits(m) # {}
               PROVE  <<m, sent'.yiaddr[2]>> \in granted
    BY <1>2
  <2>1. Nothing.type # "OFFER" /\ \A n, a : Reply("ACK", n, a).type # "OFFER"
                               /\ \A k, b : Reply("NAK", k, b).type # "OFFER"
    BY DEF Nothing, Reply
  <2>2. ~Configure
    BY <2>1 DEF Configure, DhcpsInit, DhcpsInitNoPcb, DhcpsDeinit, DhcpsSetIpRange,
                DhcpsSetAddrPool, DhcpsClearAddrPool
  <2>3. PICK n \in Macs : NotDhcp(n) \/ \E opt \in Options : Packet(n, opt)
    BY <2>2 DEF Next
  <2>4. ASSUME NEW opt \in Options, Packet(n, opt)
        PROVE  SendOffer(n)
    BY <2>1, <2>4 DEF Packet, Discover, RequestOffered, RequestIdle, SendAck, SendNak,
                      DeclineOrRelease, OtherMessage
  <2>5. ~NotDhcp(n)
    BY <2>1 DEF NotDhcp
  <2> QED BY <1>1, <1>2, <2>3, <2>4, <2>5
<1> QED BY <1>2, Invariance, PTL DEF Spec, KnownClientKeepsAddress

-----------------------------------------------------------------------------
(* Refinement: every step of the server is a step of the address book.     *)

LEMMA MarkIsNote ==
  ASSUME NEW d \in Hosts, d # 0, latched' \in MarkIpInTable(d, latched)
  PROVE  Book!Note(d)
BY DEF MarkIpInTable, Book!Note

LEMMA ConfigureIsBookStep ==
  ASSUME IInv, IInv', Configure
  PROVE  Book!Reset \/ UNCHANGED Book!bvars
<1> USE DEF Book!Reset, Book!bvars
<1>1. latched' \in SUBSET Hosts
  BY DEF IInv, TypeOK
<1>2. ASSUME NEW n \in Netifs, DhcpsInit(n)
      PROVE  Book!Reset
  BY <1>1, <1>2 DEF DhcpsInit
<1>3. CASE DhcpsInitNoPcb
  BY <1>1, <1>3 DEF DhcpsInitNoPcb
<1>4. CASE DhcpsDeinit
  BY <1>4 DEF DhcpsDeinit, table
<1>5. ASSUME NEW r, DhcpsSetIpRange(r) \/ DhcpsSetAddrPool(r)
      PROVE  UNCHANGED Book!bvars
  BY <1>5 DEF DhcpsSetIpRange, DhcpsSetAddrPool, table
<1>6. CASE DhcpsClearAddrPool
  BY <1>6 DEF DhcpsClearAddrPool, table
<1> QED BY <1>2, <1>3, <1>4, <1>5, <1>6 DEF Configure

LEMMA PacketIsBookStep ==
  ASSUME IInv, NEW m \in Macs, NEW opt \in Options, Packet(m, opt)
  PROVE  Book!BNext \/ UNCHANGED Book!bvars
<1>1. ASSUME SendOffer(m), machine' = "OFFER", UNCHANGED table
      PROVE  Book!Offer(m)
  <2>1. PICK known \in CheckClientRequestIp(m) :
          alloc' = <<netif.net, IF known # 0 THEN known ELSE SearchNextIp>>
    BY <1>1 DEF SendOffer
  <2> DEFINE h == IF known # 0 THEN known ELSE SearchNextIp
  <2>2. h \in Hosts /\ (h \notin latched \/ clientMac[h] = m)
    BY LookupFindsOwn, SearchFindsFree DEF IInv, ZeroNotLatched
  <2>3. alloc'[2] = h
    BY <2>1
  <2> QED BY <1>1, <2>2, <2>3 DEF Book!Offer, table
<1>2. ASSUME SendNak(m, opt)
      PROVE  Book!Withdraw
  BY <1>2 DEF SendNak, StateAfterReply, table, Book!Withdraw
<1>3. CASE Discover(m, opt)
  BY <1>1, <1>3 DEF Discover, Book!BNext
<1>4. CASE RequestOffered(m, opt)
  <2>1. ASSUME alloc[2] # 0, SendAck(m, alloc)
        PROVE  Book!Accept(m)
    <3>1. alloc[2] \in Hosts
      BY DEF IInv, TypeOK, Address
    <3>2. Book!Note(alloc[2])
      BY <2>1, <3>1, MarkIsNote DEF SendAck
    <3>3. machine = "OFFER" /\ machine' = "IDLE"
          /\ clientMac' = [clientMac EXCEPT ![alloc[2]] = m]
      BY <1>4, <2>1 DEF RequestOffered, SendAck, SaveClientAddr, StateAfterReply
    <3> QED BY <2>1, <3>2, <3>3 DEF Book!Accept, Book!Note
  <2> QED BY <1>2, <1>4, <2>1 DEF RequestOffered, Book!BNext
<1>5. CASE RequestIdle(m, opt)
  <2>1. ASSUME NEW known \in CheckClientRequestIp(m), known # 0, SendAck(m, <<netif.net, known>>)
        PROVE  Book!Confirm(m)
    <3>1. known \in Hosts /\ clientMac[known] = m
      BY <2>1, LookupFindsOwn
    <3>2. Book!Note(known)
      BY <2>1, <3>1, MarkIsNote DEF SendAck
    <3>3. clientMac' = clientMac
      BY <2>1, <3>1 DEF SendAck, SaveClientAddr, IInv, TypeOK
    <3> QED BY <1>5, <2>1, <3>1, <3>2, <3>3 DEF RequestIdle, SendAck, StateAfterReply, Book!Confirm
  <2> QED BY <1>2, <1>5, <2>1 DEF RequestIdle, Book!BNext
<1>6. CASE DeclineOrRelease(m, opt)
  BY <1>6 DEF DeclineOrRelease, table, Book!Withdraw, Book!BNext
<1>7. CASE OtherMessage(m, opt)
  <2>1. CASE machine = "OFFER" /\ SendOffer(m)
    BY <1>1, <1>7, <2>1 DEF OtherMessage, Book!BNext
  <2>2. CASE machine = "IDLE"
    BY <1>7, <2>2 DEF OtherMessage, table, Book!bvars
  <2> QED BY <1>7, <2>1, <2>2 DEF OtherMessage
<1> QED BY <1>3, <1>4, <1>5, <1>6, <1>7 DEF Packet

(* The server implements the address book.                                 *)
THEOREM ServerImplementsBook == Spec => ImplementsBook
<1>1. Init => Book!BInit
  BY DEF Init, Book!BInit
<1>2. IInv /\ IInv' /\ [Next]_vars => [Book!BNext]_(Book!bvars)
  <2> SUFFICES ASSUME IInv, IInv', [Next]_vars
               PROVE  Book!BNext \/ UNCHANGED Book!bvars
    OBVIOUS
  <2>1. CASE Configure
    BY <2>1, ConfigureIsBookStep DEF Book!BNext
  <2>2. ASSUME NEW m \in Macs, NotDhcp(m)
        PROVE  UNCHANGED Book!bvars
    BY <2>2 DEF NotDhcp, table, Book!bvars
  <2>3. CASE UNCHANGED vars
    BY <2>3 DEF vars, Book!bvars
  <2> QED BY <2>1, <2>2, <2>3, PacketIsBookStep DEF Next
<1> QED BY <1>1, <1>2, Invariance, PTL DEF Spec, ImplementsBook, Book!BSpec

-----------------------------------------------------------------------------
(* The stations.  What makes their leases distinct is an order that no     *)
(* single variable holds: a station asks for an offer (its DISCOVER is the *)
(* last packet it has on its way, and it has no offer in hand) before it   *)
(* is bound, so that no offer is pending for a station that is bound or    *)
(* has an ACK in hand, and an offer of an address that is taken is made to *)
(* the station that has it.  An INFORM breaks it.                          *)

Packets == [type : {"DISCOVER", "REQUEST", "INFORM"}, opt : Address \union {NoOption}]

StationTypes ==
  /\ phase \in [Macs -> {"init", "selecting", "requesting", "bound"}]
  /\ lease \in [Macs -> Address]
  /\ toServer \in [Macs -> Seq(Packets)]
  /\ toClient \in [Macs -> Messages]
  /\ budget \in [{"lost", "reboots", "renews", "informs"} -> Nat]
  /\ budget.informs <= MaxInforms

(* What a station is bound to, or has an ACK of, it was granted.           *)
AckedWasGranted(m) ==
  /\ phase[m] = "bound" => <<m, lease[m][2]>> \in granted
  /\ toClient[m].type = "ACK" => <<m, toClient[m].yiaddr[2]>> \in granted

AsksOnce(m) ==
  \A i \in DOMAIN toServer[m] :
    /\ toServer[m][i].type # "INFORM"
    /\ toServer[m][i].type = "DISCOVER" =>
         i = Len(toServer[m]) /\ phase[m] = "selecting" /\ toClient[m].type # "OFFER"

AsksBeforeBound(m) ==
  machine = "OFFER" /\ offeredTo = m => phase[m] # "bound" /\ toClient[m].type # "ACK"

Recorded(m, a) == a[2] \in Range5 \/ clientMac[a[2]] = m

IsRecorded(m) ==
  /\ phase[m] = "bound" => Recorded(m, lease[m])
  /\ toClient[m].type = "ACK" => Recorded(m, toClient[m].yiaddr)

StationInv(m) ==
  /\ AckedWasGranted(m)
  /\ budget.informs = MaxInforms => AsksOnce(m) /\ AsksBeforeBound(m) /\ IsRecorded(m)

CInv ==
  /\ IInv /\ up /\ ~staleOffer
  /\ StationTypes
  /\ \A m \in Macs : StationInv(m)

(* Sending appends, and serving or losing a packet removes the first.      *)
LEMMA SentPacket ==
  ASSUME NEW q \in Seq(Packets), NEW p \in Packets
  PROVE  /\ Append(q, p) \in Seq(Packets) /\ Len(Append(q, p)) = Len(q) + 1
         /\ \A i \in DOMAIN Append(q, p) :
              \/ i \in DOMAIN q /\ i <= Len(q) /\ Append(q, p)[i] = q[i]
              \/ i = Len(q) + 1 /\ Append(q, p)[i] = p
  OBVIOUS

LEMMA FirstPacket ==
  ASSUME NEW q \in Seq(Packets), q # <<>>
  PROVE  /\ Head(q) \in Packets /\ Head(q) = q[1] /\ 1 \in DOMAIN q
         /\ Tail(q) \in Seq(Packets) /\ Len(Tail(q)) = Len(q) - 1 /\ Len(q) \in Nat
         /\ \A i \in DOMAIN Tail(q) :
              i \in 1..Len(q) - 1 /\ i + 1 \in DOMAIN q /\ Tail(q)[i] = q[i + 1]
  OBVIOUS

(* A step of one station leaves the others as they are.                    *)
LEMMA OthersAreKept ==
  ASSUME NEW k \in Macs, StationInv(k), UNCHANGED vars,
         phase'[k] = phase[k], lease'[k] = lease[k],
         toServer'[k] = toServer[k], toClient'[k] = toClient[k],
         budget'.informs = MaxInforms => budget.informs = MaxInforms
  PROVE  StationInv(k)'
BY DEF StationInv, AckedWasGranted, AsksOnce, AsksBeforeBound, IsRecorded, Recorded,
       vars, table, config, book

(* A station that changes nothing but what it does and has in hand keeps   *)
(* the order if it comes to no ACK it did not have, and a DISCOVER on its  *)
(* way stays that of a station that waits for an offer.                    *)
LEMMA StationKeeps ==
  ASSUME NEW m \in Macs, CInv, UNCHANGED vars, StationTypes',
         \A k \in Macs \ {m} : /\ phase'[k] = phase[k] /\ lease'[k] = lease[k]
                               /\ toServer'[k] = toServer[k] /\ toClient'[k] = toClient[k],
         budget'.informs = MaxInforms => budget.informs = MaxInforms,
         toClient'[m] \in {toClient[m], Nothing},
         phase'[m] = "bound" =>
           \/ phase[m] = "bound" /\ lease'[m] = lease[m]
           \/ toClient[m].type = "ACK" /\ lease'[m] = toClient[m].yiaddr,
         budget'.informs = MaxInforms /\ AsksOnce(m) => AsksOnce(m)'
  PROVE  CInv'
<1>1. IInv' /\ up' /\ ~staleOffer'
  <2>1. up' = up /\ staleOffer' = staleOffer /\ [Next]_vars
    BY DEF vars, config, book
  <2> QED BY <2>1, NextPreserves DEF CInv
<1>2. \A k \in Macs \ {m} : StationInv(k)'
  BY OthersAreKept DEF CInv
<1>3. /\ machine' = machine /\ offeredTo' = offeredTo /\ clientMac' = clientMac
      /\ granted' = granted
  BY DEF vars, table, book
<1>4. Nothing.type # "ACK"
  BY DEF Nothing
<1>5. AckedWasGranted(m)'
  BY <1>3, <1>4 DEF CInv, StationInv, AckedWasGranted
<1>6. ASSUME budget'.informs = MaxInforms
      PROVE  AsksOnce(m)' /\ AsksBeforeBound(m)' /\ IsRecorded(m)'
  <2>1. AsksOnce(m) /\ AsksBeforeBound(m) /\ IsRecorded(m)
    BY <1>6 DEF CInv, StationInv
  <2>2. AsksBeforeBound(m)'
    BY <1>3, <1>4, <2>1 DEF AsksBeforeBound
  <2>3. IsRecorded(m)'
    BY <1>3, <1>4, <2>1 DEF IsRecorded, Recorded
  <2> QED BY <1>6, <2>1, <2>2, <2>3
<1>7. StationInv(m)'
  BY <1>5, <1>6 DEF StationInv
<1> QED BY <1>1, <1>2, <1>7 DEF CInv

(* What a station or the air does to its own queue and answer.             *)
LEMMA StationPreserves ==
  ASSUME NEW m \in Macs, CInv,
         \/ Station(m) \/ StationRenews(m) \/ StationInforms(m) \/ StationReboots(m)
         \/ LosePacket(m) \/ LoseAnswer(m)
  PROVE  CInv'
<1> USE DEF CInv
<1>0. /\ Nothing \in Messages /\ Nothing.type = "none" /\ ZeroAddr \in Address
      /\ \A p \in Messages : p.yiaddr \in Address
      /\ \A type \in {"DISCOVER", "REQUEST", "INFORM"}, opt \in Address \union {NoOption} :
           /\ Pkt(type, opt) \in Packets
           /\ Pkt(type, opt).type = type
  BY ConstantsAssumption DEF Nothing, Messages, MacOrNone, Address, ZeroAddr, Pkt, Packets
<1>a. /\ phase[m] \in {"init", "selecting", "requesting", "bound"} /\ lease[m] \in Address
      /\ toServer[m] \in Seq(Packets) /\ toClient[m] \in Messages
  BY DEF StationTypes
<1>b. ASSUME NEW kind \in {"lost", "reboots", "renews", "informs"}, Spend(kind)
      PROVE  /\ budget' \in [{"lost", "reboots", "renews", "informs"} -> Nat]
             /\ budget'.informs <= MaxInforms
             /\ budget'.informs = MaxInforms => budget.informs = MaxInforms /\ kind # "informs"
  BY <1>b, BoundsAssumption DEF Spend, StationTypes
<1>1. CASE StationDiscover(m)
  <2> DEFINE p == Pkt("DISCOVER", IF lease[m] = ZeroAddr THEN NoOption ELSE lease[m])
  <2>1. p \in Packets /\ p.type = "DISCOVER"
    BY <1>0, <1>a
  <2> HIDE DEF p
  <2>2. /\ phase[m] = "init" /\ phase' = [phase EXCEPT ![m] = "selecting"]
        /\ toServer' = [toServer EXCEPT ![m] = Append(@, p)]
        /\ toClient' = [toClient EXCEPT ![m] = Nothing]
        /\ UNCHANGED <<vars, lease, budget>>
    BY <1>1 DEF StationDiscover, Send, p
  <2>3. /\ toServer'[m] = Append(toServer[m], p) /\ phase'[m] = "selecting"
        /\ toClient'[m] = Nothing
    BY <2>2 DEF StationTypes
  <2>4. StationTypes'
    BY <1>0, <1>a, <2>1, <2>2, SentPacket DEF StationTypes
  <2>5. AsksOnce(m) => AsksOnce(m)'
    <3> SUFFICES ASSUME AsksOnce(m), NEW i \in DOMAIN toServer'[m]
                 PROVE  /\ toServer'[m][i].type # "INFORM"
                        /\ toServer'[m][i].type = "DISCOVER" => i = Len(toServer'[m])
      BY <1>0, <2>3 DEF AsksOnce
    <3>1. CASE /\ i \in DOMAIN toServer[m] /\ i <= Len(toServer[m])
               /\ toServer'[m][i] = toServer[m][i]
      BY <2>2, <3>1 DEF AsksOnce
    <3>2. CASE i = Len(toServer[m]) + 1 /\ toServer'[m][i] = p
      BY <1>a, <2>1, <2>3, <3>2, SentPacket
    <3> QED BY <1>a, <2>1, <2>3, <3>1, <3>2, SentPacket
  <2> QED BY <2>2, <2>3, <2>4, <2>5, StationKeeps DEF StationTypes
<1>2. CASE StationRequest(m)
  <2> DEFINE p == Pkt("REQUEST", toClient[m].yiaddr)
  <2>1. p \in Packets /\ p.type = "REQUEST"
    BY <1>0, <1>a
  <2> HIDE DEF p
  <2>2. /\ phase[m] = "selecting" /\ toClient[m].type = "OFFER"
        /\ phase' = [phase EXCEPT ![m] = "requesting"]
        /\ lease' = [lease EXCEPT ![m] = toClient[m].yiaddr]
        /\ toServer' = [toServer EXCEPT ![m] = Append(@, p)]
        /\ toClient' = [toClient EXCEPT ![m] = Nothing]
        /\ UNCHANGED <<vars, budget>>
    BY <1>2 DEF StationRequest, Send, p
  <2>3. /\ toServer'[m] = Append(toServer[m], p) /\ phase'[m] = "requesting"
        /\ toClient'[m] = Nothing
    BY <2>2 DEF StationTypes
  <2>4. StationTypes'
    BY <1>0, <1>a, <2>1, <2>2, SentPacket DEF StationTypes
  <2>5. AsksOnce(m) => AsksOnce(m)'
    <3> SUFFICES ASSUME AsksOnce(m), NEW i \in DOMAIN toServer'[m]
                 PROVE  toServer'[m][i].type \notin {"INFORM", "DISCOVER"}
      BY DEF AsksOnce
    <3> QED BY <1>a, <2>1, <2>2, <2>3, SentPacket DEF AsksOnce
  <2> QED BY <2>2, <2>3, <2>4, <2>5, StationKeeps DEF StationTypes
<1>3. ASSUME NEW ph \in {"init", "requesting", "bound"}, NEW a \in Address,
             phase[m] # "selecting" \/ toServer[m] = <<>>,
             ph = "bound" =>
               \/ phase[m] = "bound" /\ a = lease[m]
               \/ toClient[m].type = "ACK" /\ a = toClient[m].yiaddr,
             phase' = [phase EXCEPT ![m] = ph],
             lease' = [lease EXCEPT ![m] = a],
             toClient' \in {toClient, [toClient EXCEPT ![m] = Nothing]},
             UNCHANGED <<vars, toServer>>,
             budget' = budget \/ Spend("reboots")
      PROVE  CInv'
  <2>1. /\ phase'[m] = ph /\ lease'[m] = a /\ toServer'[m] = toServer[m]
        /\ toClient'[m] \in {toClient[m], Nothing}
    BY <1>3 DEF StationTypes
  <2>2. StationTypes' /\ (budget'.informs = MaxInforms => budget.informs = MaxInforms)
    BY <1>0, <1>3, <1>b DEF StationTypes
  <2>3. AsksOnce(m) => AsksOnce(m)'
    BY <1>3, <2>1 DEF AsksOnce
  <2> QED BY <1>3, <2>1, <2>2, <2>3, StationKeeps DEF StationTypes
<1>4. CASE StationAcked(m)
  <2>1. toClient[m].yiaddr \in Address
    BY <1>0, <1>a
  <2> QED BY <1>3, <1>4, <2>1 DEF StationAcked
<1>5. CASE StationRefused(m)
  BY <1>0, <1>3, <1>5 DEF StationRefused
<1>6. CASE StationTimeout(m)
  <2>1. lease' = [lease EXCEPT ![m] = lease[m]]
    BY <1>6 DEF StationTimeout, StationTypes
  <2> QED BY <1>3, <1>6, <1>a, <2>1 DEF StationTimeout
<1>7. CASE StationReboots(m)
  <2>1. lease' = [lease EXCEPT ![m] = lease[m]]
    BY <1>7 DEF StationReboots, StationTypes
  <2> QED BY <1>3, <1>7, <1>a, <2>1 DEF StationReboots
<1>8. ASSUME UNCHANGED <<vars, phase, lease>>, StationTypes',
             \/ toServer' = toServer
             \/ toServer' = [toServer EXCEPT ![m] = Tail(@)] /\ toServer[m] # <<>>,
             toClient' \in {toClient, [toClient EXCEPT ![m] = Nothing]},
             budget'.informs = MaxInforms => budget.informs = MaxInforms
      PROVE  CInv'
  <2>1. toClient'[m] \in {toClient[m], Nothing}
    BY <1>8 DEF StationTypes
  <2>2. AsksOnce(m) => AsksOnce(m)'
    <3>1. CASE toServer' = toServer
      BY <1>0, <1>8, <2>1, <3>1 DEF AsksOnce
    <3>2. CASE toServer' = [toServer EXCEPT ![m] = Tail(@)] /\ toServer[m] # <<>>
      <4>1. toServer'[m] = Tail(toServer[m])
        BY <3>2 DEF StationTypes
      <4> QED BY <1>0, <1>8, <1>a, <2>1, <3>2, <4>1, FirstPacket DEF AsksOnce
    <3> QED BY <1>8, <3>1, <3>2
  <2> QED BY <1>8, <2>1, <2>2, StationKeeps DEF StationTypes
<1>9. CASE StationIgnores(m)
  <2>1. StationTypes'
    BY <1>0, <1>9 DEF StationIgnores, StationTypes
  <2> QED BY <1>8, <1>9, <2>1 DEF StationIgnores
<1>10. CASE LosePacket(m)
  <2>1. StationTypes' /\ (budget'.informs = MaxInforms => budget.informs = MaxInforms)
    BY <1>10, <1>a, <1>b, FirstPacket DEF LosePacket, StationTypes
  <2> QED BY <1>8, <1>10, <2>1 DEF LosePacket
<1>11. CASE LoseAnswer(m)
  <2>1. StationTypes' /\ (budget'.informs = MaxInforms => budget.informs = MaxInforms)
    BY <1>0, <1>11, <1>b DEF LoseAnswer, StationTypes
  <2> QED BY <1>8, <1>11, <2>1 DEF LoseAnswer
<1>12. ASSUME NEW type \in {"REQUEST", "INFORM"}, NEW kind \in {"renews", "informs"},
              type = "INFORM" => kind = "informs",
              phase[m] = "bound", Spend(kind), Send(m, Pkt(type, NoOption)),
              UNCHANGED <<vars, phase, lease, toClient>>
       PROVE  CInv'
  <2> DEFINE p == Pkt(type, NoOption)
  <2>1. p \in Packets /\ p.type = type
    BY <1>0
  <2>2. toServer' = [toServer EXCEPT ![m] = Append(@, p)]
    BY <1>12 DEF Send
  <2> HIDE DEF p
  <2>3. toServer'[m] = Append(toServer[m], p)
    BY <2>2 DEF StationTypes
  <2>4. /\ StationTypes'
        /\ budget'.informs = MaxInforms => budget.informs = MaxInforms /\ type = "REQUEST"
    BY <1>12, <1>a, <1>b, <2>1, <2>2, SentPacket DEF StationTypes
  <2>5. budget'.informs = MaxInforms /\ AsksOnce(m) => AsksOnce(m)'
    <3> SUFFICES ASSUME budget'.informs = MaxInforms, AsksOnce(m),
                        NEW i \in DOMAIN toServer'[m]
                 PROVE  toServer'[m][i].type \notin {"INFORM", "DISCOVER"}
      BY DEF AsksOnce
    <3> QED BY <1>12, <1>a, <2>1, <2>3, <2>4, SentPacket DEF AsksOnce
  <2> QED BY <1>12, <2>2, <2>4, <2>5, StationKeeps DEF StationTypes
<1>13. CASE StationRenews(m)
  BY <1>12, <1>13 DEF StationRenews
<1>14. CASE StationInforms(m)
  BY <1>12, <1>14 DEF StationInforms
<1> QED BY <1>1, <1>2, <1>4, <1>5, <1>6, <1>7, <1>9, <1>10, <1>11, <1>13, <1>14 DEF Station

(* The server keeps what the others are bound to: an ACK overwrites the    *)
(* record of an address only if it was the pending offer, and an offer of  *)
(* an address that is taken is its holder's, who is not bound then.        *)
LEMMA AckKeepsRecords ==
  ASSUME CInv, NEW m \in Macs, NEW a \in Address, a[2] # 0, SendAck(m, a),
         (machine = "OFFER" /\ a = alloc) \/ clientMac[a[2]] = m,
         NEW k \in Macs \ {m}, AsksBeforeBound(k), NEW b \in Address, Recorded(k, b),
         phase[k] = "bound" \/ toClient[k].type = "ACK"
  PROVE  b[2] \in Range5 \/ clientMac'[b[2]] = k
<1>1. a[2] \in Hosts /\ b[2] \in Hosts /\ k # NoMac
  BY ConstantsAssumption DEF Address
<1>2. clientMac' = [clientMac EXCEPT ![a[2]] = m] /\ clientMac \in [Hosts -> MacOrNone]
  BY DEF SendAck, SaveClientAddr, CInv, IInv, TypeOK
<1>3. CASE b[2] # a[2] \/ b[2] \in Range5
  BY <1>1, <1>2, <1>3 DEF Recorded, Range5
<1>4. CASE b[2] = a[2] /\ b[2] \notin Range5
  <2>1. clientMac[a[2]] = k
    BY <1>4 DEF Recorded
  <2>2. <<k, a[2]>> \in granted
    BY <1>1, <2>1 DEF CInv, IInv, RecordedWasGranted
  <2>3. a[2] \in latched
    BY <1>4, <2>2 DEF CInv, IInv, GrantedIsLatched
  <2>4. machine = "OFFER" /\ a = alloc
    BY <2>1
  <2>5. clientMac[alloc[2]] = offeredTo
    BY <2>3, <2>4 DEF CInv, IInv, OfferIsFreeOrOwn
  <2> QED BY <2>1, <2>4, <2>5 DEF AsksBeforeBound
<1> QED BY <1>3, <1>4

LEMMA ServePreserves ==
  ASSUME NEW m \in Macs, CInv, Serve(m)
  PROVE  CInv'
<1> DEFINE p == Head(toServer[m])
           No == budget.informs = MaxInforms
<1>1. /\ p \in Packets /\ p = toServer[m][1] /\ toServer[m] \in Seq(Packets)
      /\ 1 \in DOMAIN toServer[m]
      /\ toServer[m] # <<>> /\ toServer' = [toServer EXCEPT ![m] = Tail(@)]
      /\ toClient' = [toClient EXCEPT ![m] = IF sent'.type = "none" THEN @ ELSE sent']
      /\ UNCHANGED <<phase, lease, budget>>
  BY FirstPacket DEF Serve, CInv, StationTypes
<1>2. \/ p.type = "DISCOVER" /\ Discover(m, p.opt)
      \/ p.type = "REQUEST" /\ RequestOffered(m, p.opt)
      \/ p.type = "REQUEST" /\ RequestIdle(m, p.opt)
      \/ p.type = "INFORM" /\ OtherMessage(m, p.opt)
  BY DEF Serve
<1>3. Packet(m, p.opt) /\ RequestedIp(p.opt) \in Address
  <2>1. p.opt \in Address \union {NoOption}
    BY <1>1 DEF Packets
  <2> QED BY <1>2, <2>1 DEF Packet, RequestedIp, CInv, IInv, TypeOK
<1>4. IInv'
  BY <1>3, PacketPreserves DEF CInv
<1>5. /\ toServer'[m] = Tail(toServer[m])
      /\ toClient'[m] = IF sent'.type = "none" THEN toClient[m] ELSE sent'
      /\ \A k \in Macs \ {m} : toServer'[k] = toServer[k] /\ toClient'[k] = toClient[k]
  BY <1>1 DEF CInv, StationTypes
<1>6. StationTypes'
  <2>1. sent' \in Messages
    BY <1>4 DEF IInv, TypeOK
  <2> QED BY <1>1, <1>5, <2>1, FirstPacket DEF CInv, StationTypes
<1>7. No => p.type # "INFORM"
  BY <1>1 DEF CInv, StationInv, AsksOnce
<1>8. \A k \in Macs \ {m} : No => AsksOnce(k)'
  BY <1>1, <1>5 DEF CInv, StationInv, AsksOnce
<1>9. No => \A i \in DOMAIN toServer'[m] :
              /\ toServer'[m][i].type # "INFORM"
              /\ toServer'[m][i].type = "DISCOVER" =>
                   /\ i = Len(toServer'[m]) /\ phase'[m] = "selecting"
                   /\ toClient[m].type # "OFFER" /\ p.type # "DISCOVER"
  <2> SUFFICES ASSUME No, NEW i \in DOMAIN toServer'[m]
               PROVE  /\ toServer'[m][i].type # "INFORM"
                      /\ toServer'[m][i].type = "DISCOVER" =>
                           /\ i = Len(toServer'[m]) /\ phase[m] = "selecting"
                           /\ toClient[m].type # "OFFER" /\ p.type # "DISCOVER"
    BY <1>1
  <2>1. AsksOnce(m)
    BY DEF CInv, StationInv
  <2>2. /\ i \in 1..Len(toServer[m]) - 1 /\ i + 1 \in DOMAIN toServer[m]
        /\ toServer'[m][i] = toServer[m][i + 1]
        /\ Len(toServer'[m]) = Len(toServer[m]) - 1 /\ Len(toServer[m]) \in Nat
    <3>1. /\ Len(Tail(toServer[m])) = Len(toServer[m]) - 1 /\ Len(toServer[m]) \in Nat
          /\ \A j \in DOMAIN Tail(toServer[m]) :
               /\ j \in 1..Len(toServer[m]) - 1 /\ j + 1 \in DOMAIN toServer[m]
               /\ Tail(toServer[m])[j] = toServer[m][j + 1]
      BY Zenon, <1>1, FirstPacket
    <3> QED BY Zenon, <1>5, <3>1
  <2> HIDE DEF p
  <2> QED BY <1>1, <2>1, <2>2 DEF AsksOnce
<1>10. \A k \in Macs \ {m} : AckedWasGranted(k) /\ (No => AsksBeforeBound(k) /\ IsRecorded(k))
  BY DEF CInv, StationInv
<1> HIDE DEF p
(* An offer.                                                               *)
<1>11. ASSUME machine' = "OFFER", offeredTo' = m, ~staleOffer', up' = up,
              sent' = Reply("OFFER", m, alloc'), UNCHANGED <<clientMac, granted>>,
              p.type \in {"DISCOVER", "INFORM"}
       PROVE  CInv'
  <2>1. toClient'[m].type = "OFFER"
    BY <1>5, <1>11 DEF Reply
  <2>3. ASSUME NEW k \in Macs \ {m}
        PROVE  StationInv(k)'
    BY <1>1, <1>5, <1>8, <1>10, <1>11
       DEF StationInv, AckedWasGranted, AsksBeforeBound, IsRecorded, Recorded
  <2>4. AckedWasGranted(m)'
    BY <1>1, <1>11, <2>1 DEF CInv, StationInv, AckedWasGranted
  <2>5. ASSUME No
        PROVE  AsksOnce(m)' /\ AsksBeforeBound(m)' /\ IsRecorded(m)'
    <3>1. p.type = "DISCOVER"
      BY <1>7, <1>11, <2>5
    <3>2. phase[m] = "selecting"
      BY <1>1, <2>5, <3>1 DEF CInv, StationInv, AsksOnce
    <3> QED BY <1>1, <1>9, <2>1, <2>5, <3>1, <3>2 DEF AsksOnce, AsksBeforeBound, IsRecorded
  <2>6. StationInv(m)'
    BY <1>1, <2>4, <2>5 DEF StationInv
  <2> QED BY <1>4, <1>6, <1>11, <2>3, <2>6 DEF CInv
(* An ACK.                                                                 *)
<1>12. ASSUME NEW a \in Address, a[2] # 0, SendAck(m, a),
              (machine = "OFFER" /\ a = alloc) \/ clientMac[a[2]] = m
       PROVE  CInv'
  <2>1. /\ machine' = "IDLE" /\ ~staleOffer' /\ up' = up
        /\ granted' = granted \union {<<m, a[2]>>}
        /\ sent' = Reply("ACK", m, a)
        /\ clientMac' = [clientMac EXCEPT ![a[2]] = m]
    BY <1>12 DEF SendAck, StateAfterReply, SaveClientAddr, config
  <2>2. toClient'[m] = Reply("ACK", m, a) /\ clientMac'[a[2]] = m
    BY <1>5, <2>1 DEF Reply, CInv, IInv, TypeOK, Address
  <2>3. ASSUME NEW k \in Macs \ {m}
        PROVE  StationInv(k)'
    <3>1. AckedWasGranted(k)'
      BY <1>1, <1>5, <1>10, <2>1 DEF AckedWasGranted
    <3>2. No => AsksBeforeBound(k)'
      BY <2>1 DEF AsksBeforeBound
    <3>3. No => IsRecorded(k)'
      <4> SUFFICES ASSUME No PROVE IsRecorded(k)'
        OBVIOUS
      <4>1. AsksBeforeBound(k) /\ IsRecorded(k)
        BY <1>10
      <4>2. lease[k] \in Address /\ toClient[k].yiaddr \in Address
        BY DEF CInv, StationTypes, Messages
      <4>3. phase[k] = "bound" => lease[k][2] \in Range5 \/ clientMac'[lease[k][2]] = k
        BY <1>12, <4>1, <4>2, AckKeepsRecords DEF IsRecorded
      <4>4. toClient[k].type = "ACK" =>
              toClient[k].yiaddr[2] \in Range5 \/ clientMac'[toClient[k].yiaddr[2]] = k
        BY <1>12, <4>1, <4>2, AckKeepsRecords DEF IsRecorded
      <4> QED BY <1>1, <1>5, <4>3, <4>4 DEF IsRecorded, Recorded, Range5
    <3> QED BY <1>1, <1>8, <3>1, <3>2, <3>3 DEF StationInv
  <2>4. AckedWasGranted(m)'
    <3>1. toClient'[m].yiaddr = a
      BY <2>2 DEF Reply
    <3>2. AckedWasGranted(m)
      BY DEF CInv, StationInv
    <3> QED BY <1>1, <2>1, <3>1, <3>2 DEF AckedWasGranted
  <2>5. ASSUME No
        PROVE  AsksOnce(m)' /\ AsksBeforeBound(m)' /\ IsRecorded(m)'
    <3>1. AsksOnce(m)'
      BY <1>1, <1>9, <2>2, <2>5 DEF AsksOnce, Reply
    <3>2. AsksBeforeBound(m)'
      BY <2>1 DEF AsksBeforeBound
    <3>3. phase[m] = "bound" => Recorded(m, lease[m])
      BY <2>5 DEF CInv, StationInv, IsRecorded
    <3>4. phase[m] = "bound" => lease[m][2] \in Range5 \/ clientMac'[lease[m][2]] = m
      BY <2>1, <3>3 DEF Recorded, CInv, IInv, TypeOK, StationTypes, Address
    <3>5. toClient'[m].yiaddr = a
      BY <2>2 DEF Reply
    <3>6. IsRecorded(m)'
      BY <1>1, <2>2, <3>4, <3>5 DEF IsRecorded, Recorded, Range5
    <3> QED BY <3>1, <3>2, <3>6
  <2>6. StationInv(m)'
    BY <1>1, <2>4, <2>5 DEF StationInv
  <2> QED BY <1>4, <1>6, <2>1, <2>3, <2>6 DEF CInv
(* A NAK, or no answer.                                                    *)
<1>13. ASSUME machine' = "IDLE", ~staleOffer', up' = up,
              UNCHANGED <<clientMac, granted>>, sent'.type \in {"NAK", "none"},
              p.type \in {"REQUEST", "INFORM"}
       PROVE  CInv'
  <2>1. toClient'[m].type \notin {"ACK", "OFFER"} \/ toClient'[m] = toClient[m]
    BY <1>5, <1>13
  <2>2. ASSUME NEW k \in Macs \ {m}
        PROVE  StationInv(k)'
    BY <1>1, <1>5, <1>8, <1>10, <1>13, <2>1
       DEF StationInv, AckedWasGranted, AsksBeforeBound, IsRecorded, Recorded
  <2>3. AckedWasGranted(m)'
    <3>1. AckedWasGranted(m)
      BY DEF CInv, StationInv
    <3> QED BY <1>1, <1>13, <2>1, <3>1 DEF AckedWasGranted
  <2>4. ASSUME No
        PROVE  AsksOnce(m)' /\ AsksBeforeBound(m)' /\ IsRecorded(m)'
    <3>1. AsksOnce(m)'
      BY <1>1, <1>9, <2>1, <2>4 DEF AsksOnce
    <3>2. AsksBeforeBound(m)' /\ IsRecorded(m)'
      BY <1>1, <1>13, <2>1, <2>4 DEF CInv, StationInv, AsksBeforeBound, IsRecorded, Recorded
    <3> QED BY <3>1, <3>2
  <2>5. StationInv(m)'
    BY <1>1, <2>3, <2>4 DEF StationInv
  <2> QED BY <1>4, <1>6, <1>13, <2>2, <2>5 DEF CInv
<1>14. CASE p.type = "DISCOVER" /\ Discover(m, p.opt)
  BY <1>11, <1>14 DEF Discover, SendOffer, config, table
<1>15. ASSUME p.type = "REQUEST", SendNak(m, p.opt)
       PROVE  CInv'
  BY <1>13, <1>15 DEF SendNak, StateAfterReply, Reply, config, table
<1>16. CASE p.type = "REQUEST" /\ RequestOffered(m, p.opt)
  <2>1. alloc \in Address
    BY DEF CInv, IInv, TypeOK
  <2> QED BY <1>12, <1>15, <1>16, <2>1 DEF RequestOffered
<1>17. CASE p.type = "REQUEST" /\ RequestIdle(m, p.opt)
  <2>1. PICK known \in CheckClientRequestIp(m) :
          \/ known # 0 /\ SendAck(m, <<netif.net, known>>)
          \/ SendNak(m, p.opt)
    BY <1>17 DEF RequestIdle
  <2>2. CASE known # 0 /\ SendAck(m, <<netif.net, known>>)
    <3>1. known \in Hosts /\ clientMac[known] = m
      BY <2>2, LookupFindsOwn
    <3>2. <<netif.net, known>> \in Address /\ <<netif.net, known>>[2] = known
      BY <3>1 DEF CInv, IInv, TypeOK, Address
    <3> QED BY <1>12, <2>2, <3>1, <3>2
  <2> QED BY <1>15, <1>17, <2>1, <2>2
<1>18. CASE p.type = "INFORM" /\ OtherMessage(m, p.opt)
  <2>1. CASE machine = "OFFER" /\ SendOffer(m)
    BY <1>11, <1>18, <2>1 DEF OtherMessage, SendOffer, config, table
  <2>2. CASE machine = "IDLE" /\ sent' = Nothing /\ UNCHANGED <<alloc, offeredTo, staleOffer>>
    BY <1>13, <1>18, <2>2 DEF OtherMessage, Nothing, config, CInv, table
  <2> QED BY <1>18, <2>1, <2>2 DEF OtherMessage
<1> QED BY <1>2, <1>14, <1>16, <1>17, <1>18

LEMMA ClientsInit == CInit => CInv
<1> SUFFICES ASSUME CInit PROVE CInv
  OBVIOUS
<1>1. /\ Apif \in Netifs
      /\ Apif \in [net: Nets, local: Hosts, gw: Hosts, first: Hosts, last: Hosts]
  BY ConstantsAssumption, BoundsAssumption
<1>2. /\ latched \subseteq Hosts /\ 0 \notin latched
      /\ {Apif.local, Apif.gw} \subseteq latched \union Range5 \union {0}
  BY <1>1, OwnAreLatched DEF CInit
<1>3. ZeroAddr \in Address /\ Nothing \in Messages /\ Nothing.type = "none"
  BY ConstantsAssumption DEF ZeroAddr, Address, Nothing, Messages, MacOrNone
<1>4. /\ owned \in [first: Address, last: Address]
      /\ pool \in [set: BOOLEAN, start: Address, end: Address]
  BY <1>1 DEF CInit, Address
<1>5. TypeOK
  BY <1>1, <1>2, <1>3, <1>4 DEF CInit, TypeOK, MacOrNone
<1>6. IInv
  BY <1>2, <1>5 DEF CInit, IInv, GrantedIsLatched, RecordedWasGranted, OfferIsFreeOrOwn,
     SharedOnlyByMisdirectedAck, NeverGrantsOwnAddress, ZeroNotLatched, OwnIsLatched,
     OfferHasTaker
<1>7. StationTypes
  BY <1>3, BoundsAssumption DEF CInit, StationTypes
<1>8. ASSUME NEW m \in Macs
      PROVE  StationInv(m)
  BY <1>3 DEF CInit, StationInv, AckedWasGranted, AsksOnce, AsksBeforeBound, IsRecorded
<1> QED BY <1>6, <1>7, <1>8 DEF CInit, CInv

LEMMA ClientsStep == CInv /\ [CNext]_allvars => CInv'
<1> SUFFICES ASSUME CInv, [CNext]_allvars PROVE CInv'
  OBVIOUS
<1>1. CASE UNCHANGED allvars
  <2>1. [Next]_vars /\ UNCHANGED <<vars, cvars>>
    BY <1>1 DEF allvars
  <2>2. IInv'
    BY <2>1, NextPreserves DEF CInv
  <2> QED BY <2>1, <2>2
      DEF CInv, vars, cvars, config, table, book, StationTypes, StationInv, AckedWasGranted,
          AsksOnce, AsksBeforeBound, IsRecorded, Recorded
<1> QED BY <1>1, StationPreserves, ServePreserves DEF CNext

(* Every bound station's address is latched, the fifth word excepted, for  *)
(* any number of stations that overlap, renew, inform, reboot and lose     *)
(* packets (mark_ip_in_table, dhcps.c:54-105).                            *)
THEOREM BoundAddressesAreLatched == CSpec => []BoundIsLatched
<1>1. CInv => BoundIsLatched
  BY DEF CInv, StationInv, AckedWasGranted, IInv, GrantedIsLatched, BoundIsLatched
<1> QED BY <1>1, ClientsInit, ClientsStep, PTL DEF CSpec

(* While no bound station sends an INFORM, no two bound stations have one  *)
(* address, though the server's one offer serves them all (dhcps.c:451).   *)
THEOREM BoundAddressesAreDistinct == CSpec => []ConflictNeedsAnInform
<1>1. CInv => ConflictNeedsAnInform
  BY DEF CInv, StationInv, IsRecorded, Recorded, ConflictNeedsAnInform
<1> QED BY <1>1, ClientsInit, ClientsStep, PTL DEF CSpec
=============================================================================
