---------------------------- MODULE AddressBook ----------------------------
(***************************************************************************)
(* What the soft-AP's address server promises, without its protocol state: *)
(* a book of taken addresses and of who holds them, and at most one offer  *)
(* outstanding.  An offer is of a free address or of one its client holds; *)
(* an address is taken by accepting the offer, and by nothing else; nobody *)
(* loses an address except to a client that accepts the offer of it.       *)
(***************************************************************************)
CONSTANTS Clients, Nobody, Addrs, NoAddr,
          Leaky  \* addresses that the book may forget to note as taken

VARIABLES taken, holder, offer

bvars == <<taken, holder, offer>>

BInit ==
  /\ taken = {}
  /\ holder = [a \in Addrs |-> Nobody]
  /\ offer = NoAddr

\* A new book, with the server's own addresses taken; an old offer may linger.
Reset ==
  /\ taken' \in SUBSET Addrs
  /\ holder' = [a \in Addrs |-> Nobody]
  /\ UNCHANGED offer

Offer(c) ==
  /\ \/ offer' = NoAddr
     \/ \E a \in Addrs : (a \notin taken \/ holder[a] = c) /\ offer' = a
  /\ UNCHANGED <<taken, holder>>

Note(a) == taken' = taken \union {a} \/ (a \in Leaky /\ UNCHANGED taken)

Accept(c) ==
  /\ offer # NoAddr
  /\ Note(offer)
  /\ holder' = [holder EXCEPT ![offer] = c]
  /\ offer' = NoAddr

Confirm(c) ==
  /\ \E a \in Addrs : holder[a] = c /\ Note(a)
  /\ UNCHANGED <<holder, offer>>

Withdraw == offer' = NoAddr /\ UNCHANGED <<taken, holder>>

BNext ==
  \/ Reset
  \/ Withdraw
  \/ \E c \in Clients : Offer(c) \/ Accept(c) \/ Confirm(c)

BSpec == BInit /\ [][BNext]_bvars
=============================================================================
