--------------------------- MODULE ThreadRegistry ---------------------------
(***************************************************************************)
(* What the thread table of lwIP's port (sys_arch.c) promises: it knows a  *)
(* set of threads, in no order, and has room for some more.  A creation    *)
(* that failed takes room that nothing gives back.                         *)
(***************************************************************************)
EXTENDS Integers

CONSTANTS Thread, Room

VARIABLES threads, room

Init == threads = {} /\ room = Room

Register(h) ==
  /\ room # 0
  /\ h \notin threads
  /\ threads' = threads \cup {h}
  /\ room' = room - 1

LoseRoom ==
  /\ room # 0
  /\ room' = room - 1
  /\ UNCHANGED threads

Unregister(h) ==
  /\ h \in threads
  /\ threads' = threads \ {h}
  /\ room' = room + 1

Next == LoseRoom \/ \E h \in Thread : Register(h) \/ Unregister(h)

Spec == Init /\ [][Next]_<<threads, room>>
=============================================================================
