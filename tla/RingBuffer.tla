----------------------------- MODULE RingBuffer -----------------------------
(***************************************************************************)
(* The ring of any item type that the macros of code/utils/RingBuffer.h    *)
(* declare.  Two free-running 16-bit counters, reduced modulo the number   *)
(* of slots whenever a slot is addressed.  The caller checks for fullness  *)
(* and emptiness first, as the header's warnings ask.                      *)
(***************************************************************************)
EXTENDS Integers, Sequences

CONSTANTS Items,
          Size,      \* RINGBUFFER_MAXSIZE
          CounterMax \* 2^16 in the code: the counters are uint16_t

ASSUME SizeAssumption ==
  /\ Size \in Nat \ {0}
  /\ CounterMax \in Nat
  /\ Size < CounterMax

Slots == 0..(Size - 1)
Counters == 0..(CounterMax - 1)

VARIABLES
  buffer, read, write,
  out  \* the item that the last macro handed to the caller

vars == <<buffer, read, write, out>>

Inc(c) == (c + 1) % CounterMax
Dec(c) == (c - 1) % CounterMax

Slot_ShortRing(c) == c % (Size - 1)  \* mutated form: a slot less than declared
Slot(c) == c % Size

\* RINGBUFFER_BACK: write - 1 is promoted to 32 bits, and -1 becomes 2^32 - 1.
SlotBefore(c) ==
  LET square == (CounterMax % Size) * (CounterMax % Size) IN
  IF c = 0 THEN (square - 1) % Size ELSE Slot(c - 1)

SizeOf == (write - read) % CounterMax
Full == SizeOf = Size
Empty == SizeOf = 0

-----------------------------------------------------------------------------
\* A declared ring, after RINGBUFFER_CLEAR.
Init ==
  /\ buffer \in [Slots -> Items]
  /\ read = 0 /\ write = 0
  /\ out = <<>>

Clear ==
  /\ read' = 0 /\ write' = 0
  /\ out' = <<>>
  /\ UNCHANGED buffer

\* RINGBUFFER_PUSH; PUSHREF and GETREFNEXT with INCREMENT are the same step, with
\* the caller writing through the reference.
Push(x) ==
  /\ ~Full
  /\ buffer' = [buffer EXCEPT ![Slot(write)] = x]
  /\ write' = Inc(write)
  /\ out' = <<>>
  /\ UNCHANGED read

Unpush ==
  /\ ~Empty
  /\ write' = Dec(write)
  /\ out' = <<buffer[Slot(write')]>>
  /\ UNCHANGED <<buffer, read>>

Pop ==
  /\ ~Empty
  /\ out' = <<buffer[Slot(read)]>>
  /\ read' = Inc(read)
  /\ UNCHANGED <<buffer, write>>

Unpop(x) ==
  /\ ~Full
  /\ read' = Dec(read)
  /\ buffer' = [buffer EXCEPT ![Slot(read')] = x]
  /\ out' = <<>>
  /\ UNCHANGED write

Front ==
  /\ ~Empty
  /\ out' = <<buffer[Slot(read)]>>
  /\ UNCHANGED <<buffer, read, write>>

Back ==
  /\ ~Empty
  /\ out' = <<buffer[SlotBefore(write)]>>
  /\ UNCHANGED <<buffer, read, write>>

Next ==
  \/ Clear \/ Pop \/ Unpush \/ Front \/ Back
  \/ \E x \in Items : Push(x) \/ Unpop(x)

Spec == Init /\ [][Next]_vars

-----------------------------------------------------------------------------
(* The counters are 16-bit values and never further apart than the ring    *)
(* has slots, also after the write counter alone has wrapped.              *)
TypeOK ==
  /\ buffer \in [Slots -> Items]
  /\ read \in Counters /\ write \in Counters
  /\ SizeOf \in 0..Size
  /\ out \in Seq(Items) /\ Len(out) <= 1

Deque == INSTANCE BoundedDeque WITH
           queue <- [k \in 1..SizeOf |-> buffer[Slot((read + k - 1) % CounterMax)]]

(* Items come out in the order they went in, through the wrap of both      *)
(* counters, if the size divides their range.  The header asks for a power *)
(* of two only "to improve speed" (RingBuffer.h:28); with any other size,  *)
(* such as the 3 of wlan_uart_utils.h:10, two live items share a slot when *)
(* the write counter has wrapped and the read counter has not, and the     *)
(* ring is the queue in every step that does not lead there.               *)
Divides == CounterMax % Size = 0
Straddles == write < read

ImplementsDeque ==
  /\ Deque!DInit
  /\ [][(Divides \/ ~Straddles') => Deque!DNext]_(Deque!dvars)
=============================================================================
