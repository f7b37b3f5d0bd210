--------------------------- MODULE RingByteBuffer ---------------------------
(***************************************************************************)
(* The byte ring of code/utils/RingByteBuffer.[ch].  Two indices below     *)
(* Size, and one bit per index that flips when the index wraps: equal      *)
(* indices mean empty or full, and the bits tell which.  The caller checks *)
(* for room and for bytes, as the header asks.                             *)
(***************************************************************************)
EXTENDS Integers, Sequences

CONSTANTS Size,  \* sizeBuffer of RingByteBuffer_init
          Bytes

ASSUME SizeAssumption == Size \in Nat /\ 1 <= Size /\ Size <= 65535

Slots == 0..(Size - 1)

VARIABLES
  buffer, start, end, msbStart, msbEnd,
  out  \* the bytes that the last operation handed to the caller

vars == <<buffer, start, end, msbStart, msbEnd, out>>

-----------------------------------------------------------------------------
SizeOf_NoMsb ==  \* mutated form: the bits are not asked
  IF end >= start THEN end - start ELSE Size - start + end

SizeOf ==
  IF end > start THEN end - start
  ELSE IF end < start THEN Size - start + end
  ELSE IF msbEnd # msbStart THEN Size
  ELSE 0

Available == Size - SizeOf
IsFull == end = start /\ msbEnd # msbStart
IsEmpty == end = start /\ msbEnd = msbStart

\* n increments of an index i, each followed by the wrap at Size; and of its bit.
Wrap(i) == IF i >= Size THEN i - Size ELSE i
Flip(msb, i) == IF i >= Size THEN 1 - msb ELSE msb

\* The k-th byte from the old end.
ByteAt(k) == buffer[Wrap(start + k)]

-----------------------------------------------------------------------------
\* RingByteBuffer_init on a placeholder with any contents.
Init ==
  /\ buffer \in [Slots -> Bytes]
  /\ start = 0 /\ end = 0 /\ msbStart = 0 /\ msbEnd = 0
  /\ out = <<>>

Clear ==
  /\ start' = 0 /\ end' = 0 /\ msbStart' = 0 /\ msbEnd' = 0
  /\ out' = <<>>
  /\ UNCHANGED buffer

PushByte(byte) ==
  /\ ~IsFull
  /\ buffer' = [buffer EXCEPT ![end] = byte]
  /\ end' = Wrap(end + 1)
  /\ msbEnd' = Flip(msbEnd, end + 1)
  /\ out' = <<>>
  /\ UNCHANGED <<start, msbStart>>

PopByte ==
  /\ ~IsEmpty
  /\ out' = <<ByteAt(0)>>
  /\ start' = Wrap(start + 1)
  /\ msbStart' = Flip(msbStart, start + 1)
  /\ UNCHANGED <<buffer, end, msbEnd>>

\* The distance of slot k from the young end.
Ahead(k) == IF k >= end THEN k - end ELSE k + Size - end

\* The loops over pushByte and popByte; at most Size turns, hence at most one wrap.
PushBuffer(data) ==
  /\ Len(data) <= Available
  /\ buffer' = [k \in Slots |-> IF Ahead(k) < Len(data) THEN data[Ahead(k) + 1]
                                ELSE buffer[k]]
  /\ end' = Wrap(end + Len(data))
  /\ msbEnd' = Flip(msbEnd, end + Len(data))
  /\ out' = <<>>
  /\ UNCHANGED <<start, msbStart>>

PopBuffer(n) ==
  /\ n <= SizeOf
  /\ out' = [k \in 1..n |-> ByteAt(k - 1)]
  /\ start' = Wrap(start + n)
  /\ msbStart' = Flip(msbStart, start + n)
  /\ UNCHANGED <<buffer, end, msbEnd>>

Next ==
  \/ Clear
  \/ PopByte
  \/ \E byte \in Bytes : PushByte(byte)
  \/ \E n \in 1..Size :
       \/ PopBuffer(n)
       \/ \E data \in [1..n -> Bytes] : PushBuffer(data)

Spec == Init /\ [][Next]_vars

-----------------------------------------------------------------------------
TypeOK ==
  /\ buffer \in [Slots -> Bytes]
  /\ start \in Slots /\ end \in Slots
  /\ msbStart \in {0, 1} /\ msbEnd \in {0, 1}
  /\ out \in Seq(Bytes)

(* The bits differ exactly while the young end has wrapped once more than  *)
(* the old one: the young end is never a lap ahead of what the bits say,   *)
(* so that full and empty cannot be confused.                              *)
BitsTellLaps ==
  /\ end < start => msbEnd # msbStart
  /\ end > start => msbEnd = msbStart

Deque == INSTANCE BoundedDeque WITH
           Items <- Bytes, queue <- [k \in 1..SizeOf |-> ByteAt(k - 1)]

(* Bytes come out in the order they went in, none lost, none twice, over   *)
(* any number of wraps and at both limits: full and empty.                 *)
ImplementsDeque == Deque!DSpec
=============================================================================
