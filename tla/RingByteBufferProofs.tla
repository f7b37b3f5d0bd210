------------------------ MODULE RingByteBufferProofs ------------------------
EXTENDS RingByteBuffer, SequenceTheorems, TLAPS

(***************************************************************************)
(* Proofs about the byte ring, for every Size and every set of bytes.  The *)
(* inductive invariant is the type together with BitsTellLaps: without it  *)
(* RingByteBuffer_size would not say how many bytes lie between the        *)
(* indices, and a push at the wrap would turn a full ring into an empty    *)
(* one.  Each operation then acts on the sequence of those bytes as the    *)
(* operation of BoundedDeque does.                                         *)
(***************************************************************************)

IInv == TypeOK /\ BitsTellLaps

Queue == [k \in 1..SizeOf |-> ByteAt(k - 1)]

-----------------------------------------------------------------------------
LEMMA FunctionIsSeq ==
  ASSUME NEW S, NEW n \in Nat, NEW f \in [1..n -> S]
  PROVE  f \in Seq(S) /\ Len(f) = n
<1>1. f \in Seq(S)
  BY SeqDef
<1> QED BY <1>1, LenProperties

(* What the ring holds: between no and Size bytes.                         *)
QueueFacts ==
  /\ SizeOf \in 0..Size
  /\ Queue \in Seq(Bytes) /\ Len(Queue) = SizeOf
  /\ IsFull <=> SizeOf = Size
  /\ IsEmpty <=> SizeOf = 0

LEMMA QueueIsSeq == IInv => QueueFacts
<1> SUFFICES ASSUME IInv PROVE QueueFacts
  OBVIOUS
<1> USE SizeAssumption DEF IInv, TypeOK, BitsTellLaps, Slots
<1>1. SizeOf \in 0..Size /\ (IsFull <=> SizeOf = Size) /\ (IsEmpty <=> SizeOf = 0)
  BY DEF SizeOf, IsFull, IsEmpty
<1>2. Queue \in [1..SizeOf -> Bytes]
  <2>1. ASSUME NEW k \in 1..SizeOf  PROVE ByteAt(k - 1) \in Bytes
    <3>1. Wrap(start + (k - 1)) \in Slots
      BY <1>1 DEF Wrap
    <3> QED BY <3>1 DEF ByteAt
  <2> QED BY <2>1 DEF Queue
<1> HIDE DEF IInv
<1> QED BY <1>1, <1>2, FunctionIsSeq DEF QueueFacts

-----------------------------------------------------------------------------
(* The operations on the indices keep the invariant and change the size.   *)

LEMMA PushMovesEnd ==
  ASSUME IInv, NEW n \in 0..Size, n <= Available,
         end' = Wrap(end + n), msbEnd' = Flip(msbEnd, end + n),
         start' = start, msbStart' = msbStart
  PROVE  /\ end' \in Slots /\ msbEnd' \in {0, 1}
         /\ BitsTellLaps'
         /\ SizeOf' = SizeOf + n
<1> USE SizeAssumption DEF IInv, TypeOK, BitsTellLaps, Slots, Wrap, Flip, Available
<1>1. end' \in Slots /\ msbEnd' \in {0, 1} /\ BitsTellLaps'
  BY DEF SizeOf
<1>2. SizeOf' = SizeOf + n
  BY <1>1 DEF SizeOf
<1> QED BY <1>1, <1>2

LEMMA PopMovesStart ==
  ASSUME IInv, NEW n \in 0..Size, n <= SizeOf,
         start' = Wrap(start + n), msbStart' = Flip(msbStart, start + n),
         end' = end, msbEnd' = msbEnd
  PROVE  /\ start' \in Slots /\ msbStart' \in {0, 1}
         /\ BitsTellLaps'
         /\ SizeOf' = SizeOf - n
<1> USE SizeAssumption DEF IInv, TypeOK, BitsTellLaps, Slots, Wrap, Flip
<1>1. start' \in Slots /\ msbStart' \in {0, 1} /\ BitsTellLaps'
  BY DEF SizeOf
<1>2. SizeOf' = SizeOf - n
  BY <1>1 DEF SizeOf
<1> QED BY <1>1, <1>2

(* A byte that is pushed is a push of one byte, and so is a pop.           *)
LEMMA PushByteIsPushBuffer ==
  ASSUME IInv, NEW byte \in Bytes, PushByte(byte)
  PROVE  \E n \in 1..Size : \E data \in [1..n -> Bytes] : PushBuffer(data)
<1>1. <<byte>> \in [1..1 -> Bytes] /\ Len(<<byte>>) = 1
  OBVIOUS
<1>2. 1 <= Available
  BY QueueIsSeq, SizeAssumption DEF QueueFacts, PushByte, Available
<1>3. buffer' = [k \in Slots |-> IF Ahead(k) < 1 THEN <<byte>>[Ahead(k) + 1] ELSE buffer[k]]
  <2>1. ASSUME NEW k \in Slots
        PROVE  (Ahead(k) < 1 <=> k = end) /\ (k = end => Ahead(k) = 0)
    BY SizeAssumption DEF IInv, TypeOK, Slots, Ahead
  <2>2. ASSUME NEW k \in Slots
        PROVE  buffer'[k] = IF Ahead(k) < 1 THEN <<byte>>[Ahead(k) + 1] ELSE buffer[k]
    BY <2>1 DEF PushByte, IInv, TypeOK
  <2>3. buffer' \in [Slots -> Bytes]
    BY DEF PushByte, IInv, TypeOK
  <2> QED BY <2>2, <2>3
<1>4. PushBuffer(<<byte>>)
  BY <1>1, <1>2, <1>3 DEF PushByte, PushBuffer
<1>5. 1 \in 1..Size
  BY SizeAssumption
<1> WITNESS 1 \in 1..Size
<1> WITNESS <<byte>> \in [1..1 -> Bytes]
<1> QED BY <1>4

LEMMA PopByteIsPopBuffer ==
  ASSUME IInv, PopByte
  PROVE  PopBuffer(1)
<1>1. 1 <= SizeOf
  BY QueueIsSeq DEF QueueFacts, PopByte
<1>2. out' = [k \in 1..1 |-> ByteAt(k - 1)]
  BY DEF PopByte
<1> QED BY <1>1, <1>2 DEF PopByte, PopBuffer

-----------------------------------------------------------------------------
(* The operations on the contents.                                         *)

LEMMA PushIsPush ==
  ASSUME IInv, NEW n \in 1..Size, NEW data \in [1..n -> Bytes], PushBuffer(data)
  PROVE  IInv' /\ Deque!Push(data)
<1>1. data \in Seq(Bytes) /\ Len(data) = n
  BY FunctionIsSeq, SizeAssumption
<1>2. /\ end' \in Slots /\ msbEnd' \in {0, 1} /\ BitsTellLaps'
      /\ SizeOf' = SizeOf + n
  BY <1>1, PushMovesEnd, SizeAssumption DEF PushBuffer
<1>3. SizeOf \in 0..Size /\ SizeOf + n <= Size
  BY <1>1, QueueIsSeq, SizeAssumption DEF QueueFacts, PushBuffer, Available
<1>4. buffer' \in [Slots -> Bytes]
  <2>1. ASSUME NEW k \in Slots, Ahead(k) < n  PROVE data[Ahead(k) + 1] \in Bytes
    <3>1. Ahead(k) + 1 \in 1..n
      BY <2>1, SizeAssumption DEF Ahead, Slots, IInv, TypeOK
    <3> QED BY <3>1
  <2> QED BY <1>1, <2>1 DEF PushBuffer, IInv, TypeOK
<1>5. IInv'
  BY <1>2, <1>4 DEF PushBuffer, IInv, TypeOK
<1>6. QueueFacts /\ QueueFacts'
  BY <1>5, QueueIsSeq, PTL
<1>7. Queue' = Queue \o data
  <2>1. /\ Queue \o data \in Seq(Bytes)
        /\ Len(Queue \o data) = SizeOf + n
        /\ \A k \in 1..(SizeOf + n) :
             (Queue \o data)[k] = IF k <= SizeOf THEN Queue[k] ELSE data[k - SizeOf]
    BY <1>1, <1>6, ConcatProperties DEF QueueFacts
  <2>2. ASSUME NEW k \in 1..(SizeOf + n)  PROVE Queue'[k] = (Queue \o data)[k]
    <3>1. Queue'[k] = buffer'[Wrap(start + (k - 1))]
      BY <1>2 DEF Queue, ByteAt, PushBuffer
    <3> DEFINE slot == Wrap(start + (k - 1))
    <3>2. /\ slot \in Slots
          /\ Ahead(slot) < n <=> k > SizeOf
          /\ k > SizeOf => Ahead(slot) + 1 = k - SizeOf
      BY <1>3, SizeAssumption
      DEF Wrap, Ahead, Slots, SizeOf, IInv, TypeOK, BitsTellLaps
    <3>3. buffer'[slot] = IF k > SizeOf THEN data[k - SizeOf] ELSE buffer[slot]
      BY <1>1, <3>2 DEF PushBuffer
    <3>4. k <= SizeOf => Queue[k] = buffer[slot]
      BY <1>3 DEF Queue, ByteAt
    <3> QED BY <1>3, <2>1, <3>1, <3>3, <3>4
  <2> QED BY <1>2, <1>6, <2>1, <2>2, SeqEqual DEF QueueFacts
<1>8. Deque!Push(data)
  BY <1>1, <1>3, <1>6, <1>7 DEF Deque!Push, Queue, QueueFacts, PushBuffer
<1> QED BY <1>5, <1>8

LEMMA PopIsPop ==
  ASSUME IInv, NEW n \in 1..Size, PopBuffer(n)
  PROVE  IInv' /\ Deque!Pop(n)
<1>1. n \in 1..SizeOf /\ QueueFacts
  BY QueueIsSeq, SizeAssumption DEF PopBuffer, QueueFacts
<1>2. /\ start' \in Slots /\ msbStart' \in {0, 1} /\ BitsTellLaps'
      /\ SizeOf' = SizeOf - n
  BY <1>1, PopMovesStart, SizeAssumption DEF PopBuffer
<1>3. out' \in [1..n -> Bytes] /\ \A k \in 1..n : out'[k] = Queue[k]
  <2>1. ASSUME NEW k \in 1..n  PROVE out'[k] = Queue[k] /\ Queue[k] \in Bytes
    BY <1>1, ElementOfSeq DEF PopBuffer, Queue, QueueFacts
  <2> QED BY <2>1 DEF PopBuffer
<1>4. out' \in Seq(Bytes) /\ Len(out') = n
  BY <1>3, FunctionIsSeq, SizeAssumption
<1>5. IInv'
  BY <1>2, <1>4 DEF PopBuffer, IInv, TypeOK
<1>6. QueueFacts'
  BY <1>5, QueueIsSeq, PTL
<1>7. /\ SubSeq(Queue, 1, n) \in Seq(Bytes) /\ Len(SubSeq(Queue, 1, n)) = n
      /\ \A k \in 1..n : SubSeq(Queue, 1, n)[k] = Queue[k]
  <2>1. \A k \in 1..n : Queue[k] \in Bytes
    BY <1>1, ElementOfSeq DEF QueueFacts
  <2> QED BY <2>1, SubSeqProperties, SizeAssumption
<1>8. out' = SubSeq(Queue, 1, n)
  BY <1>3, <1>4, <1>7, SeqEqual
<1>9. /\ SubSeq(Queue, n + 1, SizeOf) \in Seq(Bytes)
      /\ Len(SubSeq(Queue, n + 1, SizeOf)) = SizeOf - n
      /\ \A k \in 1..(SizeOf - n) : SubSeq(Queue, n + 1, SizeOf)[k] = Queue[n + k]
  <2>1. \A k \in (n + 1)..SizeOf : Queue[k] \in Bytes
    BY <1>1, ElementOfSeq DEF QueueFacts
  <2>2. SizeOf \in Int /\ n + 1 \in Int
    BY <1>1 DEF QueueFacts
  <2>3. /\ SubSeq(Queue, n + 1, SizeOf) \in Seq(Bytes)
        /\ Len(SubSeq(Queue, n + 1, SizeOf)) =
             IF n + 1 <= SizeOf THEN SizeOf - (n + 1) + 1 ELSE 0
        /\ \A k \in 1..(SizeOf - (n + 1) + 1) :
             SubSeq(Queue, n + 1, SizeOf)[k] = Queue[n + 1 + k - 1]
    BY <2>1, <2>2, SubSeqProperties
  <2> QED BY <1>1, <2>2, <2>3
<1>10. Queue' = SubSeq(Queue, n + 1, SizeOf)
  <2>1. ASSUME NEW k \in 1..(SizeOf - n)  PROVE Queue'[k] = Queue[n + k]
    <3>1. Queue'[k] = buffer[Wrap(start' + (k - 1))]
      BY <1>2 DEF Queue, ByteAt, PopBuffer
    <3>2. Queue[n + k] = buffer[Wrap(start + (n + k - 1))]
      BY <1>1 DEF Queue, ByteAt, QueueFacts
    <3>3. Wrap(start' + (k - 1)) = Wrap(start + (n + k - 1))
      BY <1>1, SizeAssumption
      DEF Wrap, PopBuffer, Slots, IInv, TypeOK, QueueFacts
    <3> QED BY <3>1, <3>2, <3>3
  <2> QED BY <1>2, <1>6, <1>9, <2>1, SeqEqual DEF QueueFacts
<1>11. Deque!Pop(n)
  <2>1. /\ n <= Len(Queue)
        /\ out' = SubSeq(Queue, 1, n)
        /\ Queue' = SubSeq(Queue, n + 1, Len(Queue))
    BY <1>1, <1>8, <1>10 DEF QueueFacts
  <2> QED BY <2>1, Zenon DEF Deque!Pop, Queue
<1> QED BY <1>5, <1>11

LEMMA ClearIsClear ==
  ASSUME IInv, Clear
  PROVE  IInv' /\ Deque!Clear
<1>1. IInv'
  BY SizeAssumption, EmptySeq DEF Clear, IInv, TypeOK, BitsTellLaps, Slots
<1>2. QueueFacts' /\ SizeOf' = 0
  <2>1. QueueFacts'
    BY <1>1, QueueIsSeq, PTL
  <2> QED BY <2>1 DEF Clear, SizeOf
<1>3. Queue' = <<>>
  BY <1>2, EmptySeq DEF QueueFacts
<1> QED BY <1>1, <1>3 DEF Clear, Deque!Clear, Queue

-----------------------------------------------------------------------------
LEMMA InitEstablishes == Init => IInv /\ Deque!DInit
<1> SUFFICES ASSUME Init PROVE IInv /\ Deque!DInit
  OBVIOUS
<1>1. IInv
  BY SizeAssumption, EmptySeq DEF Init, IInv, TypeOK, BitsTellLaps, Slots
<1>2. QueueFacts /\ SizeOf = 0
  BY <1>1, QueueIsSeq DEF Init, SizeOf
<1>3. Queue = <<>>
  BY <1>2, EmptySeq DEF QueueFacts
<1> QED BY <1>1, <1>3 DEF Init, Deque!DInit, Queue

LEMMA StepImplements ==
  IInv /\ [Next]_vars => IInv' /\ [Deque!DNext]_(Deque!dvars)
<1> SUFFICES ASSUME IInv, [Next]_vars
             PROVE  IInv' /\ [Deque!DNext]_(Deque!dvars)
  OBVIOUS
<1> USE SizeAssumption
<1>1. CASE Clear
  BY <1>1, ClearIsClear DEF Deque!DNext
<1>2. CASE PopByte
  <2>1. PopBuffer(1) /\ 1 \in 1..Size
    BY <1>2, PopByteIsPopBuffer
  <2> QED BY <2>1, PopIsPop DEF Deque!DNext
<1>3. CASE \E n \in 1..Size : PopBuffer(n)
  BY <1>3, PopIsPop DEF Deque!DNext
<1>4. CASE \E n \in 1..Size : \E data \in [1..n -> Bytes] : PushBuffer(data)
  BY <1>4, PushIsPush DEF Deque!DNext
<1>5. CASE \E byte \in Bytes : PushByte(byte)
  BY <1>4, <1>5, PushByteIsPushBuffer
<1>6. CASE UNCHANGED vars
  <2>1. IInv' /\ SizeOf' = SizeOf
    BY <1>6 DEF vars, IInv, TypeOK, BitsTellLaps, SizeOf
  <2>2. Queue' = Queue
    BY <1>6, <2>1 DEF vars, Queue, ByteAt, Wrap
  <2> QED BY <1>6, <2>1, <2>2 DEF vars, Deque!dvars, Queue
<1> QED BY <1>1, <1>2, <1>3, <1>4, <1>5, <1>6 DEF Next

-----------------------------------------------------------------------------
THEOREM Invariance == Spec => []IInv
<1>1. Init => IInv
  BY InitEstablishes
<1>2. IInv /\ [Next]_vars => IInv'
  BY StepImplements
<1> QED BY <1>1, <1>2, PTL DEF Spec

(* The indices stay inside the buffer and the bits are bits.               *)
THEOREM TypeCorrect == Spec => []TypeOK
BY Invariance, PTL DEF IInv

(* Full and empty are never confused, at any size of the ring.             *)
THEOREM LapsAreTold == Spec => []BitsTellLaps
BY Invariance, PTL DEF IInv

(* The ring implements the bounded queue for every size and alphabet.      *)
THEOREM RingIsAQueue == Spec => ImplementsDeque
<1>1. Init => Deque!DInit
  BY InitEstablishes
<1>2. IInv /\ [Next]_vars => [Deque!DNext]_(Deque!dvars)
  BY StepImplements
<1> QED BY <1>1, <1>2, Invariance, PTL DEF Spec, ImplementsDeque, Deque!DSpec
=============================================================================
