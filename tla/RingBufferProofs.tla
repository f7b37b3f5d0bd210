-------------------------- MODULE RingBufferProofs --------------------------
EXTENDS RingBuffer, SequenceTheorems, TLAPS

(***************************************************************************)
(* Proofs about the macro ring, for every type of items, every size and    *)
(* every range of the counters.  Which counters hold items is arithmetic   *)
(* of the counters alone (QueueFacts); only that two of them never share a *)
(* slot needs a size that divides the range, or counters of which none has *)
(* wrapped while the other has not (SlotsApart).                           *)
(***************************************************************************)

-----------------------------------------------------------------------------
(* Quotients and remainders.                                               *)

LEMMA Division ==
  ASSUME NEW a \in Int, NEW b \in Nat \ {0}
  PROVE  a = b * (a \div b) + (a % b) /\ a % b \in 0..(b - 1) /\ a \div b \in Int
OBVIOUS

LEMMA DivisionIsUnique ==
  ASSUME NEW b \in Nat \ {0},
         NEW q \in Int, NEW r \in 0..(b - 1), NEW p \in Int, NEW s \in 0..(b - 1),
         b * q + r = b * p + s
  PROVE  r = s
<1>1. ~(q < p)
  <2> SUFFICES ASSUME q < p PROVE FALSE
    OBVIOUS
  <2>1. b * p >= b * (q + 1) /\ b * (q + 1) = b * q + b
    OBVIOUS
  <2> QED BY <2>1
<1>2. ~(p < q)
  <2> SUFFICES ASSUME p < q PROVE FALSE
    OBVIOUS
  <2>1. b * q >= b * (p + 1) /\ b * (p + 1) = b * p + b
    OBVIOUS
  <2> QED BY <2>1
<1> QED BY <1>1, <1>2

LEMMA Remainder ==
  ASSUME NEW b \in Nat \ {0}, NEW q \in Int, NEW r \in 0..(b - 1), NEW a \in Int,
         a = b * q + r
  PROVE  a % b = r
<1>1. a = b * (a \div b) + (a % b) /\ a % b \in 0..(b - 1) /\ a \div b \in Int
  BY Division
<1> QED BY <1>1, DivisionIsUnique

(* One turn more or less.                                                  *)
LEMMA OneTurn ==
  ASSUME NEW b \in Nat \ {0}, NEW a \in Int, 0 - b <= a, a < 2 * b
  PROVE  a % b = IF a < 0 THEN a + b ELSE IF a >= b THEN a - b ELSE a
<1>1. CASE a < 0
  <2>1. a = b * (-1) + (a + b) /\ a + b \in 0..(b - 1)
    BY <1>1
  <2> QED BY <1>1, <2>1, Remainder
<1>2. CASE a >= b
  <2>1. a = b * 1 + (a - b) /\ a - b \in 0..(b - 1)
    BY <1>2
  <2> QED BY <1>2, <2>1, Remainder
<1>3. CASE a >= 0 /\ a < b
  <2>1. a = b * 0 + a /\ a \in 0..(b - 1)
    BY <1>3
  <2> QED BY <1>3, <2>1, Remainder
<1> QED BY <1>1, <1>2, <1>3

Turn(a) == IF a < 0 THEN a + CounterMax
           ELSE IF a >= CounterMax THEN a - CounterMax ELSE a

LEMMA CounterTurn ==
  ASSUME NEW a \in Int, 0 - CounterMax <= a, a < 2 * CounterMax
  PROVE  a % CounterMax = Turn(a) /\ Turn(a) \in Counters
<1>1. CounterMax \in Nat \ {0}
  BY SizeAssumption
<1>2. a % CounterMax = Turn(a)
  BY <1>1, OneTurn DEF Turn
<1>3. Turn(a) \in Counters
  BY <1>1 DEF Turn, Counters
<1> QED BY <1>2, <1>3

-----------------------------------------------------------------------------
(* The slots of the counters.                                              *)

LEMMA SlotIsSlot ==
  ASSUME NEW c \in Counters
  PROVE  Slot(c) \in Slots
<1>1. c \in Int
  BY SizeAssumption DEF Counters
<1> QED BY <1>1, SizeAssumption, Division DEF Slot, Slots

(* Counters less than a ring apart never share a slot, unless one of them  *)
(* has wrapped and the size does not divide their range.                   *)
LEMMA SlotsApart ==
  ASSUME NEW c \in Counters, NEW d \in Counters, NEW k \in 1..(Size - 1),
         d = c + k \/ (Divides /\ d = c + k - CounterMax)
  PROVE  Slot(c) # Slot(d)
<1> SUFFICES ASSUME Slot(c) = Slot(d) PROVE FALSE
  OBVIOUS
<1> DEFINE q == c \div Size
           p == d \div Size
           t == CounterMax \div Size
<1>1. Size \in Nat \ {0} /\ CounterMax \in Nat /\ c \in Int /\ d \in Int
  BY SizeAssumption DEF Counters
<1>2. /\ c = Size * q + Slot(c) /\ q \in Int
      /\ d = Size * p + Slot(d) /\ p \in Int
      /\ Slot(c) \in Int /\ Slot(d) \in Int
  BY <1>1, Division DEF Slot
<1>3. Divides => CounterMax = Size * t /\ t \in Int
  BY <1>1, Division DEF Divides
<1> HIDE DEF q, p, t
<1>4. \E e \in Int : Size * e + 0 = Size * 0 + k
  <2>1. CASE d = c + k
    <3>1. Size * (p - q) = Size * p - Size * q /\ p - q \in Int
      BY <1>1, <1>2
    <3>2. Size * (p - q) + 0 = Size * 0 + k
      BY <1>1, <1>2, <2>1, <3>1
    <3> QED BY <3>1, <3>2
  <2>2. CASE Divides /\ d = c + k - CounterMax
    <3>1. Size * (p - q + t) = Size * p - Size * q + Size * t /\ p - q + t \in Int
      BY <1>1, <1>2, <1>3, <2>2
    <3>2. Size * (p - q + t) + 0 = Size * 0 + k
      BY <1>1, <1>2, <1>3, <2>2, <3>1
    <3> QED BY <3>1, <3>2
  <2> QED BY <2>1, <2>2
<1>5. PICK e \in Int : Size * e + 0 = Size * 0 + k
  BY <1>4
<1>6. 0 \in 0..(Size - 1) /\ k \in 0..(Size - 1) /\ 0 \in Int
  BY <1>1
<1>7. 0 = k
  BY ONLY <1>1, <1>5, <1>6, DivisionIsUnique
<1> QED BY <1>7

(* RINGBUFFER_BACK finds the same slot through its 32-bit detour.          *)
LEMMA BeforeZero ==
  ASSUME Divides
  PROVE  SlotBefore(0) = Slot(CounterMax - 1)
<1> DEFINE t == CounterMax \div Size
<1>1. Size \in Nat \ {0} /\ CounterMax \in Nat
  BY SizeAssumption
<1>2. CounterMax = Size * t /\ t \in Int
  BY <1>1, Division DEF Divides
<1> HIDE DEF t
<1>3. Size - 1 \in 0..(Size - 1)
  BY <1>1
<1>4. (0 - 1) % Size = Size - 1
  <2>1. 0 - 1 = Size * (0 - 1) + (Size - 1) /\ 0 - 1 \in Int
    BY <1>1
  <2> QED BY <1>1, <1>3, <2>1, Remainder
<1>5. (CounterMax - 1) % Size = Size - 1
  <2> DEFINE a == CounterMax - 1
             q == t - 1
             r == Size - 1
  <2>1. Size * (t - 1) = Size * t - Size
    BY <1>1, <1>2
  <2>2. a = Size * q + r
    BY <1>1, <1>2, <2>1
  <2>3. q \in Int /\ a \in Int /\ r \in 0..(Size - 1)
    BY <1>1, <1>2
  <2> HIDE DEF a, q, r
  <2>4. a % Size = r
    BY ONLY <1>1, <2>2, <2>3, Remainder
  <2> QED BY <2>4 DEF a, r
<1> QED BY <1>4, <1>5 DEF SlotBefore, Slot, Divides

-----------------------------------------------------------------------------
(* What the ring holds.                                                    *)
Queue == [k \in 1..SizeOf |-> buffer[Slot((read + k - 1) % CounterMax)]]

\* The counter of the k-th item from the old end.
Place(k) == Turn(read + k - 1)

QueueFacts ==
  /\ Queue \in Seq(Items) /\ Len(Queue) = SizeOf
  /\ \A k \in 1..SizeOf : Place(k) \in Counters /\ Queue[k] = buffer[Slot(Place(k))]

LEMMA FunctionIsSeq ==
  ASSUME NEW S, NEW n \in Nat, NEW f \in [1..n -> S]
  PROVE  f \in Seq(S) /\ Len(f) = n
<1>1. f \in Seq(S)
  BY SeqDef
<1> QED BY <1>1, LenProperties

InRange == read \in Counters /\ write \in Counters

Distance ==
  SizeOf = IF write < read THEN write - read + CounterMax ELSE write - read

LEMMA SizeIsDistance == InRange => Distance
<1> SUFFICES ASSUME InRange PROVE Distance
  OBVIOUS
<1>1. /\ read \in Nat /\ write \in Nat /\ CounterMax \in Nat
      /\ read < CounterMax /\ write < CounterMax
  BY SizeAssumption DEF InRange, Counters
<1> DEFINE a == write - read
<1>2. a \in Int /\ 0 - CounterMax <= a /\ a < CounterMax /\ a < 2 * CounterMax
  BY <1>1
<1>3. a % CounterMax = Turn(a)
  BY <1>2, CounterTurn
<1>4. SizeOf = Turn(write - read)
  BY <1>3 DEF SizeOf
<1> QED BY <1>1, <1>4 DEF Distance, Turn

LEMMA Facts == TypeOK => QueueFacts /\ Distance /\ SizeOf \in 0..Size
<1> SUFFICES ASSUME TypeOK PROVE QueueFacts /\ Distance /\ SizeOf \in 0..Size
  OBVIOUS
<1>1. /\ read \in Nat /\ CounterMax \in Nat /\ Size \in Nat /\ Size < CounterMax
      /\ read < CounterMax /\ SizeOf \in 0..Size /\ SizeOf \in Nat
  BY SizeAssumption DEF TypeOK, Counters
<1>2. ASSUME NEW k \in 1..SizeOf
      PROVE  /\ Place(k) \in Counters
             /\ Queue[k] = buffer[Slot(Place(k))] /\ Queue[k] \in Items
  <2>1. /\ read + k - 1 \in Int /\ 0 - CounterMax <= read + k - 1
        /\ read + k - 1 < 2 * CounterMax
    BY <1>1
  <2>2. (read + k - 1) % CounterMax = Place(k) /\ Place(k) \in Counters
    BY <2>1, CounterTurn DEF Place
  <2>3. Slot(Place(k)) \in Slots
    BY <2>2, SlotIsSlot
  <2> QED BY <2>2, <2>3 DEF Queue, TypeOK
<1>3. Queue \in [1..SizeOf -> Items]
  BY <1>2 DEF Queue
<1>4. Distance
  BY SizeIsDistance DEF InRange, TypeOK
<1> QED BY <1>1, <1>2, <1>3, <1>4, FunctionIsSeq DEF QueueFacts

LEMMA IncTurns ==
  ASSUME NEW c \in Counters
  PROVE  Inc(c) = Turn(c + 1) /\ Inc(c) \in Counters
<1>1. c + 1 \in Int /\ 0 - CounterMax <= c + 1 /\ c + 1 < 2 * CounterMax
  BY SizeAssumption DEF Counters
<1> QED BY <1>1, CounterTurn DEF Inc

LEMMA DecTurns ==
  ASSUME NEW c \in Counters
  PROVE  Dec(c) = Turn(c - 1) /\ Dec(c) \in Counters
<1>1. c - 1 \in Int /\ 0 - CounterMax <= c - 1 /\ c - 1 < 2 * CounterMax
  BY SizeAssumption DEF Counters
<1> QED BY <1>1, CounterTurn DEF Dec

-----------------------------------------------------------------------------
(* The macros.                                                             *)

Numbers ==
  /\ Size \in Nat \ {0} /\ CounterMax \in Nat /\ Size < CounterMax
  /\ read \in 0..(CounterMax - 1) /\ write \in 0..(CounterMax - 1)

LEMMA AreNumbers == TypeOK => Numbers
BY SizeAssumption DEF TypeOK, Counters, Numbers

LEMMA PushIsPush ==
  ASSUME TypeOK, NEW x \in Items, Push(x)
  PROVE  TypeOK' /\ (Divides \/ ~Straddles' => Deque!Push(<<x>>))
<1>1. QueueFacts /\ Distance /\ SizeOf \in 0..(Size - 1) /\ Numbers
  BY Facts, AreNumbers, SizeAssumption DEF Push, Full
<1>2. /\ write' = Turn(write + 1) /\ write' \in Counters
      /\ read' = read /\ read \in Counters /\ write \in Counters
  BY IncTurns DEF Push, TypeOK
<1>3. SizeOf' = SizeOf + 1
  <2>1. InRange'
    BY <1>2 DEF InRange
  <2>2. Distance'
    BY <2>1, SizeIsDistance, PTL
  <2> QED BY <1>1, <1>2, <2>2 DEF Distance, Turn, Numbers
<1>4. TypeOK'
  <2>1. buffer' \in [Slots -> Items]
    BY DEF Push, TypeOK
  <2>2. out' \in Seq(Items) /\ Len(out') <= 1
    BY EmptySeq DEF Push
  <2>3. SizeOf' \in 0..Size
    BY <1>1, <1>3 DEF Numbers
  <2> QED BY <1>2, <2>1, <2>2, <2>3 DEF TypeOK
<1>5. QueueFacts'
  BY <1>4, Facts, PTL
<1>6. ASSUME Divides \/ ~Straddles'
      PROVE  Queue' = Queue \o <<x>>
  <2>1. <<x>> \in Seq(Items) /\ Len(<<x>>) = 1 /\ <<x>>[1] = x
    OBVIOUS
  <2>2. /\ Queue \o <<x>> \in Seq(Items)
        /\ Len(Queue \o <<x>>) = SizeOf + 1
        /\ \A k \in 1..(SizeOf + 1) :
             (Queue \o <<x>>)[k] = IF k <= SizeOf THEN Queue[k] ELSE <<x>>[k - SizeOf]
    BY <1>1, <2>1, ConcatProperties DEF QueueFacts
  <2>3. ASSUME NEW k \in 1..SizeOf  PROVE Slot(Place(k)) # Slot(write)
    <3>1. Place(k) \in Counters /\ SizeOf + 1 - k \in 1..(Size - 1)
      BY <1>1 DEF QueueFacts, Numbers
    <3>2. \/ write = Place(k) + (SizeOf + 1 - k)
          \/ write = Place(k) + (SizeOf + 1 - k) - CounterMax /\ Straddles'
      BY <1>1, <1>2 DEF Distance, Place, Turn, Numbers, Straddles
    <3> QED BY <1>2, <1>6, <3>1, <3>2, SlotsApart
  <2>4. ASSUME NEW k \in 1..(SizeOf + 1)
        PROVE  Queue'[k] = IF k <= SizeOf THEN Queue[k] ELSE x
    <3>1. Queue'[k] = buffer'[Slot(Place(k))] /\ Place(k) \in Counters
      BY <1>2, <1>3, <1>5 DEF QueueFacts, Place
    <3>2. buffer' = [buffer EXCEPT ![Slot(write)] = x] /\ buffer \in [Slots -> Items]
      BY DEF Push, TypeOK
    <3>3. Slot(Place(k)) \in Slots
      BY <3>1, SlotIsSlot
    <3>4. CASE k <= SizeOf
      <4>1. k \in 1..SizeOf
        BY <1>1, <3>4 DEF Numbers
      <4> QED BY <1>1, <2>3, <3>1, <3>2, <3>3, <3>4, <4>1 DEF QueueFacts
    <3>5. CASE ~(k <= SizeOf)
      <4>1. Place(k) = write
        BY <1>1, <3>5 DEF Distance, Place, Turn, Numbers
      <4> QED BY <3>1, <3>2, <3>3, <3>5, <4>1
    <3> QED BY <3>4, <3>5
  <2>5. ASSUME NEW k \in 1..(SizeOf + 1)  PROVE Queue'[k] = (Queue \o <<x>>)[k]
    BY <1>1, <2>1, <2>2, <2>4 DEF Numbers
  <2> QED BY <1>3, <1>5, <2>2, <2>5, SeqEqual DEF QueueFacts
<1>7. Len(Queue) + Len(<<x>>) <= Size /\ out' = <<>>
  BY <1>1 DEF QueueFacts, Numbers, Push
<1> QED BY <1>4, <1>6, <1>7 DEF Deque!Push, Queue

LEMMA UnpushIsUnpush ==
  ASSUME TypeOK, Unpush
  PROVE  TypeOK' /\ Deque!Unpush
<1>1. QueueFacts /\ Distance /\ SizeOf \in 1..Size /\ Numbers
  BY Facts, AreNumbers, SizeAssumption DEF Unpush, Empty
<1>2. /\ write' = Turn(write - 1) /\ write' \in Counters
      /\ read' = read /\ read \in Counters
  BY DecTurns DEF Unpush, TypeOK
<1>3. SizeOf' = SizeOf - 1
  <2>1. InRange'
    BY <1>2 DEF InRange
  <2>2. Distance'
    BY <2>1, SizeIsDistance, PTL
  <2> QED BY <1>1, <1>2, <2>2 DEF Distance, Turn, Numbers
<1>4. out' = <<Queue[SizeOf]>> /\ Queue[SizeOf] \in Items
  <2>1. Place(SizeOf) = write'
    BY <1>1, <1>2 DEF Distance, Place, Turn, Numbers
  <2>2. Queue[SizeOf] = buffer[Slot(write')]
    BY <1>1, <2>1 DEF QueueFacts
  <2>3. Queue[SizeOf] \in Items
    BY <1>1, ElementOfSeq DEF QueueFacts
  <2> QED BY <2>2, <2>3 DEF Unpush
<1>5. TypeOK'
  BY <1>1, <1>2, <1>3, <1>4 DEF Unpush, TypeOK, Numbers
<1>6. QueueFacts'
  BY <1>5, Facts, PTL
<1>7. Queue' = SubSeq(Queue, 1, SizeOf - 1)
  <2>1. \A k \in 1..(SizeOf - 1) : Queue[k] \in Items
    BY <1>1, ElementOfSeq DEF QueueFacts
  <2>2. /\ SubSeq(Queue, 1, SizeOf - 1) \in Seq(Items)
        /\ Len(SubSeq(Queue, 1, SizeOf - 1)) = SizeOf - 1
        /\ \A k \in 1..(SizeOf - 1) : SubSeq(Queue, 1, SizeOf - 1)[k] = Queue[k]
    BY <1>1, <2>1, SubSeqProperties
  <2>3. ASSUME NEW k \in 1..(SizeOf - 1)  PROVE Queue'[k] = Queue[k]
    <3>1. Queue'[k] = buffer[Slot(Place(k))]
      BY <1>2, <1>3, <1>6 DEF QueueFacts, Place, Unpush
    <3>2. Queue[k] = buffer[Slot(Place(k))]
      BY <1>1 DEF QueueFacts
    <3> QED BY <3>1, <3>2
  <2> QED BY <1>3, <1>6, <2>2, <2>3, SeqEqual DEF QueueFacts
<1>8. /\ Queue # <<>>
      /\ out' = <<Queue[Len(Queue)]>>
      /\ Queue' = SubSeq(Queue, 1, Len(Queue) - 1)
  BY <1>1, <1>4, <1>7 DEF QueueFacts
<1> QED BY <1>5, <1>8 DEF Deque!Unpush, Queue

(* The oldest item is the one the read counter stands at.                  *)
LEMMA FirstIsOldest ==
  ASSUME TypeOK, SizeOf \in 1..Size
  PROVE  Queue[1] = buffer[Slot(read)] /\ Queue[1] \in Items
<1>1. QueueFacts /\ Numbers
  BY Facts, AreNumbers
<1>2. Place(1) = read
  BY <1>1 DEF Place, Turn, Numbers
<1>3. Queue[1] \in Items
  BY <1>1, ElementOfSeq DEF QueueFacts
<1> QED BY <1>1, <1>2, <1>3 DEF QueueFacts

LEMMA PopIsPop ==
  ASSUME TypeOK, Pop
  PROVE  TypeOK' /\ Deque!Pop(1)
<1>1. QueueFacts /\ Distance /\ SizeOf \in 1..Size /\ Numbers
  BY Facts, AreNumbers, SizeAssumption DEF Pop, Empty
<1>2. /\ read' = Turn(read + 1) /\ read' \in Counters
      /\ write' = write /\ write \in Counters
  BY IncTurns DEF Pop, TypeOK
<1>3. SizeOf' = SizeOf - 1
  <2>1. InRange'
    BY <1>2 DEF InRange
  <2>2. Distance'
    BY <2>1, SizeIsDistance, PTL
  <2> QED BY <1>1, <1>2, <2>2 DEF Distance, Turn, Numbers
<1>4. out' = <<Queue[1]>> /\ Queue[1] \in Items
  BY <1>1, FirstIsOldest DEF Pop
<1>5. TypeOK'
  BY <1>1, <1>2, <1>3, <1>4 DEF Pop, TypeOK, Numbers
<1>6. QueueFacts'
  BY <1>5, Facts, PTL
<1>7. Queue' = SubSeq(Queue, 2, SizeOf)
  <2>1. \A k \in 2..SizeOf : Queue[k] \in Items
    BY <1>1, ElementOfSeq DEF QueueFacts
  <2>2. /\ SubSeq(Queue, 2, SizeOf) \in Seq(Items)
        /\ Len(SubSeq(Queue, 2, SizeOf)) = SizeOf - 1
        /\ \A k \in 1..(SizeOf - 1) : SubSeq(Queue, 2, SizeOf)[k] = Queue[k + 1]
    <3>1. /\ SubSeq(Queue, 2, SizeOf) \in Seq(Items)
          /\ Len(SubSeq(Queue, 2, SizeOf)) = IF 2 <= SizeOf THEN SizeOf - 2 + 1 ELSE 0
          /\ \A k \in 1..(SizeOf - 2 + 1) : SubSeq(Queue, 2, SizeOf)[k] = Queue[2 + k - 1]
      BY <1>1, <2>1, SubSeqProperties
    <3> QED BY <1>1, <3>1
  <2>3. ASSUME NEW k \in 1..(SizeOf - 1)  PROVE Queue'[k] = Queue[k + 1]
    <3>1. Place(k)' = Place(k + 1)
      BY <1>1, <1>2 DEF Place, Turn, Numbers
    <3>2. Queue'[k] = buffer[Slot(Place(k)')]
      BY <1>3, <1>6 DEF QueueFacts, Pop
    <3>3. Queue[k + 1] = buffer[Slot(Place(k + 1))]
      BY <1>1 DEF QueueFacts
    <3> QED BY <3>1, <3>2, <3>3
  <2> QED BY <1>3, <1>6, <2>2, <2>3, SeqEqual DEF QueueFacts
<1>8. SubSeq(Queue, 1, 1) = <<Queue[1]>>
  <2>1. \A k \in 1..1 : Queue[k] \in Items
    BY <1>4
  <2>2. /\ SubSeq(Queue, 1, 1) \in Seq(Items) /\ Len(SubSeq(Queue, 1, 1)) = 1
        /\ SubSeq(Queue, 1, 1)[1] = Queue[1]
    BY <2>1, SubSeqProperties
  <2>3. <<Queue[1]>> \in Seq(Items) /\ Len(<<Queue[1]>>) = 1
    BY <1>4
  <2>4. \A k \in 1..1 : SubSeq(Queue, 1, 1)[k] = <<Queue[1]>>[k]
    BY <2>2
  <2> DEFINE front == SubSeq(Queue, 1, 1)
             first == <<Queue[1]>>
  <2>5. /\ front \in Seq(Items) /\ Len(front) = 1
        /\ first \in Seq(Items) /\ Len(first) = 1
        /\ \A k \in 1..Len(front) : front[k] = first[k]
    BY <2>2, <2>3, <2>4
  <2> HIDE DEF front, first
  <2>6. front = first
    BY <2>5, SeqEqual
  <2> QED BY <2>6 DEF front, first
<1>9. /\ 1 <= Len(Queue)
      /\ out' = SubSeq(Queue, 1, 1)
      /\ Queue' = SubSeq(Queue, 1 + 1, Len(Queue))
  BY <1>1, <1>4, <1>7, <1>8 DEF QueueFacts
<1> QED BY <1>5, <1>9 DEF Deque!Pop, Queue

LEMMA UnpopIsUnpop ==
  ASSUME TypeOK, NEW x \in Items, Unpop(x)
  PROVE  TypeOK' /\ (Divides \/ ~Straddles' => Deque!Unpop(x))
<1>1. QueueFacts /\ Distance /\ SizeOf \in 0..(Size - 1) /\ Numbers
  BY Facts, AreNumbers, SizeAssumption DEF Unpop, Full
<1>2. /\ read' = Turn(read - 1) /\ read' \in Counters
      /\ write' = write /\ write \in Counters
  BY DecTurns DEF Unpop, TypeOK
<1>3. SizeOf' = SizeOf + 1
  <2>1. InRange'
    BY <1>2 DEF InRange
  <2>2. Distance'
    BY <2>1, SizeIsDistance, PTL
  <2> QED BY <1>1, <1>2, <2>2 DEF Distance, Turn, Numbers
<1>4. TypeOK'
  <2>1. buffer' \in [Slots -> Items]
    BY DEF Unpop, TypeOK
  <2>2. out' \in Seq(Items) /\ Len(out') <= 1
    BY EmptySeq DEF Unpop
  <2>3. SizeOf' \in 0..Size
    BY <1>1, <1>3 DEF Numbers
  <2> QED BY <1>2, <2>1, <2>2, <2>3 DEF TypeOK
<1>5. QueueFacts'
  BY <1>4, Facts, PTL
<1>6. ASSUME Divides \/ ~Straddles'
      PROVE  Queue' = <<x>> \o Queue
  <2>1. <<x>> \in Seq(Items) /\ Len(<<x>>) = 1 /\ <<x>>[1] = x
    OBVIOUS
  <2>2. /\ <<x>> \o Queue \in Seq(Items)
        /\ Len(<<x>> \o Queue) = 1 + SizeOf
        /\ \A k \in 1..(1 + SizeOf) :
             (<<x>> \o Queue)[k] = IF k <= 1 THEN <<x>>[k] ELSE Queue[k - 1]
    BY <1>1, <2>1, ConcatProperties DEF QueueFacts
  <2>3. ASSUME NEW k \in 1..SizeOf
        PROVE  Place(k + 1)' = Place(k) /\ Slot(Place(k)) # Slot(read')
    <3>1. Place(k) \in Counters /\ k \in 1..(Size - 1)
      BY <1>1 DEF QueueFacts, Numbers
    <3>2. \/ Place(k) = read' + k
          \/ Place(k) = read' + k - CounterMax /\ Straddles'
      BY <1>1, <1>2 DEF Distance, Place, Turn, Numbers, Straddles
    <3>3. Place(k + 1)' = Place(k)
      BY <1>1, <1>2 DEF Place, Turn, Numbers
    <3>4. Slot(read') # Slot(Place(k))
      BY <1>2, <1>6, <3>1, <3>2, SlotsApart
    <3> QED BY <3>3, <3>4
  <2>4. ASSUME NEW k \in 1..(SizeOf + 1)
        PROVE  Queue'[k] = IF k <= 1 THEN x ELSE Queue[k - 1]
    <3>1. Queue'[k] = buffer'[Slot(Place(k)')] /\ Place(k)' \in Counters
      BY <1>3, <1>5 DEF QueueFacts
    <3>2. buffer' = [buffer EXCEPT ![Slot(read')] = x] /\ buffer \in [Slots -> Items]
      BY DEF Unpop, TypeOK
    <3>3. Slot(Place(k)') \in Slots
      BY <3>1, SlotIsSlot
    <3>4. CASE k <= 1
      <4>1. Place(k)' = read'
        BY <1>1, <1>2, <3>4 DEF Place, Turn, Numbers, Counters
      <4> QED BY <3>1, <3>2, <3>3, <3>4, <4>1
    <3>5. CASE ~(k <= 1)
      <4>1. k - 1 \in 1..SizeOf /\ (k - 1) + 1 = k
        BY <1>1, <3>5
      <4>2. Place(k)' = Place(k - 1) /\ Slot(Place(k - 1)) # Slot(read')
        BY <2>3, <4>1
      <4>3. Queue[k - 1] = buffer[Slot(Place(k - 1))]
        BY <1>1, <4>1 DEF QueueFacts
      <4> QED BY <3>1, <3>2, <3>3, <3>5, <4>2, <4>3
    <3> QED BY <3>4, <3>5
  <2>5. ASSUME NEW k \in 1..(SizeOf + 1)  PROVE Queue'[k] = (<<x>> \o Queue)[k]
    BY <1>1, <2>1, <2>2, <2>4
  <2>6. Len(Queue') = Len(<<x>> \o Queue)
    BY <1>1, <1>3, <1>5, <2>2 DEF QueueFacts
  <2> QED BY <1>3, <1>5, <2>2, <2>5, <2>6, SeqEqual DEF QueueFacts
<1>7. Len(Queue) < Size /\ out' = <<>>
  BY <1>1 DEF QueueFacts, Numbers, Unpop
<1> QED BY <1>4, <1>6, <1>7 DEF Deque!Unpop, Queue

LEMMA PeekIsPeek ==
  ASSUME TypeOK, Front \/ Back
  PROVE  TypeOK' /\ (Divides \/ ~Straddles' => Deque!Peek)
<1>1. QueueFacts /\ Distance /\ SizeOf \in 1..Size /\ Numbers
  BY Facts, AreNumbers, SizeAssumption DEF Front, Back, Empty
<1>2. Queue[1] = buffer[Slot(read)] /\ Queue[1] \in Items
  BY <1>1, FirstIsOldest
<1>3. SlotBefore(write) \in Slots
  <2>1. \A a \in Int : a % Size \in Slots
    BY <1>1, Division DEF Numbers, Slots
  <2>2. /\ CounterMax % Size \in Int
        /\ (CounterMax % Size) * (CounterMax % Size) - 1 \in Int
    BY <1>1, Division DEF Numbers
  <2> QED BY <1>1, <2>1, <2>2 DEF SlotBefore, Slot, Numbers
<1>4. ASSUME Divides \/ ~Straddles
      PROVE  Queue[SizeOf] = buffer[SlotBefore(write)]
  <2>1. CASE write # 0
    <3>1. Place(SizeOf) = write - 1
      BY <1>1, <2>1 DEF Distance, Place, Turn, Numbers
    <3> QED BY <1>1, <2>1, <3>1 DEF QueueFacts, SlotBefore
  <2>2. CASE write = 0
    <3>1. Straddles /\ Place(SizeOf) = CounterMax - 1
      BY <1>1, <2>2 DEF Distance, Place, Turn, Numbers, Straddles
    <3>2. SlotBefore(write) = Slot(Place(SizeOf))
      BY <1>4, <2>2, <3>1, BeforeZero
    <3> QED BY <1>1, <3>2 DEF QueueFacts
  <2> QED BY <2>1, <2>2
<1>5. buffer' = buffer /\ read' = read /\ write' = write
  BY DEF Front, Back
<1>6. SizeOf' = SizeOf /\ Queue' = Queue /\ Straddles' = Straddles
  BY <1>5 DEF SizeOf, Queue, Straddles
<1>7. TypeOK'
  <2>1. ASSUME NEW x \in Items  PROVE <<x>> \in Seq(Items) /\ Len(<<x>>) <= 1
    OBVIOUS
  <2>2. buffer[SlotBefore(write)] \in Items
    BY <1>3 DEF TypeOK
  <2>3. out' = <<Queue[1]>> \/ out' = <<buffer[SlotBefore(write)]>>
    BY <1>2 DEF Front, Back
  <2>4. out' \in Seq(Items) /\ Len(out') <= 1
    BY <1>2, <2>1, <2>2, <2>3
  <2> QED BY <1>5, <1>6, <2>4 DEF TypeOK
<1>8. Divides \/ ~Straddles' =>
        /\ Queue # <<>>
        /\ out' = <<Queue[1]>> \/ out' = <<Queue[Len(Queue)]>>
        /\ Queue' = Queue
  <2>1. Queue # <<>>
    BY <1>1 DEF QueueFacts
  <2> QED BY <1>1, <1>2, <1>4, <1>6, <2>1 DEF QueueFacts, Front, Back
<1> QED BY <1>7, <1>8 DEF Deque!Peek, Queue

(* A cleared ring is empty.                                                *)
LEMMA ZeroIsEmpty == TypeOK /\ read = write => SizeOf = 0 /\ Queue = <<>>
<1> SUFFICES ASSUME TypeOK, read = write PROVE SizeOf = 0 /\ Queue = <<>>
  OBVIOUS
<1>1. QueueFacts /\ Distance /\ Numbers
  BY Facts, AreNumbers
<1>2. SizeOf = 0
  BY <1>1 DEF Distance, Numbers
<1> QED BY <1>1, <1>2, EmptySeq DEF QueueFacts

LEMMA ClearIsClear ==
  ASSUME TypeOK, Clear
  PROVE  TypeOK' /\ Deque!Clear
<1>1. read' \in Counters /\ write' \in Counters /\ read' = 0 /\ write' = 0
  BY SizeAssumption DEF Clear, Counters
<1>2. SizeOf' = 0
  <2>1. InRange'
    BY <1>1 DEF InRange
  <2>2. Distance'
    BY <2>1, SizeIsDistance, PTL
  <2> QED BY <1>1, <2>2 DEF Distance
<1>3. TypeOK'
  BY <1>1, <1>2, SizeAssumption, EmptySeq DEF Clear, TypeOK
<1>4. QueueFacts'
  BY <1>3, Facts, PTL
<1>5. Queue' = <<>>
  BY <1>2, <1>4, EmptySeq DEF QueueFacts
<1> QED BY <1>3, <1>5 DEF Clear, Deque!Clear, Queue

-----------------------------------------------------------------------------
LEMMA InitEstablishes == Init => TypeOK /\ Deque!DInit
<1> SUFFICES ASSUME Init PROVE TypeOK /\ Deque!DInit
  OBVIOUS
<1>1. read \in Counters /\ write \in Counters
  BY SizeAssumption DEF Init, Counters
<1>2. SizeOf = 0
  BY <1>1, SizeIsDistance DEF Init, InRange, Distance
<1>3. TypeOK
  BY <1>1, <1>2, SizeAssumption, EmptySeq DEF Init, TypeOK
<1> QED BY <1>3, ZeroIsEmpty DEF Init, Deque!DInit, Queue

(* A step of the ring, of the queue too unless it makes the ring straddle. *)
Keeps == (Divides \/ ~Straddles') => Deque!DNext

LEMMA StepImplements ==
  TypeOK /\ [Next]_vars => TypeOK' /\ [Keeps]_(Deque!dvars)
<1> SUFFICES ASSUME TypeOK, [Next]_vars
             PROVE  TypeOK' /\ [Keeps]_(Deque!dvars)
  OBVIOUS
<1> USE DEF Keeps
<1>1. CASE Clear
  BY <1>1, ClearIsClear DEF Deque!DNext
<1>2. CASE Pop
  <2>1. TypeOK' /\ Deque!Pop(1) /\ 1 \in 1..Size
    BY <1>2, PopIsPop, SizeAssumption
  <2> QED BY <2>1 DEF Deque!DNext
<1>3. CASE Unpush
  BY <1>3, UnpushIsUnpush DEF Deque!DNext
<1>4. CASE Front \/ Back
  BY <1>4, PeekIsPeek DEF Deque!DNext
<1>5. ASSUME NEW x \in Items, Push(x)
      PROVE  TypeOK' /\ [Keeps]_(Deque!dvars)
  <2>1. TypeOK' /\ (Divides \/ ~Straddles' => Deque!Push(<<x>>))
    BY <1>5, PushIsPush
  <2>2. 1 \in 1..Size /\ <<x>> \in [1..1 -> Items]
    BY SizeAssumption
  <2>3. Deque!Push(<<x>>) =>
          \E n \in 1..Size : \E data \in [1..n -> Items] : Deque!Push(data)
    BY <2>2, Zenon
  <2> QED BY <2>1, <2>3 DEF Deque!DNext
<1>6. ASSUME NEW x \in Items, Unpop(x)
      PROVE  TypeOK' /\ [Keeps]_(Deque!dvars)
  BY <1>6, UnpopIsUnpop DEF Deque!DNext
<1>7. CASE UNCHANGED vars
  <2>1. TypeOK' /\ Queue' = Queue
    BY <1>7 DEF vars, TypeOK, SizeOf, Queue
  <2> QED BY <1>7, <2>1 DEF vars, Deque!dvars, Queue
<1> QED BY <1>1, <1>2, <1>3, <1>4, <1>5, <1>6, <1>7 DEF Next

-----------------------------------------------------------------------------
(* For every size below the range of the counters, they never drift further *)
(* apart than the ring has slots, whichever of them has wrapped.            *)
THEOREM TypeCorrect == Spec => []TypeOK
<1>1. Init => TypeOK
  BY InitEstablishes
<1>2. TypeOK /\ [Next]_vars => TypeOK'
  BY StepImplements
<1> QED BY <1>1, <1>2, PTL DEF Spec

(* The macros implement the bounded queue for every size, through any number *)
(* of wraps: in all steps if the size divides the range of the counters, and *)
(* for the rings of 3 of wlan_uart_utils.h:10 in all that do not leave the   *)
(* write counter wrapped ahead of the read counter.                          *)
THEOREM RingIsAQueue == Spec => ImplementsDeque
<1>1. Init => Deque!DInit
  BY InitEstablishes
<1>2. TypeOK /\ [Next]_vars => [Keeps]_(Deque!dvars)
  BY StepImplements
<1>3. ImplementsDeque <=> Deque!DInit /\ [][Keeps]_(Deque!dvars)
  BY DEF ImplementsDeque, Keeps
<1> QED BY <1>1, <1>2, <1>3, TypeCorrect, PTL DEF Spec
=============================================================================
