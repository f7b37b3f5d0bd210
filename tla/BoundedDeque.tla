---------------------------- MODULE BoundedDeque ----------------------------
(***************************************************************************)
(* What a ring buffer promises to a caller that checks for room before it  *)
(* pushes and for items before it pops: a sequence of at most Size items,  *)
(* oldest first.  out is what the last operation handed to the caller.     *)
(***************************************************************************)
EXTENDS Integers, Sequences

CONSTANTS Items, Size

VARIABLES queue, out

dvars == <<queue, out>>

DInit == queue = <<>> /\ out = <<>>

Push(data) ==
  /\ Len(queue) + Len(data) <= Size
  /\ queue' = queue \o data
  /\ out' = <<>>

Pop(n) ==
  /\ n <= Len(queue)
  /\ out' = SubSeq(queue, 1, n)
  /\ queue' = SubSeq(queue, n + 1, Len(queue))

\* Take the youngest item back.
Unpush ==
  /\ queue # <<>>
  /\ out' = <<queue[Len(queue)]>>
  /\ queue' = SubSeq(queue, 1, Len(queue) - 1)

\* Give an item back to the old end.
Unpop(x) ==
  /\ Len(queue) < Size
  /\ queue' = <<x>> \o queue
  /\ out' = <<>>

\* Look at one end.
Peek ==
  /\ queue # <<>>
  /\ out' = <<queue[1]>> \/ out' = <<queue[Len(queue)]>>
  /\ UNCHANGED queue

Clear == queue' = <<>> /\ out' = <<>>

DNext ==
  \/ \E n \in 1..Size :
       \/ Pop(n)
       \/ \E data \in [1..n -> Items] : Push(data)
  \/ \E x \in Items : Unpop(x)
  \/ Unpush \/ Peek \/ Clear

DSpec == DInit /\ [][DNext]_dvars
=============================================================================
