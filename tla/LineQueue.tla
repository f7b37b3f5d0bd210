----------------------------- MODULE LineQueue -----------------------------
(***************************************************************************)
(* What the AT interpreter (at_cmd.c) promises a host that begins no line  *)
(* before the last one has been copied: the lines are run in the order in  *)
(* which they came, each once and after it came, and no more than two of   *)
(* them wait, the one in the task's hands and the one in the buffer.  Once *)
(* it is asked to end, one more is run: the next line, or what is in the   *)
(* buffer.  A host that does not wait is promised nothing.                 *)
(***************************************************************************)
EXTENDS Naturals, Sequences

VARIABLES came,  \* the lines that came
          ran,   \* what was run
          life   \* "serving", "ending", "over", or "void" when not promised

qvars == <<came, ran, life>>

Line(n) == [head |-> n, tail |-> n]

QInit == came = 0 /\ ran = <<>> /\ life = "serving"

Come ==
  /\ life # "void"
  /\ came < Len(ran) + 2
  /\ came' = came + 1
  /\ UNCHANGED <<ran, life>>

Ends == life' = IF life = "ending" THEN "over" ELSE life

Run ==
  /\ life \in {"serving", "ending"}
  /\ Len(ran) < came
  /\ ran' = Append(ran, Line(Len(ran) + 1))
  /\ Ends
  /\ UNCHANGED came

\* The wake-up that asks it to end: the last line, or with a new beginning.
RunBuffer ==
  /\ life = "ending"
  /\ \E n \in {Len(ran), Len(ran) + 1} :
        ran' = Append(ran, [head |-> n, tail |-> Len(ran)])
  /\ Ends
  /\ UNCHANGED came

AskToEnd ==
  /\ life = "serving"
  /\ life' \in {"ending", "over"}
  /\ UNCHANGED <<came, ran>>

Hurry ==
  /\ life # "void"
  /\ life' = "void" /\ came' = 0 /\ ran' = <<>>

QNext == Come \/ Run \/ RunBuffer \/ AskToEnd \/ Hurry

QSpec == QInit /\ [][QNext]_qvars
=============================================================================
