----------------------------- MODULE MCOtaLoop -----------------------------
(* A local buffer of five tokens and pieces of five: lines and bodies are  *)
(* cut everywhere, and a chunk can begin with more bytes at hand than the  *)
(* piece has room for.  The bodies are empty, smaller than a piece, as     *)
(* long as one and as two, and longer than one and than two; the chunks    *)
(* are such that losing two bytes can stay unseen to the next piece, to    *)
(* the end of the response and for ever.                                   *)
EXTENDS OtaLoop

Answer(f, b, s) == [framing |-> f, bare |-> b, sizes |-> s]

MCResponses ==
  {Answer("length", FALSE, s) : s \in {<<>>, <<5>>, <<6>>, <<10>>, <<11>>}}
    \union {Answer("length", TRUE, <<3>>)}
    \union {Answer("close", FALSE, s) : s \in {<<>>, <<5>>, <<6>>}}
    \union {Answer("chunked", FALSE, s) :
              s \in {<<>>, <<1, 2>>, <<5>>, <<4, 3>>, <<4, 3, 2>>, <<4, 8>>}}
=============================================================================
