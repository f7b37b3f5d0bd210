---------------------------- MODULE PieceSource ----------------------------
(***************************************************************************)
(* What joins the HTTP client and the update (ota_http_download_new_fw):   *)
(* a file of known length comes in pieces, in order, each as long as the   *)
(* buffer but the last, until the connection breaks.  A piece as long as   *)
(* the buffer is never known to be the last: if nothing is left behind it, *)
(* one more is taken, and that one is counted as long as the whole file.   *)
(* The client is to keep it, and the update is driven by it.               *)
(***************************************************************************)
EXTENDS Integers

CONSTANT Piece  \* the bytes of a full piece

VARIABLES file,   \* the length of the file
          pos,    \* the bytes of it that were taken
          total,  \* the bytes that were counted
          state   \* "idle", "more", "whole" or "broken"

svars == <<file, pos, total, state>>

SInit == file \in Nat /\ pos = 0 /\ total = 0 /\ state = "idle"

Ask ==
  /\ state # "more"
  /\ file' \in Nat
  /\ pos' = 0 /\ total' = 0 /\ state' = "more"

Shorter(a, b) == IF a < b THEN a ELSE b

NextLen == IF pos = file THEN file ELSE Shorter(Piece, file - pos)

Count ==
  /\ state = "more"
  /\ pos' = Shorter(pos + NextLen, file)
  /\ total' = total + NextLen
  /\ UNCHANGED file

Take ==
  /\ Count
  /\ state' = IF NextLen = Piece /\ pos < file THEN "more" ELSE "whole"

Break == state = "more" /\ state' = "broken" /\ UNCHANGED <<file, pos, total>>

\* The client is used for something else.
Forget == file' = 0 /\ pos' = 0 /\ total' = 0 /\ state' = "idle"

SNext == Ask \/ Take \/ Break \/ Forget

SSpec == SInit /\ [][SNext]_svars
=============================================================================
