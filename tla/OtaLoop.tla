------------------------------ MODULE OtaLoop ------------------------------
(***************************************************************************)
(* The loop of ota_http_download_new_fw (code/atcmd/at_test/ota_test.c)    *)
(* over the client of Httpc: how long each piece is that it gives to       *)
(* ota_write_flash_dual.  It asks nobody how much the buffer holds, but    *)
(* tells it from what is left of the response before and after the call.   *)
(***************************************************************************)
EXTENDS Httpc

VARIABLES
  rsp_content_len, last_retrieve_len, cur_data_len, total_recv_len,
  received,  \* what the download returned
  fed        \* history: the bytes of the file before the next piece

loop == <<rsp_content_len, last_retrieve_len, cur_data_len, total_recv_len,
          received, fed>>
uvars == <<vars, loop>>

UpdateInit ==
  /\ Init
  /\ rsp_content_len = 0 /\ last_retrieve_len = 0 /\ cur_data_len = 0
  /\ total_recv_len = 0 /\ received = -1 /\ fed = 0

(* The locals of the function begin at 0.                                  *)
Locals ==
  /\ rsp_content_len' = 0 /\ last_retrieve_len' = 0 /\ cur_data_len' = 0
  /\ total_recv_len' = 0 /\ received' = -1 /\ fed' = 0

Pass_Forgets ==  \* mutated form: what is left is not kept for the next pass
  /\ rsp_content_len' = response_content_len
  /\ cur_data_len' = response_content_len - retrieve_len
  /\ total_recv_len' = total_recv_len + cur_data_len'
  /\ fed' = Min({fed + cur_data_len', Total})
  /\ UNCHANGED last_retrieve_len

(* A pass whose receive went well: 0 left of the response is taken for the *)
(* first pass.                                                             *)
Pass ==
  /\ rsp_content_len' = IF last_retrieve_len = 0 THEN response_content_len
                        ELSE rsp_content_len
  /\ cur_data_len' = (IF last_retrieve_len = 0 THEN rsp_content_len'
                      ELSE last_retrieve_len) - retrieve_len
  /\ total_recv_len' = total_recv_len + cur_data_len'
  /\ last_retrieve_len' = retrieve_len
  /\ fed' = Min({fed + cur_data_len', Total})

GoesWell == pc = "done" /\ user = "ota" /\ connected
              /\ result \in {"ok", "more"} /\ code = req

(* The end of the download; its result if the last write did not fail.     *)
LastPass ==
  /\ Pass
  /\ received' = IF rsp_content_len' = total_recv_len' THEN total_recv_len'
                 ELSE -1

UpdateNext ==
  \/ /\ \E u \in {"common", "ota"}, new \in BOOLEAN :
          RequestFails(u, new) \/ \E a \in Responses : Request(u, new, a)
     /\ Locals
  \/ (Reset \/ Receive \/ httpc_close) /\ UNCHANGED loop
  \/ Again /\ Pass /\ UNCHANGED received
  \/ ota_http_deinit_params /\ GoesWell /\ LastPass
  \/ ota_http_deinit_params /\ ~GoesWell /\ UNCHANGED loop

UpdateSpec == UpdateInit /\ [][UpdateNext]_uvars /\ Fairness

-----------------------------------------------------------------------------
(* An update whose file comes with its length.                             *)
Sourced == user = "ota" /\ resp.framing = "length"

Source == INSTANCE PieceSource WITH
  Piece <- Room,
  file <- IF Sourced THEN Total ELSE 0,
  pos <- IF Sourced THEN fed ELSE 0,
  total <- IF Sourced THEN total_recv_len ELSE 0,
  state <- IF ~Sourced THEN "idle"
           ELSE IF pc # "idle" THEN "more"
           ELSE IF result = "ok" /\ code = req THEN "whole" ELSE "broken"

(* What the loop takes the pieces to be, from what is left of the response *)
(* before and after each call (ota_test.c:573-581), is how they come: in   *)
(* order, each full but the last, however the network cuts the response.   *)
ImplementsSource == Source!SSpec

(* What ota_write_flash_dual is given are the bytes of the file that       *)
(* follow those it was given, as many as the buffer holds                  *)
(* (ota_test.c:584), until all of the file was given.                      *)
PiecesAreInPlace ==
  [][(Sourced /\ GoesWell /\ pc' # pc /\ fed < Total) =>
       /\ cur_data_len' = Len(buffer)
       /\ \A i \in 1..Len(buffer) : buffer[i] = Byte(req, fed + i)]_uvars

(* A download is taken for one only if it was all of the file, also        *)
(* without a length (ota_test.c:594), but for a chunked one that does not  *)
(* fit; and one with a length that ended well is, but for a file that      *)
(* fills its last piece (ota_test.c:573).                                  *)
ReceivedIsAll ==
  (pc = "idle" /\ user = "ota") =>
    /\ received > 0 => Overflows \/ delivered = Body(req, resp)
    /\ (Sourced /\ result = "ok" /\ code = req) =>
         received = Total \/ Total % Room = 0
=============================================================================
