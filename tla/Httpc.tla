------------------------------- MODULE Httpc -------------------------------
(***************************************************************************)
(* The HTTP client of code/net/httpc: a request, and the response read in  *)
(* pieces of the caller's buffer (httpc_core.c, httpc_api.c), for its two  *)
(* kinds of caller: httpc_common, which reads one piece and closes, and    *)
(* the update of code/atcmd/at_test/ota_test.c, which makes a client of    *)
(* its own, reads all the pieces and does not close.                       *)
(*                                                                         *)
(* A response is a sequence of tokens: the status line, header lines told  *)
(* apart by what the parser makes of them, chunk sizes, line ends and the  *)
(* bytes of the body.  How the network cuts it is the network's choice, at *)
(* every receive; a line that is cut has its text in one part and its end  *)
(* in the other.  Lengths are counted in tokens.                           *)
(***************************************************************************)
EXTENDS Integers, Sequences, SequencesExt, Folds

CONSTANTS Chunk,       \* HTTPC_CHUNK_SIZE - 1, what the local buffer holds
          Room,        \* response_buf_len - 1
          Responses,   \* what a server may answer
          Misread,     \* the sizes that body bytes may spell in hexadecimal
          MaxRequests, \* bound on the requests made
          Sockets      \* MEMP_NUM_NETCONN

(* The callers' buffers, 1024 and 2048 bytes, are larger than the local one. *)
ASSUME SizesAssumption ==
  /\ {Chunk, Room, MaxRequests, Sockets} \subseteq Nat \ {0}
  /\ Chunk <= Room
  /\ Misread \subseteq Nat
  /\ Responses \subseteq [framing : {"length", "chunked", "close"},
                          bare : BOOLEAN, sizes : Seq(Nat \ {0})]

VARIABLES
  req,       \* the requests made so far; the last one is of
  user,      \*   this caller, "common" or "ota", and is answered
  resp,      \*   by this response, of which
  sent,      \*   so many tokens are sent before the peer is silent, and
  peer,      \*   then stays "open", is "closed", or has "reset"
  wire,      \* the tokens that are sent and not yet received
  held,      \* the sockets that are open
  connected, \* client->socket is one of them
  is_more, is_chunked, retrieve_len, response_content_len,
  code,      \* client->response_code: of which request, 0 for none
  buffer,    \* response_buf, up to its NUL
  pc,        \* where the client is
  data,      \* buf of httpc_recv_response, len tokens of it
  count,     \* what is in the buffer of this piece
  readLen,   \* what is left of the chunk or body
  result,    \* what the last call returned
  delivered, \* history: what the caller has been handed for this request
  stale,     \* history: is_more was left over when the request was made
  attempts   \* history: the updates that got a socket

client == <<is_more, is_chunked, retrieve_len, response_content_len, code>>
request == <<req, user, resp, sent, stale, attempts, held, connected>>
local == <<data, count, readLen>>
vars == <<request, peer, wire, client, buffer, pc, local, result, delivered>>

-----------------------------------------------------------------------------
(* Responses.                                                              *)

Token(kind) == [kind |-> kind, n |-> 0]
Crlf == Token("crlf")
Byte(r, i) == [kind |-> "byte", n |-> 100 * r + i]
Size(s) == [kind |-> "size", n |-> s]

Sum(s) == FoldLeft(LAMBDA x, y : x + y, 0, s)
Body(r, a) == [i \in 1..Sum(a.sizes) |-> Byte(r, i)]

(* The header lines end in an empty one; a bare line has a colon and no    *)
(* space behind it.                                                        *)
Header(a) ==
  <<Token("status"), Crlf>>
    \o (IF a.bare THEN <<Token("bare"), Crlf>> ELSE <<>>)
    \o <<[kind |-> a.framing, n |-> Sum(a.sizes)], Crlf, Crlf>>

Content(r, a) ==
  IF a.framing # "chunked" THEN Body(r, a)
  ELSE FlattenSeq([c \in 1..Len(a.sizes) |->
                     <<Size(a.sizes[c]), Crlf>>
                       \o SubSeq(Body(r, a), 1 + Sum(SubSeq(a.sizes, 1, c - 1)),
                                 Sum(SubSeq(a.sizes, 1, c)))
                       \o <<Crlf>>])
         \o <<Size(0), Crlf, Crlf>>

Stream(r, a) == Header(a) \o Content(r, a)

-----------------------------------------------------------------------------
NoResponse == [framing |-> "close", bare |-> FALSE, sizes |-> <<>>]

Init ==
  /\ req = 0 /\ user = "common" /\ resp = NoResponse /\ sent = 0
  /\ peer = "closed" /\ wire = <<>>
  /\ held = 0 /\ connected = FALSE
  /\ is_more = FALSE /\ is_chunked = FALSE
  /\ retrieve_len = 0 /\ response_content_len = 0 /\ code = 0
  /\ buffer = <<>> /\ pc = "idle"
  /\ data = <<>> /\ count = 0 /\ readLen = 0
  /\ result = "ok" /\ delivered = <<>>
  /\ stale = FALSE /\ attempts = 0

(* A request: by httpc_common with the client it was given, new or used    *)
(* before, or by an update, which makes its own.  httpc_connect and        *)
(* httpc_send_request touch nothing of the client but the socket.          *)
Ask(u, new) ==
  /\ pc = "idle" /\ req < MaxRequests
  /\ u = "ota" => new
  /\ req' = req + 1 /\ user' = u /\ delivered' = <<>>
  /\ stale' = (is_more /\ ~new)
  /\ data' = <<>> /\ count' = 0 /\ readLen' = 0
  /\ IF new
       THEN /\ is_more' = FALSE /\ is_chunked' = FALSE /\ code' = 0
            /\ retrieve_len' = 0 /\ response_content_len' = 0
            /\ buffer' = <<>>
       ELSE UNCHANGED <<client, buffer>>

httpc_connect(u) ==
  /\ held < Sockets
  /\ held' = held + 1 /\ connected' = TRUE
  /\ attempts' = attempts + (IF u = "ota" THEN 1 ELSE 0)

Begin(more) == IF more THEN "continue" ELSE "first"

(* The request is sent, and the server answers some of its response.       *)
Request(u, new, a) ==
  /\ Ask(u, new)
  /\ httpc_connect(u)
  /\ resp' = a
  /\ \E t \in 0..Len(Stream(req', a)) :
       /\ sent' = t
       /\ wire' = SubSeq(Stream(req', a), 1, t)
       /\ peer' \in IF t = Len(Stream(req', a)) THEN {"open", "closed"}
                    ELSE {"closed"}
  /\ pc' = Begin(is_more') /\ result' = "ok"

(* No connection, or one that breaks under the request.                    *)
RequestFails(u, new) ==
  /\ Ask(u, new)
  /\ \/ httpc_connect(u)
     \/ UNCHANGED <<held, attempts>> /\ connected' = FALSE
  /\ resp' = NoResponse /\ sent' = 0 /\ wire' = <<>> /\ peer' = "reset"
  /\ pc' = "done" /\ result' = "conn"

(* The peer resets the connection: what it sent and is not yet read is     *)
(* lost.  Only a receive can tell when.                                    *)
Reset ==
  /\ pc \in {"first", "header", "wait", "size", "body", "end"}
  /\ peer # "reset"
  /\ peer' = "reset" /\ wire' = <<>>
  /\ UNCHANGED <<request, client, buffer, pc, local, result, delivered>>

-----------------------------------------------------------------------------
(* httpc_recv: waits for min tokens, takes what is there up to max.  It    *)
(* returns k of them, fewer than min if the peer has closed, or "conn"     *)
(* for an error.  An error or an end it meets when it need not wait is     *)
(* left for the next call.                                                 *)
httpc_recv_NoWait(min, max, k, r) ==  \* mutated form: returns at once
  /\ k \in 0..Len(wire) /\ k <= max
  /\ r = "ok"
  /\ wire' = SubSeq(wire, k + 1, Len(wire))

httpc_recv(min, max, k, r) ==
  /\ k \in 0..Len(wire) /\ k <= max
  /\ IF k >= min THEN r = "ok"
     ELSE /\ k = Len(wire)
          /\ \/ peer = "closed" /\ r = "ok"
             \/ peer = "reset" /\ r = "conn"
  /\ wire' = SubSeq(wire, k + 1, Len(wire))

Came(k) == SubSeq(wire, 1, k)
Rest(s, n) == SubSeq(s, n + 1, Len(s))

Return(r, piece) ==
  /\ pc' = "done" /\ result' = r
  /\ delivered' = IF r \in {"ok", "more"} THEN delivered \o piece ELSE delivered
  /\ data' = <<>> /\ UNCHANGED <<count, readLen>>

Go(place, d) ==
  /\ pc' = place /\ data' = d
  /\ UNCHANGED <<result, delivered>>

Begins_Signed(chunked, len, left) ==  \* mutated form: 0 is not the end
  IF len = -1 /\ ~chunked THEN "raw"
  ELSE IF chunked /\ left < 0 THEN "size" ELSE "copy"

(* Where httpc_retrieve_content begins, and where it begins a chunk.       *)
Begins(chunked, len, left) ==
  IF len = -1 /\ ~chunked THEN "raw"
  ELSE IF chunked /\ left <= 0 THEN "size" ELSE "copy"

(* n tokens of data go to the response buffer.                             *)
Copied(n) == SubSeq(buffer, 1, count) \o SubSeq(data, 1, n)
Copy_Restarts(n) ==  \* mutated form: the count is not taken on
  /\ buffer' = SubSeq(data, 1, n) /\ count' = count + n

Copy(n) ==
  /\ buffer' = Copied(n) /\ count' = count + n

-----------------------------------------------------------------------------
(* httpc_recv_response.  Nothing received is not parsed, and no error.     *)
First ==
  /\ pc = "first"
  /\ \E k \in 0..Chunk, r \in {"ok", "conn"} :
       /\ httpc_recv(1, Chunk, k, r)
       /\ IF r = "conn" \/ k = 0 THEN Return(r, buffer)
          ELSE Go("status", Came(k)) /\ UNCHANGED <<count, readLen>>
  /\ UNCHANGED <<request, peer, client, buffer>>

Continue ==
  /\ pc = "continue"
  /\ buffer' = <<>> /\ count' = 0 /\ readLen' = retrieve_len
  /\ Go(Begins(is_chunked, response_content_len, retrieve_len), <<>>)
  /\ UNCHANGED <<request, peer, wire, client>>

(* httpc_response_parse: the first line must have come whole.              *)
Status ==
  /\ pc = "status"
  /\ response_content_len' = -1
  /\ IF Len(data) >= 2 /\ data[1].kind = "status" /\ data[2] = Crlf
       THEN /\ code' = req /\ is_chunked' = FALSE
            /\ Go("header", Rest(data, 2)) /\ UNCHANGED <<count, readLen>>
       ELSE /\ Return("prtcl", <<>>)
            /\ UNCHANGED <<code, is_chunked>>
  /\ UNCHANGED <<request, peer, wire, is_more, retrieve_len, buffer>>

Lines == {"length", "chunked", "close", "bare"}

HasCrlf(s) == \E i \in DOMAIN s : s[i] = Crlf
HasColon(s) == \E i \in DOMAIN s : s[i].kind \in Lines \ {"bare"}

(* One turn of the header loop: more to receive, the end, or a line.  The  *)
(* colon may be found in a line behind the one at hand; a length seen so   *)
(* is not one.  A receive that brings nothing is another turn.             *)
HeaderReceive ==
  /\ pc = "header" /\ ~HasCrlf(data)
  /\ IF Len(data) < Chunk
       THEN \E k \in 0..Chunk, r \in {"ok", "conn"} :
              /\ httpc_recv(1, Chunk - Len(data), k, r)
              /\ IF r = "conn" THEN Return(r, <<>>)
                 ELSE /\ Go("header", data \o Came(k))
                      /\ UNCHANGED <<count, readLen>>
       ELSE Return("xx", <<>>) /\ UNCHANGED wire
  /\ UNCHANGED <<request, peer, client, buffer>>

HeaderEnd ==
  /\ pc = "header" /\ HasCrlf(data) /\ data[1] = Crlf
  /\ is_more' = TRUE
  /\ count' = 0 /\ readLen' = retrieve_len
  /\ Go(Begins(is_chunked, response_content_len, retrieve_len), Rest(data, 1))
  /\ UNCHANGED <<request, peer, wire, is_chunked, retrieve_len,
                 response_content_len, code, buffer>>

HeaderLine ==
  /\ pc = "header" /\ HasCrlf(data) /\ data[1] # Crlf
  /\ IF HasColon(data)
       THEN /\ IF data[1].kind \in {"length", "chunked"}
                 THEN /\ is_chunked' = (is_chunked \/ data[1].kind = "chunked")
                      /\ response_content_len' =
                           IF data[1].kind = "length" THEN data[1].n ELSE 0
                      /\ retrieve_len' = response_content_len'
                 ELSE UNCHANGED <<is_chunked, response_content_len,
                                  retrieve_len>>
            /\ Go("header", Rest(data, 2)) /\ UNCHANGED <<count, readLen>>
       ELSE /\ Return("xx", <<>>)
            /\ UNCHANGED <<is_chunked, response_content_len, retrieve_len>>
  /\ UNCHANGED <<request, peer, wire, is_more, code, buffer>>

-----------------------------------------------------------------------------
(* httpc_retrieve_content without a length: until the peer closes.         *)
RawCopy ==
  /\ pc = "raw"
  /\ IF count + Len(data) < Room
       THEN Copy(Len(data)) /\ Go("wait", <<>>) /\ UNCHANGED readLen
       ELSE /\ buffer' = Copied(Room - count)
            /\ Return("more", buffer')
  /\ UNCHANGED <<request, peer, wire, client>>

RawReceive ==
  /\ pc = "wait"
  /\ \E k \in 0..Chunk, r \in {"ok", "conn"} :
       /\ httpc_recv(1, Min({Chunk, Room - count}), k, r)
       /\ IF r = "conn" THEN Return(r, <<>>) /\ UNCHANGED is_more
          ELSE IF k = 0 THEN is_more' = FALSE /\ Return("ok", buffer)
          ELSE /\ Go("raw", Came(k)) /\ UNCHANGED <<is_more, count, readLen>>
  /\ UNCHANGED <<request, peer, is_chunked, retrieve_len,
                 response_content_len, code, buffer>>

SizeAt_Far(s) == {i \in 1..Len(s) - 2 : s[i] = Crlf}  \* mutated form

(* The line with the size of a chunk is only seen once something follows   *)
(* it; until then the loop polls.  What is read there that is no size is   *)
(* an error, or is taken for one.                                          *)
SizeAt(s) == {i \in 1..Len(s) - 1 : s[i] = Crlf}
Sizes(s) == IF s[1].kind = "size" THEN {s[1].n}
            ELSE IF s[1].kind = "byte" THEN Misread \union {-1} ELSE {-1}

SizePoll ==
  /\ pc = "size" /\ SizeAt(data) = {}
  /\ \E k \in 0..Chunk :
       /\ httpc_recv(0, Chunk - Len(data), k, "ok")
       /\ Go("size", data \o Came(k))
  /\ UNCHANGED <<request, peer, client, buffer, count, readLen>>

SizeRead ==
  /\ pc = "size" /\ SizeAt(data) # {}
  /\ \E n \in Sizes(data) :
       /\ retrieve_len' = IF n = -1 THEN 0 ELSE n
       /\ response_content_len' = response_content_len + retrieve_len'
       /\ is_more' = (n # 0)
       /\ IF n = -1 THEN Return("prtcl", <<>>)
          ELSE IF n = 0 THEN Return("ok", buffer)
          ELSE /\ readLen' = n
               /\ Go("copy", Rest(data, Min(SizeAt(data))))
               /\ UNCHANGED count
  /\ UNCHANGED <<request, peer, wire, is_chunked, code, buffer>>

(* A part of a chunk or of a body whose length is known.  A full buffer    *)
(* ends the call, and what data still holds is gone.                       *)
CopyPart ==
  /\ pc = "copy"
  /\ LET n == Min({Len(data), readLen})
     IN IF count + n < Room
          THEN /\ Copy(n)
               /\ retrieve_len' = retrieve_len - n
               /\ readLen' = readLen - n
               /\ IF readLen' > 0
                    THEN Go("body", <<>>) /\ UNCHANGED is_more
                  ELSE IF is_chunked
                    THEN Go("end", Rest(data, n)) /\ UNCHANGED is_more
                  ELSE /\ is_more' = FALSE
                       /\ pc' = "done" /\ result' = "ok" /\ data' = <<>>
                       /\ delivered' = delivered \o buffer'
          ELSE /\ buffer' = Copied(Room - count)
               /\ retrieve_len' = retrieve_len - (Room - count)
               /\ Return("more", buffer') /\ UNCHANGED is_more
  /\ UNCHANGED <<request, peer, wire, is_chunked, response_content_len, code>>

(* A receive that brings nothing is another turn of the loop.              *)
BodyReceive ==
  /\ pc = "body"
  /\ \E k \in 0..Chunk, r \in {"ok", "conn"} :
       /\ httpc_recv(1, Min({Chunk, Room - count, readLen}), k, r)
       /\ IF r = "conn" THEN Return(r, <<>>)
          ELSE /\ Go(IF k = 0 THEN "body" ELSE "copy", Came(k))
               /\ UNCHANGED <<count, readLen>>
  /\ UNCHANGED <<request, peer, client, buffer>>

(* The end of a chunk, received if it is not there, must be a line's end.  *)
ChunkEnd ==
  /\ pc = "end"
  /\ \E k \in 0..Chunk, r \in {"ok", "conn"} :
       /\ IF data = <<>> THEN httpc_recv(1, Chunk, k, r)
          ELSE k = 0 /\ r = "ok" /\ UNCHANGED wire
       /\ LET d == data \o Came(k)
          IN IF r = "conn" THEN Return(r, <<>>)
             ELSE IF d # <<>> /\ d[1] = Crlf
               THEN Go("size", Rest(d, 1)) /\ UNCHANGED <<count, readLen>>
             ELSE Return("prtcl", <<>>)
  /\ UNCHANGED <<request, peer, client, buffer>>

-----------------------------------------------------------------------------
(* The caller, when the call has returned.                                 *)

(* ota_http_download_new_fw asks again for as long as there is more.       *)
Again ==
  /\ pc = "done" /\ user = "ota" /\ connected
  /\ result = "more" /\ code = req
  /\ pc' = Begin(is_more)
  /\ UNCHANGED <<request, peer, wire, client, buffer, local, result, delivered>>

httpc_close_IfOk ==  \* mutated form: closed only after a good response
  /\ pc = "done" /\ user = "common"
  /\ pc' = "idle"
  /\ held' = held - (IF connected /\ result \in {"ok", "more"} THEN 1 ELSE 0)
  /\ connected' = FALSE
  /\ UNCHANGED <<req, user, resp, sent, stale, attempts, peer, wire, client,
                 buffer, local, result, delivered>>

(* httpc_common closes, whatever happened; it returns "more" as "ok".      *)
httpc_close ==
  /\ pc = "done" /\ user = "common"
  /\ pc' = "idle"
  /\ held' = held - (IF connected THEN 1 ELSE 0)
  /\ connected' = FALSE
  /\ UNCHANGED <<req, user, resp, sent, stale, attempts, peer, wire, client,
                 buffer, local, result, delivered>>

(* ota_http_deinit_params frees the client and does not close.             *)
ota_http_deinit_params ==
  /\ pc = "done" /\ user = "ota"
  /\ ~(connected /\ result = "more" /\ code = req)
  /\ pc' = "idle" /\ connected' = FALSE
  /\ UNCHANGED <<req, user, resp, sent, stale, attempts, held, peer, wire,
                 client, buffer, local, result, delivered>>

Receive == \/ First \/ Continue \/ Status
           \/ HeaderReceive \/ HeaderEnd \/ HeaderLine
           \/ RawCopy \/ RawReceive
           \/ SizePoll \/ SizeRead \/ CopyPart \/ BodyReceive \/ ChunkEnd

Next ==
  \/ \E u \in {"common", "ota"}, new \in BOOLEAN :
       RequestFails(u, new) \/ \E a \in Responses : Request(u, new, a)
  \/ Reset
  \/ Receive
  \/ Again
  \/ httpc_close
  \/ ota_http_deinit_params

(* The task that called runs; tokens that are sent arrive.                 *)
Fairness == WF_vars(Receive)

Spec == Init /\ [][Next]_vars /\ Fairness

-----------------------------------------------------------------------------
Total == Sum(resp.sizes)
Cut == sent < Len(Stream(req, resp))
Overflows == resp.framing = "chunked" /\ Total >= Room

(* What the caller was handed so far is the beginning of the body, with no *)
(* byte missing, twice or of another response, and every piece that says   *)
(* there is more fills the buffer, wherever the network cut the response   *)
(* (httpc_core.c:561-625, 661-699): what the update counts on.  Except:    *)
(* is_more was left over; the bytes of a chunked body that did not fit are *)
(* lost (httpc_core.c:673); nothing came, or an empty chunked body, and    *)
(* the buffer still holds an earlier one (httpc_api.c:380, 651).           *)
PiecesAreTheBody ==
  \/ stale \/ Overflows \/ sent = 0
  \/ resp.framing = "chunked" /\ Total = 0
  \/ /\ IsPrefix(delivered, Body(req, resp))
     /\ (pc = "done" /\ result = "more") => Len(buffer) = Room

(* A response that ends well was read whole, and its code is its own.      *)
(* Except as above, and when the peer closes early and only its closing    *)
(* was to tell the end.                                                    *)
OkMeansWhole ==
  (pc = "done" /\ result = "ok") =>
    \/ stale \/ Overflows \/ sent = 0
    \/ resp.framing = "close" /\ Cut
    \/ resp.framing = "chunked" /\ Total = 0
    \/ delivered = Body(req, resp) /\ code = req

(* A response is not refused for how the network cut it, but for a first   *)
(* line that did not come whole (httpc_core.c:745) or a header line        *)
(* without a space behind its colon (httpc_core.c:827): otherwise the      *)
(* connection broke, the peer closed within a chunked body, or the body    *)
(* did not fit.                                                            *)
ErrorsHaveAReason ==
  (pc = "done" /\ result \in {"conn", "prtcl", "xx"}) =>
    \/ peer = "reset" \/ Overflows
    \/ result = "prtcl" /\ code # req
    \/ result = "xx" /\ resp.bare
    \/ result = "prtcl" /\ resp.framing = "chunked" /\ Cut

(* A call that receives returns, if the peer sends all of its response and *)
(* closes where only that tells the end.  A peer that closes earlier       *)
(* leaves the caller in a loop for ever (httpc_core.c:692, 786, 607), and  *)
(* so does a chunked body that did not fit.                                *)
ReceiveEnds ==
  (pc \notin {"idle", "done"} /\ ~Cut) ~>
    (pc \in {"idle", "done"} \/ peer = "reset" \/ stale \/ Overflows
       \/ (resp.framing = "close" /\ peer = "open"))

(* Whatever fails, a request made through httpc_common gives its socket    *)
(* back, and each update attempt that got one keeps it for ever            *)
(* (ota_test.c:660), successful or not.                                    *)
SocketsComeBack ==
  held = attempts + (IF connected /\ user = "common" THEN 1 ELSE 0)
=============================================================================
