----------------------------- MODULE OtaStream -----------------------------
(***************************************************************************)
(* How an update file becomes a firmware partition: the loop of            *)
(* ota_http_download_new_fw over ota_write_flash_dual and                  *)
(* ota_skip_and_get_ota_header (code/atcmd/at_test/ota_test.c), and the    *)
(* check of the result (ota_check_image, code/utils/ota_hash.c).           *)
(*                                                                         *)
(* A file carries a header and an image for the first partition, then a    *)
(* header and an image for the second.  Its bytes are told apart by their  *)
(* place in the file.  A header says for which partition the image that    *)
(* follows was built and how long it is; what H bytes elsewhere in the     *)
(* file say when they are taken for a header is any of Junk.  Image        *)
(* lengths include the tail, TailLen bytes that cannot be forged.          *)
(***************************************************************************)
EXTENDS Integers

CONSTANTS H,         \* OTA_ENCAP_HEADER_LEN
          B,         \* the bytes a full response buffer holds
          S,         \* SECTOR_SIZE
          P,         \* the size of a partition
          TailLen,   \* sizeof(ota_image_t)
          ImageLens, \* lengths an image can have
          Junk       \* what bytes that are no header may say

ASSUME LayoutAssumption ==
  /\ {H, B, S, P, TailLen} \subseteq Nat \ {0}
  /\ H < B /\ B < S /\ P % S = 0
  /\ ImageLens \subseteq {n \in Nat : n > TailLen}
  /\ Junk # {} /\ Junk \subseteq [addr : {0, 1, 2}, bin : Int, ota : BOOLEAN]

(* Bytes of flash that are not bytes of the file.                          *)
Blank == -1     \* erased
Zero == -2      \* written as zero
Garbage == -3   \* whatever the memory of flash_buf held

VARIABLES
  len,      \* len[k] is the length of the image for partition k
  target,   \* the partition, 1 or 2, that g_st_ota_flash is set to
  phase,    \* "idle", "loop", "verified", "rejected", "lost" or "wild"
  pos,      \* the bytes of the file received in this attempt
  total,    \* total_recv_len
  hdr,      \* ota_header: how much of it is filled, from which place of
            \* the file, and what it says if that is not a header's place
  skipped,  \* s_cur_skipped_len, a static that no attempt resets
  offset,   \* g_st_ota_flash.offset
  buf,      \* flash_buf
  flash,    \* the partition
  ret,      \* what the last ota_write_flash_dual returned
  before,   \* history: skipped when this attempt began
  starved   \* history: the check of this attempt got no memory

streamvars == <<len, target, phase, pos, total, hdr, skipped, offset, buf, flash,
                ret, before, starved>>

Start(k) == IF k = 1 THEN 0 ELSE H + len[1]  \* where header k is in the file
FileLen == 2 * H + len[1] + len[2]
Nowhere == -4                               \* the place of a zeroed header

(* The header with l bytes filled, from the place a of the file.           *)
Filled(l, a) == [len |-> l, at |-> a, junk |-> hdr.junk]

Min2(a, b) == IF a < b THEN a ELSE b

(* The items of a full header, pst_ota_hdr->addr and ->len and bin_size.   *)
ItemOf(h) ==
  IF h.at = Nowhere THEN [addr |-> 0, bin |-> TailLen, ota |-> FALSE]
  ELSE IF \E k \in {1, 2} : h.at = Start(k)
         THEN LET k == CHOOSE i \in {1, 2} : h.at = Start(i)
              IN [addr |-> k, bin |-> len[k], ota |-> TRUE]
         ELSE h.junk

StreamInit ==
  /\ len \in [{1, 2} -> ImageLens]
  /\ target \in {1, 2}
  /\ phase = "idle"
  /\ pos = 0 /\ total = 0
  /\ hdr = [len |-> 0, at |-> 0, junk |-> CHOOSE j \in Junk : TRUE]
  /\ skipped = 0 /\ before = 0 /\ starved = FALSE
  /\ offset = 0
  /\ buf = [i \in 0..S-1 |-> Garbage]
  /\ flash = [i \in 0..P-1 |-> Garbage]
  /\ ret = "ok"

-----------------------------------------------------------------------------
BeginAttempt_KeepsOffset ==  \* mutated form: the offset is not reset
  /\ phase \in {"idle", "rejected", "lost"}
  /\ phase' = "loop"
  /\ pos' = 0 /\ total' = 0 /\ ret' = "ok"
  /\ hdr' = Filled(0, 0)
  /\ buf' = [i \in 0..S-1 |-> Garbage]
  /\ flash' = [i \in 0..P-1 |-> Blank]
  /\ before' = skipped /\ starved' = FALSE
  /\ UNCHANGED <<len, target, skipped, offset>>

(* ota_http_update_image up to the loop: the header is cleared, the offset *)
(* reset, the partition erased.  The skip count stays.                     *)
BeginAttempt ==
  /\ phase \in {"idle", "rejected", "lost"}
  /\ phase' = "loop"
  /\ pos' = 0 /\ total' = 0 /\ offset' = 0 /\ ret' = "ok"
  /\ hdr' = Filled(0, 0)
  /\ buf' = [i \in 0..S-1 |-> Garbage]
  /\ flash' = [i \in 0..P-1 |-> Blank]
  /\ before' = skipped /\ starved' = FALSE
  /\ UNCHANGED <<len, target, skipped>>

(* The connection breaks, or the answer is not what was asked for.         *)
Lose ==
  /\ phase = "loop"
  /\ phase' = "lost"
  /\ UNCHANGED <<len, target, pos, total, hdr, skipped, offset, buf, flash,
                 ret, before, starved>>

-----------------------------------------------------------------------------
(* One call of ota_write_flash_dual for the n bytes at the place from.     *)

Result(h, s, f, n) == [hdr |-> h, skipped |-> s, from |-> f, n |-> n,
                       ret |-> "ok", wild |-> FALSE]

(* The part of ota_skip_and_get_ota_header that collects a header.         *)
Collect(from, n) ==
  LET need == H - hdr.len
      got == Min2(n, need)
  IN Result(Filled(hdr.len + got, IF hdr.len = 0 THEN from ELSE hdr.at),
            skipped, from + got, n - got)

(* Its part that skips the image of the other partition: should bytes are  *)
(* to be skipped; the comparison is of unsigned words, so a negative       *)
(* should is out of reach.  An offset before the buffer reads memory that  *)
(* is not the file's: what follows is not followed further.                *)
Skip(r, should) ==
  LET off == should - r.skipped
      left == r.n - off
      got == Min2(left, H)
  IN IF should < 0 \/ r.skipped + r.n < should
       THEN Result(r.hdr, r.skipped + r.n, r.from, 0)
     ELSE IF r.skipped + r.n = should
       THEN Result(Filled(r.hdr.len, Nowhere), should, r.from, 0)
     ELSE IF off < 0
       THEN [r EXCEPT !.wild = TRUE]
     ELSE Result(Filled(got, r.from + off), should, r.from + off + got,
                 left - got)

ota_skip_and_get_ota_header_Any(from, n) ==  \* mutated form: no address compared
  LET r == Collect(from, n)
  IN IF n > H - hdr.len /\ P < ItemOf(r.hdr).bin THEN [r EXCEPT !.ret = "err"]
     ELSE r

ota_skip_and_get_ota_header(from, n) ==
  LET r == Collect(from, n)
      item == ItemOf(r.hdr)
  IN IF n <= H - hdr.len /\ hdr.len < H THEN r
     ELSE IF P < item.bin THEN [r EXCEPT !.ret = "err"]
     ELSE IF item.addr # target THEN Skip(r, item.bin)
     ELSE r

WriteFlash_DropsRest(from, w) ==  \* mutated form: bytes that did not fit are lost
  LET o == offset % S
      full == [i \in 0..S-1 |-> IF i \in o..(o + w - 1) THEN from + i - o
                                                      ELSE buf[i]]
  IN IF S - o <= w
       THEN [buf |-> [i \in 0..S-1 |-> Zero],
             flash |-> [i \in 0..P-1 |->
                          IF i \in (offset - o)..(offset - o + S - 1)
                            THEN full[i - (offset - o)] ELSE flash[i]]]
       ELSE [buf |-> full, flash |-> flash]

WriteFlash_EachPiece(from, w) ==  \* mutated form: the buffer goes out with every piece
  LET o == offset % S
      full == [i \in 0..S-1 |-> IF i \in o..(o + w - 1) THEN from + i - o
                                                      ELSE buf[i]]
      room == S - o
  IN [buf |-> IF room <= w
                THEN [i \in 0..S-1 |-> IF i < w - room THEN from + room + i ELSE Zero]
                ELSE full,
      flash |-> [i \in 0..P-1 |->
                   IF i \in (offset - o)..(offset - o + S - 1)
                     THEN full[i - (offset - o)] ELSE flash[i]]]

(* ota_write_flash: w bytes into the sector buffer, which goes to flash    *)
(* when it is full; the bytes that did not fit begin the next one.         *)
WriteFlash(from, w) ==
  LET o == offset % S
      full == [i \in 0..S-1 |-> IF i \in o..(o + w - 1) THEN from + i - o
                                                      ELSE buf[i]]
      room == S - o
  IN IF room <= w
       THEN [buf |-> [i \in 0..S-1 |-> IF i < w - room THEN from + room + i
                                                       ELSE Zero],
             flash |-> [i \in 0..P-1 |->
                          IF i \in (offset - o)..(offset - o + S - 1)
                            THEN full[i - (offset - o)] ELSE flash[i]]]
       ELSE [buf |-> full, flash |-> flash]

(* ota_finish_write_flash at the end of an image: the rest of the sector   *)
(* buffer is written, then zeros up to the end of the partition.           *)
Finish(w, end) ==
  LET o == end % S
  IN [buf |-> [i \in 0..S-1 |-> Zero],
      flash |-> [i \in 0..P-1 |->
                   IF i < end - o THEN w.flash[i]
                   ELSE IF o # 0 /\ i < end - o + S THEN w.buf[i - (end - o)]
                   ELSE Zero]]

Store(r) ==
  LET item == ItemOf(r.hdr)
      w == Min2(r.n, item.bin - offset)
      written == WriteFlash(r.from, w)
  IN IF r.ret = "err" \/ r.n = 0 \/ ~item.ota \/ offset >= item.bin
       THEN /\ ret' = r.ret
            /\ UNCHANGED <<offset, buf, flash>>
     ELSE IF P < offset + w
       THEN /\ ret' = "err"
            /\ UNCHANGED <<offset, buf, flash>>
     ELSE LET done == IF offset + w = item.bin
                        THEN Finish(written, offset + w) ELSE written
          IN /\ ret' = "ok"
             /\ offset' = offset + w
             /\ buf' = done.buf /\ flash' = done.flash

(* What ota_check_image compares: the header gives the place of the tail,  *)
(* the tail the digest of header and image.                                *)
Passes(k, h, f) ==
  LET end == ItemOf(h).bin
  IN /\ end \in TailLen..P
     /\ \A i \in end - TailLen..end - 1 : f[i] = Start(k) + H + len[k] - end + i
     /\ h.len = H /\ h.at = Start(k)
     /\ \A i \in 0..len[k] - TailLen - 1 : f[i] = Start(k) + H + i

(* The check takes memory for its buffer and for the digest, and fails     *)
(* like a wrong image if it gets none.                                     *)
ota_check_image(h, f) ==
  \E memory \in BOOLEAN :
    /\ starved' = ~memory
    /\ phase' = IF memory /\ \E k \in {1, 2} : Passes(k, h, f)
                THEN "verified" ELSE "rejected"

(* The pieces are those that the loop over the HTTP client tells           *)
(* (OtaLoop): their lengths are the contract's own, which it implements.   *)
Contract == INSTANCE PieceSource WITH Piece <- B, file <- FileLen, state <- phase

PieceLen == Contract!NextLen

(* After a pass of n bytes there is another, or the image is checked, if   *)
(* the last write did not fail and the lengths add up.                     *)
AfterPass(n) ==
  IF n = B /\ pos < FileLen
    THEN phase' = "loop" /\ UNCHANGED starved
  ELSE IF ret' = "ok" /\ total' = FileLen
    THEN ota_check_image(hdr', flash')
  ELSE phase' = "rejected" /\ UNCHANGED starved

(* A pass of the loop.                                                     *)
ReceivePiece ==
  /\ phase = "loop"
  /\ LET n == PieceLen
         r == ota_skip_and_get_ota_header(pos, n)
     IN /\ pos' = Min2(pos + n, FileLen)
        /\ total' = total + n
        /\ skipped' = r.skipped
        /\ \E j \in IF r.hdr.at \in {hdr.at, Nowhere, Start(1), Start(2)}
                    THEN {hdr.junk} ELSE Junk :
              hdr' = [r.hdr EXCEPT !.junk = j]
        /\ IF r.wild
             THEN phase' = "wild" /\ UNCHANGED <<offset, buf, flash, ret, starved>>
             ELSE /\ Store([r EXCEPT !.hdr = hdr'])
                  /\ AfterPass(n)
  /\ UNCHANGED <<len, target, before>>

(* A verified image is followed by a reset, and the static starts anew.    *)
StreamNext == BeginAttempt \/ Lose \/ ReceivePiece

StreamSpec == StreamInit /\ [][StreamNext]_streamvars

-----------------------------------------------------------------------------
(* The image a device of this target is to store, byte by byte.            *)
Wanted(i) == Start(target) + H + i

(* Whatever was skipped before, whatever was taken for a header, and       *)
(* whichever attempt it is: an image that passes the check is the one      *)
(* built for the target partition, all of it, and the header is its own    *)
(* (ota_test.c:246, ota_hash.c:299).                                       *)
VerifiedIsTheTargets ==
  phase = "verified" => /\ hdr.at = Start(target)
                        /\ \A i \in 0..len[target] - 1 : flash[i] = Wanted(i)

(* The two ways the skip of the first image goes wrong: its count is what  *)
(* an earlier attempt left (ota_test.c:218), or a piece of the file ends   *)
(* exactly where the image does (ota_test.c:276), which leaves a header    *)
(* that counts as full and holds zeros.                                    *)
SkipAstray == target = 2 /\ (before # 0 \/ Start(2) % B = 0)

(* But for those two ways, what has been taken from the file so far is the *)
(* beginning of the wanted image: the full sectors in flash, the rest in   *)
(* the sector buffer, at every split of header, image and sector over the  *)
(* pieces of the file (ota_test.c:161-172).                                *)
StoredIsAPrefix ==
  (phase = "loop" /\ ~SkipAstray /\ offset < len[target]) =>
    /\ \A i \in 0..offset - 1 :
          IF i < offset - (offset % S)
            THEN flash[i] = Wanted(i)
            ELSE buf[i % S] = Wanted(i)
    /\ \A i \in (offset - (offset % S))..P - 1 : flash[i] = Blank

(* But for those two ways, an update that is received to the end, fits the *)
(* partition and does not fill its last response buffer passes the check,  *)
(* if there is memory to check it, and no memory outside the buffers is    *)
(* read.  One that fills it has its length counted twice                   *)
(* (ota_test.c:573-581) and is never installed.                            *)
GoodFileVerifies ==
  ~SkipAstray => /\ phase # "wild"
                 /\ phase = "rejected" => \/ \E k \in 1..target : len[k] > P
                                          \/ FileLen % B = 0
                                          \/ starved

(* But for those two ways, flash that holds something is not written again *)
(* until it is erased, however the file came: each sector goes out once    *)
(* (ota_test.c:159-172), and what is put behind the image over none of     *)
(* those that an earlier piece completed (ota_test.c:194-200).             *)
ProgrammedOnce ==
  [][flash' # flash =>
       \/ BeginAttempt \/ SkipAstray
       \/ \A i \in 0..P - 1 : flash'[i] # flash[i] => flash[i] = Blank]_streamvars
=============================================================================
