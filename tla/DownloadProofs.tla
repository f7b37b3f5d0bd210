--------------------------- MODULE DownloadProofs ---------------------------
(***************************************************************************)
(* Proofs about the download of an update: what becomes of the file        *)
(* (OtaStream), whatever the sizes of header, piece, sector and partition  *)
(* and whatever the lengths of the images; what becomes of the sockets of  *)
(* the HTTP client that fetches it (Httpc); and what that client makes of  *)
(* a response, whatever the sizes of its buffers, whatever the bodies and  *)
(* chunks, and wherever the network cuts them.                             *)
(***************************************************************************)
EXTENDS OtaStream, OtaLoop, WellFoundedInduction, TLAPS

(***************************************************************************)
(* The file.                                                               *)
(*                                                                         *)
(* That only the target's image passes the check rests on what the header  *)
(* is taken to be (HeaderIsTold), and on the check: it holds whatever was  *)
(* skipped and whatever was stored.  That a good file passes it rests on   *)
(* where header, skip count and flash stand after so many bytes of the     *)
(* file (OnCourse), which holds for an attempt that is not astray.         *)
(***************************************************************************)
Phases == {"idle", "loop", "verified", "rejected", "lost", "wild"}
Headers == [len : 0..H, at : Int, junk : Junk]
Lengths == {n \in Nat : n > TailLen}

StreamTypes ==
  /\ len \in [{1, 2} -> Lengths]
  /\ target \in {1, 2}
  /\ phase \in Phases
  /\ pos \in 0..FileLen /\ total \in Nat
  /\ hdr \in Headers
  /\ skipped \in Nat /\ before \in Nat /\ offset \in Nat
  /\ buf \in [0..S-1 -> Int] /\ flash \in [0..P-1 -> Int]

(* A pass that is not the first has part of a header; a device that wants  *)
(* the first image only ever sees its own header; and one that wants the   *)
(* second stores nothing while it holds the header of the first.           *)
HeaderIsTold ==
  /\ pos = 0 <=> hdr.len = 0
  /\ pos = 0 => hdr.at = 0
  /\ target = 1 => hdr.at = 0
  /\ (target = 2 /\ hdr.at = 0) =>
       /\ hdr.len \in {0, H} /\ offset = 0
       /\ \A i \in 0..P - 1 : flash[i] = Blank

StreamInv ==
  /\ StreamTypes
  /\ phase = "loop" => HeaderIsTold
  /\ VerifiedIsTheTargets

LEMMA Layout ==
  /\ H \in Nat \ {0} /\ B \in Nat \ {0} /\ S \in Nat \ {0} /\ P \in Nat \ {0}
  /\ TailLen \in Nat \ {0} /\ H < B /\ B < S
  /\ ImageLens \subseteq Lengths
  /\ \A j \in Junk : j.addr \in {0, 1, 2} /\ j.bin \in Int /\ j.ota \in BOOLEAN
BY LayoutAssumption DEF Lengths

LEMMA Places ==
  ASSUME StreamTypes
  PROVE  /\ len[1] \in Nat /\ len[2] \in Nat /\ len[1] > TailLen
              /\ len[2] > TailLen
         /\ Start(1) = 0 /\ Start(2) = H + len[1] /\ Start(1) # Start(2)
         /\ Start(1) # Nowhere /\ Start(2) # Nowhere /\ Start(2) > H
         /\ FileLen = Start(2) + H + len[2] /\ FileLen \in Nat /\ FileLen > H
<1>1. len[1] \in Lengths /\ len[2] \in Lengths
  BY DEF StreamTypes
<1>2. len[1] \in Nat /\ len[2] \in Nat /\ len[1] > TailLen /\ len[2] > TailLen
  BY <1>1 DEF Lengths
<1> QED BY <1>2, Layout DEF Start, FileLen, Nowhere

(* What a header says that is one.                                         *)
LEMMA TrueItem ==
  ASSUME StreamTypes, NEW h, NEW k \in {1, 2}, h.at = Start(k)
  PROVE  ItemOf(h) = [addr |-> k, bin |-> len[k], ota |-> TRUE]
<1>1. Start(1) # Start(2) /\ Start(k) # Nowhere
  BY Places
<1>2. k = CHOOSE i \in {1, 2} : h.at = Start(i)
  BY <1>1
<1> QED BY <1>1, <1>2 DEF ItemOf

LEMMA AnyItem ==
  ASSUME StreamTypes, NEW h \in Headers
  PROVE  ItemOf(h) \in [addr : {0, 1, 2}, bin : Int, ota : BOOLEAN]
<1>1. CASE h.at = Nowhere
  BY <1>1, Layout DEF ItemOf
<1>2. CASE h.at # Nowhere /\ \E k \in {1, 2} : h.at = Start(k)
  <2>1. PICK k \in {1, 2} : h.at = Start(k)
    BY <1>2
  <2>2. len[k] \in Int
    BY Places
  <2>3. ItemOf(h) = [addr |-> k, bin |-> len[k], ota |-> TRUE]
    BY Zenon, <2>1, TrueItem
  <2> QED BY <2>2, <2>3
<1>3. CASE h.at # Nowhere /\ ~\E k \in {1, 2} : h.at = Start(k)
  <2>1. ItemOf(h) = h.junk /\ h.junk \in Junk
    BY <1>3 DEF ItemOf, Headers
  <2> QED BY <2>1, LayoutAssumption
<1> QED BY <1>1, <1>2, <1>3

(* What a pass of ota_skip_and_get_ota_header can hand on.                 *)
Results == [hdr : Headers, skipped : Nat, from : Nat, n : Nat,
            ret : {"ok", "err"}, wild : BOOLEAN]

LEMMA ResultIs ==
  ASSUME NEW h, NEW s, NEW f, NEW n
  PROVE  /\ Result(h, s, f, n).hdr = h /\ Result(h, s, f, n).skipped = s
         /\ Result(h, s, f, n).from = f /\ Result(h, s, f, n).n = n
         /\ Result(h, s, f, n).ret = "ok" /\ ~Result(h, s, f, n).wild
         /\ (h \in Headers /\ s \in Nat /\ f \in Nat /\ n \in Nat) =>
              Result(h, s, f, n) \in Results
BY DEF Result, Results

LEMMA FilledIs ==
  ASSUME StreamTypes, NEW l, NEW a
  PROVE  /\ Filled(l, a).len = l /\ Filled(l, a).at = a
              /\ Filled(l, a).junk = hdr.junk
         /\ (l \in 0..H /\ a \in Int) => Filled(l, a) \in Headers
BY DEF Filled, Headers, StreamTypes

(* What is still missing of a header, of n bytes.                          *)
ToCome(n) == Min2(n, H - hdr.len)

LEMMA CollectStep ==
  ASSUME StreamTypes, NEW from \in Nat, NEW n \in Nat
  PROVE  /\ ToCome(n) \in Nat /\ ToCome(n) <= n /\ hdr.len + ToCome(n) <= H
         /\ Collect(from, n) \in Results
         /\ Collect(from, n) =
              Result(Filled(hdr.len + ToCome(n), IF hdr.len = 0 THEN from ELSE hdr.at),
                     skipped, from + ToCome(n), n - ToCome(n))
<1> DEFINE got == ToCome(n)
<1>1. hdr.len \in 0..H /\ hdr.at \in Int /\ skipped \in Nat
  BY DEF StreamTypes, Headers
<1>2. got \in Nat /\ got <= n /\ hdr.len + got \in 0..H /\ hdr.len + got <= H
  BY <1>1, Layout DEF Min2, ToCome
<1>3. Collect(from, n) =
        Result(Filled(hdr.len + got, IF hdr.len = 0 THEN from ELSE hdr.at),
               skipped, from + got, n - got)
  BY DEF Collect, ToCome
<1> HIDE DEF got
<1> DEFINE at == IF hdr.len = 0 THEN from ELSE hdr.at
<1>4. at \in Int
  BY <1>1
<1> HIDE DEF at
<1>5. Filled(hdr.len + got, at) \in Headers
  BY <1>2, <1>4, FilledIs
<1>6. from + got \in Nat /\ n - got \in Nat
  BY <1>2
<1>7. Result(Filled(hdr.len + got, at), skipped, from + got, n - got) \in Results
  BY <1>1, <1>5, <1>6, ResultIs
<1> QED BY <1>2, <1>3, <1>7 DEF at, got

(* The three ways a skip that reads no foreign memory ends: all is skipped, *)
(* all and nothing is left, or the next header begins.                     *)
LEMMA SkipStep ==
  ASSUME StreamTypes, NEW r \in Results, NEW should \in Int,
         NEW off, off = should - r.skipped,
         NEW got, got = Min2(r.n - off, H)
  PROVE  \/ /\ should < 0 \/ r.skipped + r.n < should
            /\ Skip(r, should) = Result(r.hdr, r.skipped + r.n, r.from, 0)
            /\ Skip(r, should) \in Results
         \/ /\ should >= 0 /\ r.skipped + r.n = should
            /\ Skip(r, should) = Result(Filled(r.hdr.len, Nowhere), should, r.from, 0)
            /\ Skip(r, should) \in Results
         \/ /\ off < 0 /\ r.skipped + r.n # should
            /\ Skip(r, should).wild /\ Skip(r, should) \in Results
         \/ /\ off \in Nat /\ should \in Nat /\ r.n - off > 0
            /\ got \in 1..H /\ got <= r.n - off
            /\ Skip(r, should) = Result(Filled(got, r.from + off), should,
                                        r.from + off + got, r.n - off - got)
            /\ Skip(r, should) \in Results
<1>0. /\ r.hdr \in Headers /\ r.skipped \in Nat /\ r.from \in Nat
           /\ r.n \in Nat
      /\ r.hdr.len \in 0..H
  BY DEF Results, Headers
<1>1. CASE should < 0 \/ r.skipped + r.n < should
  <2>1. Skip(r, should) = Result(r.hdr, r.skipped + r.n, r.from, 0)
    BY <1>1 DEF Skip
  <2>2. r.skipped + r.n \in Nat
    BY <1>0
  <2>3. Result(r.hdr, r.skipped + r.n, r.from, 0) \in Results
    BY <1>0, <2>2, ResultIs
  <2> QED BY <1>1, <2>1, <2>3
<1>2. CASE ~(should < 0 \/ r.skipped + r.n < should) /\ r.skipped + r.n = should
  <2>1. Skip(r, should) = Result(Filled(r.hdr.len, Nowhere), should, r.from, 0)
    BY <1>2 DEF Skip
  <2>2. Filled(r.hdr.len, Nowhere) \in Headers /\ should \in Nat
    BY <1>0, <1>2, FilledIs DEF Nowhere
  <2>3. Result(Filled(r.hdr.len, Nowhere), should, r.from, 0) \in Results
    BY <1>0, <2>2, ResultIs
  <2> QED BY <1>0, <1>2, <2>1, <2>3
<1>3. CASE ~(should < 0 \/ r.skipped + r.n < should) /\ r.skipped + r.n # should
           /\ off < 0
  <2>1. Skip(r, should) = [r EXCEPT !.wild = TRUE]
    BY <1>3 DEF Skip
  <2>2. Skip(r, should).wild /\ Skip(r, should) \in Results
    BY <2>1 DEF Results
  <2> QED BY <1>3, <2>2
<1>4. CASE ~(should < 0 \/ r.skipped + r.n < should) /\ r.skipped + r.n # should
           /\ ~(off < 0)
  <2>1. Skip(r, should) = Result(Filled(got, r.from + off), should,
                                 r.from + off + got, r.n - off - got)
    BY <1>4 DEF Skip
  <2>2. off \in Nat /\ should \in Nat /\ r.n - off > 0 /\ r.n - off \in Nat
    BY <1>0, <1>4
  <2>3. got \in 1..H /\ got <= r.n - off
    BY <2>2, Layout DEF Min2
  <2>4. /\ got \in 0..H /\ r.from + off \in Int /\ r.from + off + got \in Nat
        /\ r.n - off - got \in Nat
    BY <1>0, <2>2, <2>3
  <2>5. Filled(got, r.from + off) \in Headers
    BY <2>4, FilledIs
  <2>6. Result(Filled(got, r.from + off), should,
               r.from + off + got, r.n - off - got) \in Results
    BY <2>2, <2>4, <2>5, ResultIs
  <2> QED BY <2>1, <2>2, <2>3, <2>6
<1> QED BY <1>1, <1>2, <1>3, <1>4

(* The length of the next piece of the file, as the contract has it.       *)
LEMMA NextPiece == PieceLen = IF pos = FileLen THEN FileLen ELSE Min2(B, FileLen - pos)
BY DEF PieceLen, Contract!NextLen, Contract!Shorter, Min2

LEMMA PieceIs ==
  ASSUME StreamTypes
  PROVE  /\ PieceLen \in Nat \ {0} /\ pos \in Nat /\ pos <= FileLen
         /\ pos = 0 => PieceLen > H
         /\ Min2(pos + PieceLen, FileLen) \in 1..FileLen
         /\ pos # FileLen => pos + PieceLen <= FileLen
<1>1. pos \in 0..FileLen /\ FileLen \in Nat /\ FileLen > H
  <2>1. pos \in 0..FileLen
    BY DEF StreamTypes
  <2> QED BY <2>1, Places
<1>2. PieceLen \in Nat \ {0} /\ (pos = 0 => PieceLen > H)
      /\ (pos # FileLen => pos + PieceLen <= FileLen)
  BY <1>1, Layout, NextPiece DEF Min2
<1>3. Min2(pos + PieceLen, FileLen) \in 1..FileLen
  <2> DEFINE p == PieceLen
  <2> HIDE DEF p
  <2>1. pos + p > 0 /\ pos + p \in Nat
    BY <1>1, <1>2 DEF p
  <2>2. Min2(pos + p, FileLen) \in 1..FileLen
    BY <1>1, <2>1, Layout DEF Min2
  <2> QED BY <2>2 DEF p
<1> QED BY <1>1, <1>2, <1>3

(* What a pass makes of the header, if it reads no foreign memory.  A full *)
(* header of the first image, met by a device that wants the second, lets  *)
(* nothing through to be stored.                                           *)
LEMMA PassTold ==
  ASSUME StreamTypes, HeaderIsTold,
         NEW r, r = ota_skip_and_get_ota_header(pos, PieceLen)
  PROVE  /\ r \in Results
         /\ \/ r.wild
            \/ /\ r.hdr.len # 0
               /\ target = 1 => r.hdr.at = 0
               /\ (target = 2 /\ r.hdr.at = 0) =>
                    /\ r.hdr.len = H /\ offset = 0
                         /\ (r.ret = "err" \/ r.n = 0)
                    /\ \A i \in 0..P - 1 : flash[i] = Blank
<1> DEFINE n == PieceLen
           c == Collect(pos, n)
           got == ToCome(n)
           item == ItemOf(c.hdr)
<1>1. /\ n \in Nat \ {0} /\ pos \in Nat /\ (pos = 0 => n > H)
      /\ hdr.len \in 0..H /\ hdr.at \in Int
  BY PieceIs DEF StreamTypes, Headers
<1> HIDE DEF n
<1>2. /\ got \in Nat /\ got <= n /\ hdr.len + got <= H /\ c \in Results
      /\ c = Result(Filled(hdr.len + got, IF hdr.len = 0 THEN pos ELSE hdr.at),
                    skipped, pos + got, n - got)
  BY <1>1, CollectStep
<1>3. /\ c.hdr.len = hdr.len + got /\ c.skipped = skipped /\ c.from = pos + got
      /\ c.n = n - got /\ ~c.wild /\ c.ret = "ok"
      /\ c.hdr.at = IF hdr.len = 0 THEN pos ELSE hdr.at
      /\ c.hdr \in Headers
  <2> HIDE DEF c, got
  <2> DEFINE at == IF hdr.len = 0 THEN pos ELSE hdr.at
  <2> HIDE DEF at
  <2>1. c = Result(Filled(hdr.len + got, at), skipped, pos + got, n - got)
    BY <1>2 DEF at
  <2>2. /\ c.hdr = Filled(hdr.len + got, at) /\ c.skipped = skipped
        /\ c.from = pos + got /\ c.n = n - got /\ ~c.wild /\ c.ret = "ok"
    BY <2>1, ResultIs
  <2>3. c.hdr.len = hdr.len + got /\ c.hdr.at = at
    BY <2>2, FilledIs
  <2>4. c.hdr \in Headers
    BY <1>2 DEF Results
  <2> QED BY <2>2, <2>3, <2>4 DEF at
<1>4. ~(n <= H - hdr.len /\ hdr.len < H) => hdr.len + got = H
  BY <1>1, Layout DEF Min2, ToCome
<1>5. pos = 0 => got = H
  BY <1>1, Layout DEF Min2, ToCome, HeaderIsTold
<1>6. c.hdr.len # 0 /\ pos + got > 0
  BY <1>1, <1>2, <1>3, <1>5, Layout DEF HeaderIsTold
<1>7. c.hdr.at = 0 => item.addr = 1
  <2>1. Start(1) = 0
    BY Places
  <2>2. c.hdr.at = 0 => ItemOf(c.hdr) = [addr |-> 1, bin |-> len[1], ota |-> TRUE]
    BY <2>1, TrueItem
  <2> QED BY <2>2
<1>8. target = 1 => c.hdr.at = 0
  BY <1>3 DEF HeaderIsTold
<1>9. (target = 2 /\ c.hdr.at = 0) =>
        offset = 0 /\ hdr.len \in {0, H} /\ \A i \in 0..P - 1 : flash[i] = Blank
  <2>1. hdr.len = 0 => hdr.len # H
    BY Layout
  <2>2. (target = 2 /\ c.hdr.at = 0) => hdr.at = 0 \/ hdr.len = 0
    BY <1>3
  <2> QED BY <1>3, <2>1, <2>2 DEF HeaderIsTold
<1>10. item.bin \in Int /\ item.addr \in {0, 1, 2}
  BY <1>3, AnyItem
<1>11. r = IF n <= H - hdr.len /\ hdr.len < H THEN c
           ELSE IF P < item.bin THEN [c EXCEPT !.ret = "err"]
           ELSE IF item.addr # target THEN Skip(c, item.bin)
           ELSE c
  BY DEF ota_skip_and_get_ota_header, n
<1> HIDE DEF c, got, item
<1>12. CASE n <= H - hdr.len /\ hdr.len < H
  <2>1. r = c /\ pos # 0
    BY <1>1, <1>11, <1>12, Layout
  <2>2. hdr.len # 0 /\ c.hdr.at = hdr.at
    BY <1>3, <2>1 DEF HeaderIsTold
  <2>3. ~(target = 2 /\ c.hdr.at = 0)
    BY <1>1, <1>9, <1>12, <2>2, Layout
  <2> QED BY <1>2, <1>6, <1>8, <2>1, <2>3
<1>13. CASE ~(n <= H - hdr.len /\ hdr.len < H) /\ P < item.bin
  <2>1. r = [c EXCEPT !.ret = "err"]
    BY <1>11, <1>13
  <2>2. r \in Results /\ r.hdr = c.hdr /\ r.ret = "err"
    BY <1>2, <2>1 DEF Results
  <2> QED BY <1>3, <1>4, <1>6, <1>8, <1>9, <1>13, <2>2
<1>14. CASE ~(n <= H - hdr.len /\ hdr.len < H) /\ ~(P < item.bin)
            /\ item.addr # target
  <2> DEFINE off == item.bin - c.skipped
             g == Min2(c.n - off, H)
  <2>1. r = Skip(c, item.bin) /\ target = 2
    BY <1>7, <1>8, <1>11, <1>14, Layout DEF StreamTypes
  <2>2. \/ r = Result(c.hdr, c.skipped + c.n, c.from, 0) /\ r \in Results
        \/ r = Result(Filled(c.hdr.len, Nowhere), item.bin, c.from, 0) /\ r \in Results
        \/ r.wild /\ r \in Results
        \/ /\ off \in Nat /\ g \in 1..H /\ r \in Results
           /\ r = Result(Filled(g, c.from + off), item.bin, c.from + off + g,
                         c.n - off - g)
    BY <1>2, <1>10, <2>1, SkipStep
  <2> HIDE DEF off, g
  <2>3. CASE r = Result(c.hdr, c.skipped + c.n, c.from, 0) /\ r \in Results
    <3>1. r.hdr = c.hdr /\ r.n = 0
      BY <2>3, ResultIs
    <3> QED BY <1>3, <1>4, <1>6, <1>9, <1>14, <2>1, <2>3, <3>1
  <2>4. CASE r = Result(Filled(c.hdr.len, Nowhere), item.bin, c.from, 0) /\ r \in Results
    <3>1. r.hdr.len = c.hdr.len /\ r.hdr.at = Nowhere
      BY <2>4, ResultIs, FilledIs
    <3> QED BY <1>6, <2>1, <2>4, <3>1 DEF Nowhere
  <2>5. CASE /\ off \in Nat /\ g \in 1..H /\ r \in Results
             /\ r = Result(Filled(g, c.from + off), item.bin, c.from + off + g,
                           c.n - off - g)
    <3>1. r.hdr.len = g /\ r.hdr.at = c.from + off
      BY <2>5, ResultIs, FilledIs
    <3>2. c.from + off > 0
      BY <1>1, <1>2, <1>3, <1>6, <2>5
    <3> QED BY <2>1, <2>5, <3>1, <3>2
  <2> QED BY <2>2, <2>3, <2>4, <2>5
<1>15. CASE ~(n <= H - hdr.len /\ hdr.len < H) /\ ~(P < item.bin)
            /\ item.addr = target
  <2>1. r = c
    BY <1>11, <1>15
  <2>2. ~(target = 2 /\ c.hdr.at = 0)
    BY <1>7, <1>15
  <2> QED BY <1>2, <1>6, <1>8, <2>1, <2>2
<1> QED BY <1>12, <1>13, <1>14, <1>15

LEMMA SectorIs ==
  ASSUME NEW a \in Nat
  PROVE  a % S \in 0..S - 1 /\ a % S <= a
BY Layout

Memories == [buf : [0..S-1 -> Int], flash : [0..P-1 -> Int]]

LEMMA WriteTypes ==
  ASSUME StreamTypes, NEW from \in Nat, NEW w \in Nat
  PROVE  WriteFlash(from, w) \in Memories
<1> DEFINE o == offset % S
           full == [i \in 0..S-1 |-> IF i \in o..(o + w - 1) THEN from + i - o
                                                           ELSE buf[i]]
           next == [i \in 0..S-1 |-> IF i < w - (S - o) THEN from + (S - o) + i
                                                        ELSE Zero]
           put == [i \in 0..P-1 |-> IF i \in (offset - o)..(offset - o + S - 1)
                                      THEN full[i - (offset - o)] ELSE flash[i]]
<1>1. o \in 0..S - 1 /\ offset \in Nat
  BY SectorIs DEF StreamTypes
<1>2. WriteFlash(from, w) = IF S - o <= w THEN [buf |-> next, flash |-> put]
                            ELSE [buf |-> full, flash |-> flash]
  BY DEF WriteFlash
<1> HIDE DEF o
<1>3. full \in [0..S-1 -> Int]
  BY <1>1 DEF StreamTypes
<1> HIDE DEF full
<1>4. next \in [0..S-1 -> Int]
  BY <1>1, Layout DEF Zero
<1>5. put \in [0..P-1 -> Int]
  <2>1. ASSUME NEW i \in 0..P-1, i \in (offset - o)..(offset - o + S - 1)
        PROVE  full[i - (offset - o)] \in Int
    <3>1. i - (offset - o) \in 0..S-1
      BY <1>1, <2>1, Layout
    <3> QED BY <1>3, <3>1
  <2>2. ASSUME NEW i \in 0..P-1 PROVE flash[i] \in Int
    BY DEF StreamTypes
  <2> QED BY <2>1, <2>2
<1> HIDE DEF next, put
<1>6. flash \in [0..P-1 -> Int]
  BY DEF StreamTypes
<1> QED BY <1>2, <1>3, <1>4, <1>5, <1>6 DEF Memories

LEMMA FinishTypes ==
  ASSUME NEW m \in Memories, NEW end \in Nat
  PROVE  Finish(m, end) \in Memories
<1> DEFINE o == end % S
           zeros == [i \in 0..S-1 |-> Zero]
           put == [i \in 0..P-1 |->
                     IF i < end - o THEN m.flash[i]
                     ELSE IF o # 0 /\ i < end - o + S THEN m.buf[i - (end - o)]
                     ELSE Zero]
<1>1. o \in 0..S - 1
  BY SectorIs
<1>2. Finish(m, end) = [buf |-> zeros, flash |-> put]
  BY DEF Finish
<1> HIDE DEF o
<1>3. m.flash \in [0..P-1 -> Int] /\ m.buf \in [0..S-1 -> Int]
  BY DEF Memories
<1>4. put \in [0..P-1 -> Int]
  <2>1. ASSUME NEW i \in 0..P-1, ~(i < end - o), i < end - o + S
        PROVE  m.buf[i - (end - o)] \in Int
    <3>1. i - (end - o) \in 0..S-1
      BY <1>1, <2>1, Layout
    <3> QED BY <1>3, <3>1
  <2>2. ASSUME NEW i \in 0..P-1
        PROVE  (IF i < end - o THEN m.flash[i]
                ELSE IF o # 0 /\ i < end - o + S THEN m.buf[i - (end - o)]
                ELSE Zero) \in Int
    <3>1. m.flash[i] \in Int
      BY <1>3
    <3>2. (~(i < end - o) /\ i < end - o + S) => m.buf[i - (end - o)] \in Int
      BY <2>1
    <3>3. Zero \in Int
      BY DEF Zero
    <3> QED BY <3>1, <3>2, <3>3
  <2> QED BY <2>2
<1>5. zeros \in [0..S-1 -> Int]
  BY DEF Zero
<1> HIDE DEF put, zeros
<1> QED BY <1>2, <1>4, <1>5 DEF Memories

(* ota_write_flash_dual stores bytes, or leaves everything as it is.       *)
LEMMA StoreTypes ==
  ASSUME StreamTypes, NEW r \in Results, Store(r)
  PROVE  /\ offset' \in Nat /\ ret' \in {"ok", "err"}
         /\ buf' \in [0..S-1 -> Int] /\ flash' \in [0..P-1 -> Int]
         /\ (r.ret = "err" \/ r.n = 0) => UNCHANGED <<offset, buf, flash>>
              /\ ret' = r.ret
<1> DEFINE item == ItemOf(r.hdr)
           w == Min2(r.n, item.bin - offset)
           written == WriteFlash(r.from, w)
           done == IF offset + w = item.bin THEN Finish(written, offset + w)
                   ELSE written
<1>1. /\ r.hdr \in Headers /\ r.from \in Nat /\ r.n \in Nat
           /\ r.ret \in {"ok", "err"}
      /\ offset \in Nat /\ buf \in [0..S-1 -> Int] /\ flash \in [0..P-1 -> Int]
  BY DEF Results, StreamTypes
<1>2. item.bin \in Int
  BY <1>1, AnyItem
<1>3. \/ /\ r.ret = "err" \/ r.n = 0 \/ ~item.ota \/ offset >= item.bin
         /\ ret' = r.ret /\ UNCHANGED <<offset, buf, flash>>
      \/ /\ ~(r.ret = "err" \/ r.n = 0 \/ ~item.ota \/ offset >= item.bin)
         /\ ret' = "err" /\ UNCHANGED <<offset, buf, flash>>
      \/ /\ ~(r.ret = "err" \/ r.n = 0 \/ ~item.ota \/ offset >= item.bin)
         /\ ret' = "ok" /\ offset' = offset + w
         /\ buf' = done.buf /\ flash' = done.flash
  BY DEF Store
<1> HIDE DEF item
<1>4. CASE UNCHANGED <<offset, buf, flash>>
  BY <1>1, <1>3, <1>4
<1>5. CASE /\ ~(r.ret = "err" \/ r.n = 0 \/ ~item.ota \/ offset >= item.bin)
           /\ ret' = "ok" /\ offset' = offset + w
           /\ buf' = done.buf /\ flash' = done.flash
  <2>1. w \in Nat
    BY <1>1, <1>2, <1>5 DEF Min2
  <2> HIDE DEF w
  <2>2. written \in Memories
    BY <1>1, <2>1, WriteTypes
  <2>3. Finish(written, offset + w) \in Memories
    BY <1>1, <2>1, <2>2, FinishTypes
  <2> HIDE DEF written
  <2>4. done \in Memories
    BY <2>2, <2>3
  <2> HIDE DEF done
  <2> QED BY <1>1, <1>5, <2>1, <2>4 DEF Memories
<1> QED BY <1>3, <1>4, <1>5

(* The check passes an image that is whole and has the header of its own.  *)
LEMMA PassedIs ==
  ASSUME StreamTypes, NEW k \in {1, 2}, NEW h, NEW f, Passes(k, h, f)
  PROVE  /\ h.at = Start(k) /\ h.len = H /\ len[k] \in TailLen..P
         /\ \A i \in 0..len[k] - 1 : f[i] = Start(k) + H + i
<1>1. h.at = Start(k) /\ h.len = H
  BY DEF Passes
<1>2. ItemOf(h).bin = len[k]
  <2>1. ItemOf(h) = [addr |-> k, bin |-> len[k], ota |-> TRUE]
    BY <1>1, TrueItem
  <2> QED BY <2>1
<1>3. /\ len[k] \in TailLen..P
      /\ \A i \in len[k] - TailLen..len[k] - 1 : f[i] = Start(k) + H + len[k] - len[k] + i
      /\ \A i \in 0..len[k] - TailLen - 1 : f[i] = Start(k) + H + i
  BY Zenon, <1>2 DEF Passes
<1>4. len[k] \in Nat /\ Start(k) \in Nat
  BY Places, Layout
<1>5. ASSUME NEW i \in 0..len[k] - 1 PROVE f[i] = Start(k) + H + i
  <2>1. CASE i \in 0..len[k] - TailLen - 1
    BY <1>3, <2>1
  <2>2. CASE i \in len[k] - TailLen..len[k] - 1
    <3>1. f[i] = Start(k) + H + len[k] - len[k] + i
      BY <1>3, <2>2
    <3>2. i \in Int /\ H \in Int
      BY <1>4, Layout
    <3> QED BY <1>4, <3>1, <3>2
  <2> QED BY <1>4, <1>5, <2>1, <2>2, Layout
<1> QED BY <1>1, <1>3, <1>5

(* What becomes of an attempt after a pass: a last pass is refused without *)
(* a reason in the file only if the check got no memory.                   *)
LEMMA AfterPassIs ==
  ASSUME NEW n, AfterPass(n)
  PROVE  /\ phase' \in {"loop", "verified", "rejected"}
         /\ phase' = "loop" <=> (n = B /\ pos < FileLen)
         /\ phase' = "verified" => \E k \in {1, 2} : Passes(k, hdr', flash')
         /\ phase' = "rejected" => \/ starved'
                                  \/ ret' # "ok" \/ total' # FileLen
                                  \/ \A k \in {1, 2} : ~Passes(k, hdr', flash')
<1>1. CASE n = B /\ pos < FileLen
  BY <1>1 DEF AfterPass
<1>2. CASE ~(n = B /\ pos < FileLen) /\ ret' = "ok" /\ total' = FileLen
  <2>1. PICK memory \in BOOLEAN :
          /\ starved' = ~memory
          /\ phase' = IF memory /\ \E k \in {1, 2} : Passes(k, hdr', flash')
                      THEN "verified" ELSE "rejected"
    BY <1>2 DEF AfterPass, ota_check_image
  <2> QED BY <1>2, <2>1
<1>3. CASE ~(n = B /\ pos < FileLen) /\ ~(ret' = "ok" /\ total' = FileLen)
  BY <1>3 DEF AfterPass
<1> QED BY <1>1, <1>2, <1>3

(* A pass, with what the header says when it is none left open.            *)
LEMMA ReceiveIs ==
  ASSUME StreamTypes, HeaderIsTold, ReceivePiece,
         NEW r, r = ota_skip_and_get_ota_header(pos, PieceLen),
         NEW q, q = [r EXCEPT !.hdr = hdr']
  PROVE  /\ UNCHANGED <<len, target, before>>
         /\ pos' = Min2(pos + PieceLen, FileLen) /\ total' = total + PieceLen
         /\ skipped' = r.skipped
         /\ r \in Results /\ q \in Results /\ hdr' \in Headers
         /\ hdr'.len = r.hdr.len /\ hdr'.at = r.hdr.at
         /\ q.hdr = hdr' /\ q.n = r.n /\ q.from = r.from /\ q.ret = r.ret
         /\ \/ r.wild /\ phase' = "wild"
              /\ UNCHANGED <<offset, buf, flash, ret>>
            \/ /\ ~r.wild /\ Store(q)
               /\ AfterPass(PieceLen)
<1>1. /\ UNCHANGED <<len, target, before>>
      /\ pos' = Min2(pos + PieceLen, FileLen) /\ total' = total + PieceLen
      /\ skipped' = r.skipped
  BY DEF ReceivePiece
<1>2. PICK j \in IF r.hdr.at \in {hdr.at, Nowhere, Start(1), Start(2)}
                   THEN {hdr.junk} ELSE Junk : hdr' = [r.hdr EXCEPT !.junk = j]
  BY DEF ReceivePiece
<1>3. \/ r.wild /\ phase' = "wild" /\ UNCHANGED <<offset, buf, flash, ret>>
      \/ /\ ~r.wild /\ Store(q)
         /\ AfterPass(PieceLen)
  BY DEF ReceivePiece
<1>4. r \in Results
  BY PassTold
<1>5. r.hdr \in Headers /\ j \in Junk
  <2>1. hdr.junk \in Junk
    BY DEF StreamTypes, Headers
  <2> QED BY <1>2, <1>4, <2>1 DEF Results
<1>6. hdr' \in Headers /\ hdr'.len = r.hdr.len /\ hdr'.at = r.hdr.at
  BY <1>2, <1>5 DEF Headers
<1>7. /\ q \in Results /\ q.hdr = hdr'
      /\ q.n = r.n /\ q.from = r.from /\ q.ret = r.ret
  BY <1>4, <1>6 DEF Results
<1> QED BY <1>1, <1>3, <1>4, <1>6, <1>7

LEMMA ReceiveTypes ==
  ASSUME StreamTypes, HeaderIsTold, ReceivePiece
  PROVE  StreamTypes'
<1> DEFINE r == ota_skip_and_get_ota_header(pos, PieceLen)
           q == [r EXCEPT !.hdr = hdr']
<1>1. /\ UNCHANGED <<len, target, before>>
      /\ pos' = Min2(pos + PieceLen, FileLen) /\ total' = total + PieceLen
      /\ skipped' = r.skipped /\ r \in Results /\ q \in Results
           /\ hdr' \in Headers
      /\ \/ phase' = "wild" /\ UNCHANGED <<offset, buf, flash, ret>>
         \/ Store(q) /\ phase' \in {"loop", "verified", "rejected"}
  BY ReceiveIs, AfterPassIs
<1> HIDE DEF r, q
<1>2. skipped' \in Nat
  BY <1>1 DEF Results
<1>3. FileLen' = FileLen
  BY <1>1 DEF FileLen
<1>4. pos' \in 0..FileLen /\ total' \in Nat
  BY <1>1, PieceIs, Places, SMTT(60) DEF StreamTypes
<1>5. /\ phase' \in Phases /\ offset' \in Nat
      /\ buf' \in [0..S-1 -> Int] /\ flash' \in [0..P-1 -> Int]
  BY <1>1, StoreTypes DEF Phases, StreamTypes
<1> QED BY <1>1, <1>2, <1>3, <1>4, <1>5 DEF StreamTypes

LEMMA ReceiveTold ==
  ASSUME StreamTypes, HeaderIsTold, ReceivePiece
  PROVE  /\ phase' = "loop" => HeaderIsTold'
         /\ VerifiedIsTheTargets'
<1> DEFINE r == ota_skip_and_get_ota_header(pos, PieceLen)
           q == [r EXCEPT !.hdr = hdr']
<1>1. /\ UNCHANGED <<len, target>> /\ q \in Results /\ hdr' \in Headers
      /\ pos' = Min2(pos + PieceLen, FileLen)
      /\ hdr'.len = r.hdr.len /\ hdr'.at = r.hdr.at
      /\ q.n = r.n /\ q.ret = r.ret
      /\ \/ r.wild /\ phase' = "wild"
         \/ /\ ~r.wild /\ Store(q)
            /\ phase' = "verified" => \E k \in {1, 2} : Passes(k, hdr', flash')
  BY ReceiveIs, AfterPassIs
<1>2. \/ r.wild
      \/ /\ r.hdr.len # 0
         /\ target = 1 => r.hdr.at = 0
         /\ (target = 2 /\ r.hdr.at = 0) =>
              /\ r.hdr.len = H /\ offset = 0 /\ (r.ret = "err" \/ r.n = 0)
              /\ \A i \in 0..P - 1 : flash[i] = Blank
  BY PassTold
<1> HIDE DEF r, q
<1>3. CASE r.wild /\ phase' = "wild"
  BY <1>3 DEF VerifiedIsTheTargets
<1>4. CASE ~r.wild /\ Store(q)
  <2>1. pos' > 0
    BY <1>1, PieceIs
  <2>2. (target = 2 /\ hdr'.at = 0) =>
          /\ hdr'.len = H /\ offset' = 0
          /\ \A i \in 0..P - 1 : flash'[i] = Blank
    BY <1>1, <1>2, <1>4, StoreTypes
  <2>3. hdr'.len # 0 /\ (target = 1 => hdr'.at = 0)
    BY <1>1, <1>2, <1>4
  <2>4. HeaderIsTold'
    BY <1>1, <2>1, <2>2, <2>3 DEF HeaderIsTold
  <2>5. ASSUME phase' = "verified"
        PROVE  /\ hdr'.at = Start(target)
               /\ \A i \in 0..len[target] - 1 : flash'[i] = Wanted(i)
    <3>1. PICK k \in {1, 2} : Passes(k, hdr', flash')
      BY <1>1, <1>4, <2>5
    <3>2. /\ hdr'.at = Start(k) /\ len[k] \in TailLen..P
          /\ \A i \in 0..len[k] - 1 : flash'[i] = Start(k) + H + i
      BY <3>1, PassedIs
    <3>3. k = target
      <4>1. Start(1) = 0 /\ Start(2) # 0
        BY Places, Layout
      <4>2. target = 1 => k = 1
        BY <2>3, <3>2, <4>1
      <4>3. ~(target = 2 /\ k = 1)
        <5> SUFFICES ASSUME target = 2, k = 1 PROVE FALSE
          OBVIOUS
        <5>1. flash'[0] = Blank
          BY <2>2, <3>2, <4>1, Layout
        <5>2. flash'[0] = 0 + H + 0
          BY <3>2, <4>1, Layout
        <5> QED BY <5>1, <5>2, Layout DEF Blank
      <4> QED BY <4>2, <4>3 DEF StreamTypes
    <3> QED BY <3>2, <3>3 DEF Wanted
  <2>6. VerifiedIsTheTargets'
    <3>1. /\ len' = len /\ target' = target /\ Start(target)' = Start(target)
          /\ \A i : Wanted(i)' = Wanted(i)
      BY <1>1 DEF Start, Wanted
    <3> QED BY <2>5, <3>1 DEF VerifiedIsTheTargets
  <2> QED BY <2>4, <2>6
<1> QED BY <1>1, <1>3, <1>4

LEMMA InitStream == StreamInit => StreamInv
<1> HAVE StreamInit
<1>1. len \in [{1, 2} -> Lengths] /\ target \in {1, 2} /\ phase = "idle"
  BY Layout DEF StreamInit
<1>2. len[1] \in Nat /\ len[2] \in Nat
  BY <1>1 DEF Lengths
<1>3. pos \in 0..FileLen /\ total \in Nat /\ skipped \in Nat /\ before \in Nat
      /\ offset \in Nat
  BY <1>2, Layout DEF StreamInit, FileLen
<1>4. hdr \in Headers
  <2>1. (CHOOSE j \in Junk : TRUE) \in Junk
    BY LayoutAssumption
  <2> QED BY <2>1, Layout DEF StreamInit, Headers
<1>5. buf \in [0..S-1 -> Int] /\ flash \in [0..P-1 -> Int]
  BY DEF StreamInit, Garbage
<1> QED BY <1>1, <1>3, <1>4, <1>5 DEF StreamInv, StreamTypes, Phases, VerifiedIsTheTargets

LEMMA BeginStream ==
  ASSUME StreamInv, BeginAttempt
  PROVE  StreamInv'
<1>1. /\ phase' = "loop" /\ pos' = 0 /\ total' = 0 /\ offset' = 0
      /\ hdr' = Filled(0, 0) /\ before' = skipped
           /\ UNCHANGED <<len, target, skipped>>
      /\ buf' = [i \in 0..S-1 |-> Garbage] /\ flash' = [i \in 0..P-1 |-> Blank]
  BY DEF BeginAttempt
<1>2. StreamTypes
  BY DEF StreamInv
<1>3. hdr' \in Headers /\ hdr'.len = 0 /\ hdr'.at = 0
  BY <1>1, <1>2, FilledIs, Layout
<1>4. buf' \in [0..S-1 -> Int] /\ flash' \in [0..P-1 -> Int]
  BY <1>1 DEF Garbage, Blank
<1>5. pos' \in 0..FileLen' /\ FileLen' = FileLen
  BY <1>1, <1>2, Places DEF FileLen
<1>6. StreamTypes'
  BY <1>1, <1>2, <1>3, <1>4, <1>5 DEF StreamTypes, Phases
<1>7. HeaderIsTold'
  BY <1>1, <1>3 DEF HeaderIsTold
<1> QED BY <1>1, <1>6, <1>7 DEF StreamInv, VerifiedIsTheTargets

LEMMA StepStream == StreamInv /\ [StreamNext]_streamvars => StreamInv'
<1> SUFFICES ASSUME StreamInv, [StreamNext]_streamvars PROVE StreamInv'
  OBVIOUS
<1>1. CASE BeginAttempt
  BY <1>1, BeginStream
<1>2. CASE Lose
  BY <1>2 DEF Lose, StreamInv, StreamTypes, Phases, FileLen, VerifiedIsTheTargets
<1>3. CASE ReceivePiece
  <2>1. phase = "loop" /\ StreamTypes /\ HeaderIsTold
    BY <1>3 DEF ReceivePiece, StreamInv
  <2> QED BY <1>3, <2>1, ReceiveTypes, ReceiveTold DEF StreamInv
<1>4. CASE UNCHANGED streamvars
  BY <1>4 DEF streamvars, StreamInv, StreamTypes, HeaderIsTold, FileLen,
              VerifiedIsTheTargets, Start, Wanted
<1> QED BY <1>1, <1>2, <1>3, <1>4 DEF StreamNext

(* An image that passes the check is the one built for the target          *)
(* partition, all of it, and the header its own, whatever was skipped in   *)
(* this attempt or an earlier one (ota_test.c:246, ota_hash.c:299).        *)
THEOREM OnlyTheTargetsImagePasses == StreamSpec => []VerifiedIsTheTargets
<1>1. StreamInv => VerifiedIsTheTargets
  BY DEF StreamInv
<1> QED BY <1>1, InitStream, StepStream, PTL DEF StreamSpec

-----------------------------------------------------------------------------
(* Quotients and remainders.                                               *)

LEMMA Division ==
  ASSUME NEW a \in Int, NEW b \in Nat \ {0}
  PROVE  a = b * (a \div b) + (a % b) /\ a % b \in 0..(b - 1) /\ a \div b \in Int
OBVIOUS

LEMMA DivisionIsUnique ==
  ASSUME NEW b \in Nat \ {0},
         NEW x \in Int, NEW r \in 0..(b - 1), NEW y \in Int, NEW s \in 0..(b - 1),
         b * x + r = b * y + s
  PROVE  r = s
<1>1. ~(x < y)
  <2> SUFFICES ASSUME x < y PROVE FALSE
    OBVIOUS
  <2>1. b * y >= b * (x + 1) /\ b * (x + 1) = b * x + b
    OBVIOUS
  <2> QED BY <2>1
<1>2. ~(y < x)
  <2> SUFFICES ASSUME y < x PROVE FALSE
    OBVIOUS
  <2>1. b * x >= b * (y + 1) /\ b * (y + 1) = b * y + b
    OBVIOUS
  <2> QED BY <2>1
<1> QED BY <1>1, <1>2

(* The remainder of a place w further on, by less than a turn.             *)
LEMMA Further ==
  ASSUME NEW b \in Nat \ {0}, NEW a \in Nat, NEW w \in Int,
         0 <= (a % b) + w, (a % b) + w < 2 * b
  PROVE  (a + w) % b = IF (a % b) + w < b THEN (a % b) + w ELSE (a % b) + w - b
<1> DEFINE x == a \div b
           r == a % b
           y == (a + w) \div b
           s == (a + w) % b
<1>1. a = b * x + r /\ r \in 0..(b - 1) /\ x \in Int
  <2>1. a \in Int
    OBVIOUS
  <2> QED BY <2>1, Division
<1>2. a + w = b * y + s /\ s \in 0..(b - 1) /\ y \in Int
  <2>1. a + w \in Int
    OBVIOUS
  <2> QED BY <2>1, Division
<1> HIDE DEF x, r, y, s
<1>3. CASE r + w < b
  <2>1. r + w \in 0..(b - 1) /\ b * x + (r + w) = b * y + s
    BY <1>1, <1>2, <1>3 DEF r
  <2>2. r + w = s
    BY <1>1, <1>2, <2>1, DivisionIsUnique
  <2> QED BY <1>3, <2>2 DEF r, s
<1>4. CASE ~(r + w < b)
  <2>1. r + w - b \in 0..(b - 1)
    BY <1>1, <1>4 DEF r
  <2>2. b * (x + 1) = b * x + b /\ x + 1 \in Int
    BY <1>1
  <2>3. b * (x + 1) + (r + w - b) = b * y + s
    BY <1>1, <1>2, <2>2
  <2>4. r + w - b = s
    BY <1>1, <1>2, <2>1, <2>2, <2>3, DivisionIsUnique
  <2> QED BY <1>4, <2>4 DEF r, s
<1> QED BY <1>3, <1>4

(* Place i of the sector that k ends in.                                   *)
LEMMA InSector ==
  ASSUME NEW k \in Nat, NEW i \in Nat, k - (k % S) <= i, i < k
  PROVE  i % S = i - (k - (k % S))
<1>1. S \in Nat \ {0} /\ k % S \in 0..S - 1
  BY Layout, SectorIs
<1>2. (k + (i - k)) % S = (k % S) + (i - k)
  <2>1. /\ 0 <= (k % S) + (i - k) /\ (k % S) + (i - k) < S
        /\ (k % S) + (i - k) < 2 * S
    BY <1>1
  <2>2. i - k \in Int
    OBVIOUS
  <2>3. (k + (i - k)) % S = IF (k % S) + (i - k) < S THEN (k % S) + (i - k)
                            ELSE (k % S) + (i - k) - S
    BY Zenon, <1>1, <2>1, <2>2, Further
  <2> QED BY <2>1, <2>3
<1>3. k + (i - k) = i
  OBVIOUS
<1> QED BY <1>1, <1>2, <1>3

-----------------------------------------------------------------------------
(* The first k bytes of the wanted image are taken: the full sectors in    *)
(* flash, the rest in the sector buffer.                                   *)
Split(k, at, b, f) ==
  \A i \in 0..k - 1 : IF i < at THEN f[i] = Wanted(i) ELSE b[i - at] = Wanted(i)

Clear(at, f) == \A i \in at..P - 1 : f[i] = Blank

SectorOf(k) == k - (k % S)
Prefix(k, b, f) == Split(k, SectorOf(k), b, f)
Erased(k, f) == Clear(SectorOf(k), f)

Whole(k, f) == \A i \in 0..k - 1 : f[i] = Wanted(i)

(* ota_write_flash takes the next w bytes behind those it has.              *)
LEMMA WritePrefix ==
  ASSUME StreamTypes, Prefix(offset, buf, flash), Erased(offset, flash),
         NEW w \in 1..S, offset + w <= P,
         NEW m, m = WriteFlash(Wanted(offset), w)
  PROVE  Prefix(offset + w, m.buf, m.flash) /\ Erased(offset + w, m.flash)
<1> DEFINE o == offset % S
           from == Wanted(offset)
           full == [i \in 0..S-1 |-> IF i \in o..(o + w - 1) THEN from + i - o
                                                           ELSE buf[i]]
           next == [i \in 0..S-1 |-> IF i < w - (S - o) THEN from + (S - o) + i
                                                        ELSE Zero]
           put == [i \in 0..P-1 |-> IF i \in (offset - o)..(offset - o + S - 1)
                                      THEN full[i - (offset - o)] ELSE flash[i]]
<1>1. o \in 0..S - 1 /\ offset \in Nat /\ o <= offset /\ S \in Nat \ {0} /\ P \in Nat
  BY SectorIs, Layout DEF StreamTypes
<1>2. m = IF S - o <= w THEN [buf |-> next, flash |-> put]
          ELSE [buf |-> full, flash |-> flash]
  BY DEF WriteFlash
<1>3. Start(target) + H \in Nat
  <2>1. target \in {1, 2}
    BY DEF StreamTypes
  <2> QED BY <2>1, Places, Layout
<1>4. \A i \in Nat : Wanted(i) = from + i - offset /\ Wanted(i) \in Nat
  BY <1>1, <1>3 DEF Wanted
<1>5. from \in Nat
  BY <1>1, <1>4
<1>6. (offset + w) % S = IF o + w < S THEN o + w ELSE o + w - S
  <2>1. 0 <= (offset % S) + w /\ (offset % S) + w < 2 * S /\ w \in Int
    BY <1>1
  <2> QED BY Zenon, <1>1, <2>1, Further
<1>7. \A i \in 0..S - 1 : full[i] = IF i \in o..(o + w - 1) THEN from + i - o ELSE buf[i]
  OBVIOUS
<1>8. \A i \in 0..S - 1 : i < w - (S - o) => next[i] = from + (S - o) + i
  OBVIOUS
<1>9. \A i \in 0..P - 1 : put[i] = IF i \in (offset - o)..(offset - o + S - 1)
                                     THEN full[i - (offset - o)] ELSE flash[i]
  OBVIOUS
<1>10. \A i \in 0..offset - 1 : IF i < offset - o THEN flash[i] = Wanted(i)
                                ELSE buf[i - (offset - o)] = Wanted(i)
  BY DEF Prefix, Split, SectorOf
<1>11. \A i \in (offset - o)..P - 1 : flash[i] = Blank
  BY DEF Erased, Clear, SectorOf
<1> HIDE DEF o, from, full, next, put
<1>12. \A i \in (offset - o)..offset + w - 1 :
          i - (offset - o) < S => full[i - (offset - o)] = Wanted(i)
  <2> SUFFICES ASSUME NEW i \in (offset - o)..offset + w - 1, i - (offset - o) < S
               PROVE  full[i - (offset - o)] = Wanted(i)
    OBVIOUS
  <2>1. i \in Nat /\ i - (offset - o) \in 0..S - 1
    BY <1>1
  <2>2. CASE i < offset
    <3>1. ~(i - (offset - o) \in o..(o + w - 1)) /\ i \in 0..offset - 1 /\ ~(i < offset - o)
      BY <1>1, <2>1, <2>2
    <3> QED BY <1>7, <1>10, <2>1, <3>1
  <2>3. CASE ~(i < offset)
    <3>1. i - (offset - o) \in o..(o + w - 1)
      BY <1>1, <2>1, <2>3
    <3>2. full[i - (offset - o)] = from + (i - (offset - o)) - o
      BY <1>7, <2>1, <3>1
    <3> QED BY <1>1, <1>4, <1>5, <2>1, <3>2
  <2> QED BY <2>2, <2>3
<1>13. CASE o + w < S
  <2>1. m.buf = full /\ m.flash = flash
    BY <1>1, <1>2, <1>13
  <2>2. SectorOf(offset + w) = offset - o
    BY <1>1, <1>6, <1>13 DEF SectorOf
  <2>3. Erased(offset + w, m.flash)
    BY <1>11, <2>1, <2>2 DEF Erased, Clear
  <2>4. ASSUME NEW i \in 0..(offset + w) - 1
        PROVE  IF i < offset - o THEN flash[i] = Wanted(i)
               ELSE full[i - (offset - o)] = Wanted(i)
    <3>1. CASE i < offset - o
      <4>1. i \in 0..offset - 1
        BY <1>1, <3>1
      <4> QED BY <1>10, <3>1, <4>1
    <3>2. CASE ~(i < offset - o)
      <4>1. i \in (offset - o)..offset + w - 1 /\ i - (offset - o) < S
        BY <1>1, <1>13, <3>2
      <4> QED BY <1>12, <3>2, <4>1
    <3> QED BY <3>1, <3>2
  <2>5. Split(offset + w, offset - o, m.buf, m.flash)
    <3>1. Split(offset + w, offset - o, full, flash)
      BY <2>4 DEF Split
    <3> QED BY <2>1, <3>1
  <2> QED BY <2>2, <2>3, <2>5 DEF Prefix
<1>14. CASE ~(o + w < S)
  <2>1. m.buf = next /\ m.flash = put
    BY <1>1, <1>2, <1>14
  <2>2. SectorOf(offset + w) = offset - o + S
    BY <1>1, <1>6, <1>14 DEF SectorOf
  <2>3. ASSUME NEW i \in (offset - o + S)..P - 1 PROVE put[i] = Blank
    <3>1. i \in 0..P - 1 /\ i \in (offset - o)..P - 1
          /\ ~(i \in (offset - o)..(offset - o + S - 1))
      BY <1>1
    <3> QED BY <1>9, <1>11, <3>1
  <2>4. Erased(offset + w, m.flash)
    BY <2>1, <2>2, <2>3 DEF Erased, Clear
  <2>5. ASSUME NEW i \in 0..(offset + w) - 1
        PROVE  IF i < offset - o + S THEN put[i] = Wanted(i)
               ELSE next[i - (offset - o + S)] = Wanted(i)
    <3>0. i \in 0..P - 1 /\ i \in Nat
      BY <1>1
    <3>1. CASE i < offset - o
      <4>1. i \in 0..offset - 1 /\ ~(i \in (offset - o)..(offset - o + S - 1))
            /\ i < offset - o + S
        BY <1>1, <3>1
      <4> QED BY <1>9, <1>10, <3>0, <3>1, <4>1
    <3>2. CASE ~(i < offset - o) /\ i < offset - o + S
      <4>1. i \in (offset - o)..offset + w - 1 /\ i - (offset - o) < S
            /\ i \in (offset - o)..(offset - o + S - 1)
        BY <1>1, <3>2
      <4> QED BY <1>9, <1>12, <3>0, <3>2, <4>1
    <3>3. CASE ~(i < offset - o + S)
      <4>1. i - (offset - o + S) \in 0..S - 1 /\ i - (offset - o + S) < w - (S - o)
        BY <1>1, <3>3
      <4>2. next[i - (offset - o + S)] = from + (S - o) + (i - (offset - o + S))
        BY <1>8, <4>1
      <4>3. from + (S - o) + (i - (offset - o + S)) = from + i - offset
        BY <1>1, <1>5, <3>0
      <4> QED BY <1>4, <3>0, <3>3, <4>2, <4>3
    <3> QED BY <3>1, <3>2, <3>3
  <2>6. Split(offset + w, offset - o + S, m.buf, m.flash)
    <3>1. Split(offset + w, offset - o + S, next, put)
      BY <2>5 DEF Split
    <3> QED BY <2>1, <3>1
  <2> QED BY <2>2, <2>4, <2>6 DEF Prefix
<1> QED BY <1>13, <1>14

(* ota_finish_write_flash brings the last sector to flash.                 *)
LEMMA FinishWhole ==
  ASSUME NEW k \in Nat, k <= P, NEW m, Prefix(k, m.buf, m.flash)
  PROVE  Whole(k, Finish(m, k).flash)
<1> DEFINE o == k % S
           put == [i \in 0..P-1 |->
                     IF i < k - o THEN m.flash[i]
                     ELSE IF o # 0 /\ i < k - o + S THEN m.buf[i - (k - o)]
                     ELSE Zero]
<1>1. o \in 0..S - 1 /\ o <= k /\ S \in Nat \ {0} /\ P \in Nat
  BY SectorIs, Layout
<1>2. Finish(m, k).flash = put
  BY DEF Finish
<1>3. \A i \in 0..k - 1 : IF i < k - o THEN m.flash[i] = Wanted(i)
                          ELSE m.buf[i - (k - o)] = Wanted(i)
  BY DEF Prefix, Split, SectorOf
<1>4. \A i \in 0..P - 1 : put[i] = IF i < k - o THEN m.flash[i]
                     ELSE IF o # 0 /\ i < k - o + S THEN m.buf[i - (k - o)]
                     ELSE Zero
  OBVIOUS
<1> HIDE DEF o, put
<1>5. ASSUME NEW i \in 0..k - 1 PROVE put[i] = Wanted(i)
  <2>1. i \in 0..P - 1 /\ (~(i < k - o) => o # 0 /\ i < k - o + S)
    BY <1>1
  <2> QED BY <1>3, <1>4, <2>1
<1> QED BY <1>2, <1>5 DEF Whole

-----------------------------------------------------------------------------
(* The bytes of the wanted image in the first p bytes of the file.         *)
Got(p) == IF p < Start(target) + H THEN 0 ELSE p - (Start(target) + H)

Stored ==
  IF offset < len[target] THEN Prefix(offset, buf, flash) /\ Erased(offset, flash)
  ELSE offset = len[target] /\ Whole(offset, flash)

(* Where an attempt stands that is not astray.                             *)
AtStart == pos = 0 => /\ hdr.len = 0 /\ hdr.at = 0 /\ offset = 0
                      /\ target = 2 => skipped = 0
Skipping ==
  (pos > 0 /\ target = 2 /\ (pos < Start(2) \/ len[1] > P)) =>
     /\ hdr.at = 0 /\ hdr.len = H /\ offset = 0
     /\ len[1] <= P => skipped = pos - H
Storing ==
  (pos > Start(target) /\ (target = 2 => len[1] <= P)) =>
     /\ hdr.at = Start(target) /\ hdr.len = Min2(pos - Start(target), H)
     /\ hdr.len < H => offset = 0
     /\ IF len[target] <= P THEN offset = Min2(Got(pos), len[target])
        ELSE offset <= P

(* While the first image is skipped, the skip count is the bytes received  *)
(* behind its header; then the header is that of the wanted image and the  *)
(* offset the bytes of it received.                                        *)
OnCourse == /\ pos % B = 0 /\ total = pos
            /\ AtStart /\ Skipping /\ Storing /\ Stored

CourseInv ==
  /\ StreamInv
  /\ (phase = "loop" /\ ~SkipAstray) => OnCourse
  /\ GoodFileVerifies

(* What a pass that is not the extra one hands on to be stored: nothing,   *)
(* while the first image is skipped, or the next bytes of the image.       *)
Aside(r, e) ==
  /\ target = 2 /\ (len[1] > P \/ e < Start(2))
  /\ r.hdr.at = 0 /\ r.hdr.len = H /\ (r.n = 0 \/ r.ret = "err")
  /\ len[1] <= P => r.skipped = e - H

HandsOn(r, e) ==
  /\ target = 2 => len[1] <= P
  /\ e > Start(target)
  /\ r.hdr.at = Start(target) /\ r.hdr.len = Min2(e - Start(target), H)
  /\ r.n = Got(e) - Got(pos)
  /\ r.n > 0 => r.from = Start(target) + H + Got(pos)
  /\ len[target] <= P => r.ret = "ok"
  /\ r.ret = "err" \/ r.n = 0 \/ offset = Min2(Got(pos), len[target])

(* A pass ends at the end of the first image only if the skip goes astray. *)
LEMMA PassEnds ==
  ASSUME StreamTypes, ~SkipAstray, OnCourse, pos # FileLen, target = 2
  PROVE  pos # Start(2) /\ pos + PieceLen # Start(2)
<1>1. Start(2) % B # 0 /\ pos % B = 0
  BY DEF SkipAstray, OnCourse
<1>2. B \in Nat \ {0} /\ pos \in Nat /\ pos <= FileLen
  BY Layout, PieceIs
<1>3. Start(2) < FileLen /\ FileLen \in Nat
  BY Places, Layout
<1>4. (pos + B) % B = 0
  <2>1. 0 <= (pos % B) + B /\ (pos % B) + B < 2 * B /\ B \in Int
    BY <1>1, <1>2
  <2>2. (pos + B) % B = IF (pos % B) + B < B THEN (pos % B) + B ELSE (pos % B) + B - B
    BY Zenon, <1>2, <2>1, Further
  <2> QED BY <1>1, <1>2, <2>2
<1>5. PieceLen = B \/ pos + PieceLen = FileLen
  BY <1>2, <1>3, NextPiece DEF Min2
<1> QED BY <1>1, <1>3, <1>4, <1>5

LEMMA PassOnCourse ==
  ASSUME StreamTypes, ~SkipAstray, OnCourse, pos # FileLen,
         NEW r, r = ota_skip_and_get_ota_header(pos, PieceLen),
         NEW e, e = pos + PieceLen
  PROVE  ~r.wild /\ (Aside(r, e) \/ HandsOn(r, e))
<1> DEFINE n == PieceLen
           c == Collect(pos, n)
           got == ToCome(n)
           item == ItemOf(c.hdr)
<1>1. /\ n \in Nat \ {0} /\ pos \in Nat /\ (pos = 0 => n > H) /\ e = pos + n
      /\ hdr.len \in 0..H /\ hdr.at \in Int /\ H \in Nat \ {0} /\ P \in Nat
      /\ skipped \in Nat /\ target \in {1, 2}
  BY PieceIs, Layout DEF StreamTypes, Headers
<1>2. /\ len[1] \in Nat /\ len[2] \in Nat
      /\ Start(1) = 0 /\ Start(2) = H + len[1]
  BY Places
<1>3. target = 2 => pos # Start(2) /\ e # Start(2)
  BY PassEnds
<1> HIDE DEF n
<1>4. /\ got \in Nat /\ got <= n /\ hdr.len + got <= H /\ c \in Results
      /\ c = Result(Filled(hdr.len + got, IF hdr.len = 0 THEN pos ELSE hdr.at),
                    skipped, pos + got, n - got)
  <2>1. n \in Nat /\ pos \in Nat
    BY <1>1
  <2> HIDE DEF c, item
  <2> QED BY <2>1, CollectStep, Zenon DEF c
<1>5. /\ c.hdr.len = hdr.len + got /\ c.skipped = skipped /\ c.from = pos + got
      /\ c.n = n - got /\ ~c.wild /\ c.ret = "ok"
      /\ c.hdr.at = IF hdr.len = 0 THEN pos ELSE hdr.at
  <2> HIDE DEF c, got
  <2> DEFINE at == IF hdr.len = 0 THEN pos ELSE hdr.at
  <2> HIDE DEF at
  <2>1. c = Result(Filled(hdr.len + got, at), skipped, pos + got, n - got)
    BY <1>4 DEF at
  <2>2. /\ c.hdr = Filled(hdr.len + got, at) /\ c.skipped = skipped
        /\ c.from = pos + got /\ c.n = n - got /\ ~c.wild /\ c.ret = "ok"
    BY <2>1, ResultIs
  <2>3. c.hdr.len = hdr.len + got /\ c.hdr.at = at
    BY <2>2, FilledIs
  <2> QED BY <2>2, <2>3 DEF at
<1>6. ASSUME NEW k \in {1, 2}, c.hdr.at = Start(k)
      PROVE  item.addr = k /\ item.bin = len[k]
  <2>1. item = [addr |-> k, bin |-> len[k], ota |-> TRUE]
    BY Zenon, <1>6, TrueItem
  <2> QED BY <2>1
<1>7. r = IF n <= H - hdr.len /\ hdr.len < H THEN c
          ELSE IF P < item.bin THEN [c EXCEPT !.ret = "err"]
          ELSE IF item.addr # target THEN Skip(c, item.bin)
          ELSE c
  BY DEF ota_skip_and_get_ota_header, n
<1>8. /\ [c EXCEPT !.ret = "err"].hdr = c.hdr
           /\ [c EXCEPT !.ret = "err"].n = c.n
      /\ [c EXCEPT !.ret = "err"].ret = "err" /\ ~[c EXCEPT !.ret = "err"].wild
      /\ [c EXCEPT !.ret = "err"].from = c.from
  BY <1>4, <1>5 DEF Results
<1>9. /\ hdr.len = 0 => got = H \/ pos # 0
      /\ hdr.len = H => got = 0
      /\ got = IF n < H - hdr.len THEN n ELSE H - hdr.len
  BY <1>1 DEF Min2, ToCome
<1> HIDE DEF c, got, item
(* The header of the first image is full, and the device wants the second. *)
<1>10. ASSUME target = 2, pos < Start(2) \/ len[1] > P
       PROVE  ~r.wild /\ (Aside(r, e) \/ HandsOn(r, e))
  <2>1. /\ c.hdr.at = 0 /\ c.hdr.len = H /\ offset = 0
        /\ len[1] <= P => c.skipped + c.n = e - H /\ c.from - c.skipped = H
        /\ ~(n <= H - hdr.len /\ hdr.len < H)
    <3>1. CASE pos = 0
      <4>1. hdr.len = 0 /\ hdr.at = 0 /\ offset = 0 /\ skipped = 0
        BY <1>10, <3>1 DEF OnCourse, AtStart
      <4> QED BY <1>1, <1>5, <1>9, <3>1, <4>1
    <3>2. CASE pos > 0
      <4>1. hdr.at = 0 /\ hdr.len = H /\ offset = 0
            /\ (len[1] <= P => skipped = pos - H)
        BY <1>10, <3>2 DEF OnCourse, Skipping
      <4> QED BY <1>1, <1>5, <1>9, <3>2, <4>1
    <3> QED BY <1>1, <3>1, <3>2
  <2>2. item.addr = 1 /\ item.bin = len[1]
    BY <1>2, <1>6, <2>1
  <2>3. CASE len[1] > P
    <3>1. r = [c EXCEPT !.ret = "err"]
      BY <1>1, <1>2, <1>7, <2>1, <2>2, <2>3
    <3>2. r.hdr = c.hdr /\ r.ret = "err" /\ ~r.wild
      BY <1>8, <3>1
    <3> QED BY <1>1, <1>2, <1>10, <2>1, <2>3, <3>2 DEF Aside
  <2>4. CASE ~(len[1] > P)
    <3> DEFINE off == len[1] - c.skipped
               g == Min2(c.n - off, H)
    <3>0. /\ c.skipped \in Nat /\ c.n \in Nat /\ c.from \in Nat
          /\ c.skipped + c.n = e - H /\ c.from - c.skipped = H
               /\ pos < Start(2)
      BY <1>1, <1>2, <1>4, <1>10, <2>1, <2>4 DEF Results
    <3>1. r = Skip(c, len[1])
      BY <1>1, <1>2, <1>7, <1>10, <2>1, <2>2, <2>4
    <3>2. \/ /\ len[1] < 0 \/ c.skipped + c.n < len[1]
             /\ r = Result(c.hdr, c.skipped + c.n, c.from, 0)
          \/ len[1] >= 0 /\ c.skipped + c.n = len[1]
          \/ off < 0 /\ c.skipped + c.n # len[1]
          \/ /\ off \in Nat /\ c.n - off > 0 /\ g \in 1..H
             /\ r = Result(Filled(g, c.from + off), len[1], c.from + off + g,
                           c.n - off - g)
      <4>1. len[1] \in Int
        BY <1>2
      <4> QED BY <1>4, <3>1, <4>1, SkipStep
    <3>3. c.skipped <= len[1]
      <4>1. pos = 0 => skipped = 0
        BY <1>10 DEF OnCourse, AtStart
      <4>2. pos > 0 => skipped = pos - H
        BY <1>1, <1>2, <1>10, <2>4 DEF OnCourse, Skipping
      <4> QED BY <1>1, <1>2, <1>5, <3>0, <4>1, <4>2
    <3>4. CASE r = Result(c.hdr, c.skipped + c.n, c.from, 0)
               /\ (len[1] < 0 \/ c.skipped + c.n < len[1])
      <4>1. r.hdr = c.hdr /\ r.n = 0 /\ ~r.wild /\ r.skipped = c.skipped + c.n
        BY <3>4, ResultIs
      <4>2. e < Start(2)
        BY <1>1, <1>2, <3>0, <3>4
      <4> QED BY <1>10, <2>1, <3>0, <4>1, <4>2 DEF Aside
    <3>5. ~(c.skipped + c.n = len[1])
      BY <1>1, <1>2, <1>3, <1>10, <3>0
    <3>6. CASE /\ off \in Nat /\ c.n - off > 0 /\ g \in 1..H
               /\ r = Result(Filled(g, c.from + off), len[1], c.from + off + g,
                             c.n - off - g)
      <4>1. g = Min2(e - Start(2), H)
        <5>1. c.n - off = e - Start(2)
          BY <1>1, <1>2, <3>0
        <5> QED BY <5>1
      <4>2. c.from + off = Start(2) /\ c.n - off = e - Start(2)
        BY <1>1, <1>2, <3>0
      <4> HIDE DEF off, g
      <4>3. /\ r.hdr.at = c.from + off /\ r.hdr.len = g
            /\ r.from = c.from + off + g /\ r.n = c.n - off - g
            /\ r.ret = "ok" /\ ~r.wild
        BY <3>6, ResultIs, FilledIs
      <4>4. Got(pos) = 0 /\ Got(e) = (IF e < Start(2) + H THEN 0 ELSE e - (Start(2) + H))
        BY <1>1, <1>2, <1>10, <3>0 DEF Got
      <4>5. e > Start(2) /\ r.n = Got(e) - Got(pos)
        BY <1>1, <1>2, <3>6, <4>1, <4>2, <4>3, <4>4 DEF Min2
      <4>6. r.n > 0 => r.from = Start(2) + H + Got(pos)
        BY <1>1, <1>2, <3>6, <4>1, <4>2, <4>3, <4>4 DEF Min2
      <4>7. offset = Min2(Got(pos), len[2])
        BY <1>2, <2>1, <4>4 DEF Min2
      <4> QED BY <1>1, <1>2, <1>10, <2>4, <4>1, <4>2, <4>3, <4>5, <4>6, <4>7 DEF HandsOn
    <3>7. ~(off < 0)
      BY <1>2, <3>0, <3>3
    <3>8. ~r.wild /\ (Aside(r, e) \/ HandsOn(r, e))
      <4> HIDE DEF off, g
      <4> QED BY Zenon, <3>2, <3>4, <3>5, <3>6, <3>7
    <3> QED BY <3>8
  <2> QED BY <2>3, <2>4
(* The header is, or is going to be, that of the wanted image.             *)
<1>11. ASSUME ~(target = 2 /\ (pos < Start(2) \/ len[1] > P))
       PROVE  ~r.wild /\ (Aside(r, e) \/ HandsOn(r, e))
  <2>1. target = 2 => len[1] <= P /\ pos > Start(2)
    BY <1>1, <1>2, <1>3, <1>11
  <2>2. Start(target) \in Nat /\ len[target] \in Nat /\ pos >= Start(target)
    BY <1>1, <1>2, <2>1
  <2>3. /\ hdr.len = Min2(pos - Start(target), H)
        /\ (hdr.len = 0 => pos = Start(target))
             /\ (hdr.len # 0 => hdr.at = Start(target))
        /\ len[target] <= P => offset = Min2(Got(pos), len[target])
        /\ hdr.len < H => offset = 0
    <3>1. CASE pos = 0
      <4>1. target = 1 /\ hdr.len = 0 /\ offset = 0 /\ Start(target) = 0
        BY <1>1, <1>2, <2>1, <3>1 DEF OnCourse, AtStart
      <4>2. Got(pos) = 0
        BY <1>1, <3>1, <4>1 DEF Got
      <4> QED BY <1>1, <2>2, <3>1, <4>1, <4>2 DEF Min2
    <3>2. CASE pos > 0
      <4>1. pos > Start(target)
        BY <1>1, <1>2, <2>1, <3>2
      <4>2. /\ hdr.at = Start(target) /\ hdr.len = Min2(pos - Start(target), H)
            /\ hdr.len < H => offset = 0
            /\ len[target] <= P => offset = Min2(Got(pos), len[target])
        BY <2>1, <4>1 DEF OnCourse, Storing
      <4>3. hdr.len # 0
        BY <1>1, <2>2, <4>1, <4>2 DEF Min2
      <4> QED BY <4>2, <4>3
    <3> QED BY <1>1, <3>1, <3>2
  <2>4. c.hdr.at = Start(target)
    BY <1>5, <2>3
  <2>5. item.addr = target /\ item.bin = len[target]
    BY <1>1, <1>6, <2>4
  <2>6. e > Start(target) /\ c.hdr.len = Min2(e - Start(target), H)
    BY <1>1, <1>5, <1>9, <2>2, <2>3 DEF Min2
  <2>7. c.n = Got(e) - Got(pos)
    BY <1>1, <1>5, <1>9, <2>2, <2>3 DEF Min2, Got
  <2>8. c.n > 0 => c.from = Start(target) + H + Got(pos)
    BY <1>1, <1>5, <1>9, <2>2, <2>3 DEF Min2, Got
  <2>9. (n <= H - hdr.len /\ hdr.len < H) => c.n = 0
    BY <1>1, <1>5, <1>9
  <2>10. \/ r = c /\ (c.n = 0 \/ len[target] <= P)
         \/ r = [c EXCEPT !.ret = "err"] /\ len[target] > P
    BY <1>1, <1>7, <2>2, <2>5, <2>9
  <2>11. /\ r.hdr = c.hdr /\ r.n = c.n /\ r.from = c.from /\ ~r.wild
         /\ len[target] <= P => r.ret = "ok"
         /\ r.ret = "err" \/ r.n = 0 \/ len[target] <= P
    <3>1. CASE r = c /\ (c.n = 0 \/ len[target] <= P)
      BY <1>5, <3>1
    <3>2. CASE r = [c EXCEPT !.ret = "err"] /\ len[target] > P
      <4>1. /\ r.hdr = c.hdr /\ r.n = c.n /\ r.from = c.from /\ ~r.wild
            /\ r.ret = "err"
        BY <1>8, <3>2
      <4> QED BY <1>1, <2>2, <3>2, <4>1
    <3> QED BY <2>10, <3>1, <3>2
  <2> QED BY <2>1, <2>3, <2>4, <2>6, <2>7, <2>8, <2>11 DEF HandsOn
<1> QED BY <1>10, <1>11

(* What is stored of what a pass hands on.                                 *)
LEMMA StoreOnCourse ==
  ASSUME StreamTypes, Stored, NEW q \in Results, Store(q), q.n < S,
         q.hdr.at = Start(target), UNCHANGED <<len, target>>, NEW g \in Nat,
         q.n > 0 => q.from = Start(target) + H + g,
         q.ret = "err" \/ q.n = 0 \/ offset = Min2(g, len[target])
  PROVE  /\ Stored'
         /\ (q.n = 0 \/ q.ret = "err") => offset' = offset
         /\ offset <= P => offset' <= P
         /\ (q.ret = "ok" /\ len[target] <= P
              /\ offset = Min2(g, len[target])) =>
              offset' = Min2(g + q.n, len[target]) /\ ret' = "ok"
<1> DEFINE w == Min2(q.n, len[target] - offset)
           m == WriteFlash(q.from, w)
<1>1. /\ q.n \in Nat /\ q.from \in Nat /\ q.ret \in {"ok", "err"}
           /\ offset \in Nat
      /\ target \in {1, 2}
  BY DEF Results, StreamTypes
<1>2. len[target] \in Nat /\ Start(target) \in Nat /\ H \in Nat /\ S \in Nat /\ P \in Nat
  BY <1>1, Places, Layout
<1>3. ItemOf(q.hdr) = [addr |-> target, bin |-> len[target], ota |-> TRUE]
  BY <1>1, TrueItem
<1>3a. ItemOf(q.hdr).bin = len[target] /\ ItemOf(q.hdr).ota
  BY <1>3
<1>4. \/ /\ q.ret = "err" \/ q.n = 0 \/ offset >= len[target]
         /\ ret' = q.ret /\ UNCHANGED <<offset, buf, flash>>
      \/ /\ ~(q.ret = "err" \/ q.n = 0 \/ offset >= len[target])
         /\ P < offset + w /\ UNCHANGED <<offset, buf, flash>>
      \/ /\ ~(q.ret = "err" \/ q.n = 0 \/ offset >= len[target])
         /\ ~(P < offset + w) /\ ret' = "ok" /\ offset' = offset + w
         /\ offset + w = len[target] => flash' = Finish(m, offset + w).flash
         /\ offset + w # len[target] => buf' = m.buf /\ flash' = m.flash
  BY <1>3a DEF Store
<1>5. \A i : Wanted(i)' = Wanted(i)
  BY DEF Wanted, Start
<1>6. CASE UNCHANGED <<offset, buf, flash>>
  <2>1. Stored'
    <3>1. Prefix(offset, buf, flash)' = Prefix(offset, buf, flash)
      BY <1>5, <1>6 DEF Prefix, Split, SectorOf
    <3>2. Whole(offset, flash)' = Whole(offset, flash)
      BY <1>5, <1>6 DEF Whole
    <3>3. Erased(offset, flash)' = Erased(offset, flash)
      BY <1>6 DEF Erased, Clear, SectorOf
    <3> QED BY <1>6, <3>1, <3>2, <3>3 DEF Stored
  <2>2. (q.ret = "ok" /\ len[target] <= P /\ offset = Min2(g, len[target])) =>
           offset' = Min2(g + q.n, len[target]) /\ ret' = "ok"
    <3> SUFFICES ASSUME q.ret = "ok", len[target] <= P, offset = Min2(g, len[target])
                 PROVE  offset' = Min2(g + q.n, len[target]) /\ ret' = "ok"
      OBVIOUS
    <3>1. q.n = 0 \/ offset >= len[target] => offset = Min2(g + q.n, len[target])
      BY <1>1, <1>2 DEF Min2
    <3>2. ~(P < offset + w) \/ offset >= len[target]
      BY <1>1, <1>2 DEF Min2
    <3>3. CASE q.n = 0 \/ offset >= len[target]
      <4>1. offset' = offset /\ ret' = "ok"
        BY <1>4, <1>6, <3>3
      <4> QED BY <1>1, <1>2, <3>3, <4>1 DEF Min2
    <3>4. CASE ~(q.n = 0 \/ offset >= len[target])
      <4>1. w > 0 /\ w \in Int
        BY <1>1, <1>2, <3>4 DEF Min2
      <4> HIDE DEF w, m
      <4>2. offset' = offset + w
        BY <1>4, <3>2, <3>4
      <4> QED BY <1>1, <1>6, <4>1, <4>2
    <3> QED BY <3>3, <3>4
  <2> QED BY <1>6, <2>1, <2>2
<1>7. CASE /\ ~(q.ret = "err" \/ q.n = 0 \/ offset >= len[target])
           /\ ~(P < offset + w) /\ ret' = "ok" /\ offset' = offset + w
           /\ offset + w = len[target] => flash' = Finish(m, offset + w).flash
           /\ offset + w # len[target] => buf' = m.buf /\ flash' = m.flash
  <2>1. offset = Min2(g, len[target]) /\ offset = g /\ offset < len[target] /\ q.n > 0
    BY <1>1, <1>2, <1>7 DEF Min2
  <2>2. w \in 1..S /\ w <= q.n /\ offset + w <= len[target] /\ w = Min2(q.n, len[target] - offset)
    BY <1>1, <1>2, <2>1 DEF Min2
  <2>3. q.from = Wanted(offset)
    BY <1>1, <1>2, <2>1 DEF Wanted
  <2>4. Prefix(offset, buf, flash) /\ Erased(offset, flash)
    BY <2>1 DEF Stored
  <2> HIDE DEF w
  <2>5. offset + w <= P /\ offset + w \in Nat
    BY <1>1, <1>2, <1>7, <2>2
  <2>6. Prefix(offset + w, m.buf, m.flash) /\ Erased(offset + w, m.flash)
    BY <2>2, <2>3, <2>4, <2>5, WritePrefix
  <2> HIDE DEF m
  <2>7. Stored'
    <3>1. CASE offset + w = len[target]
      <4>1. Whole(offset + w, flash')
        BY <1>7, <2>5, <2>6, <3>1, FinishWhole
      <4>2. Whole(offset, flash)'
        BY <1>5, <1>7, <4>1 DEF Whole
      <4>3. ~(offset' < len'[target']) /\ offset' = len'[target']
        BY <1>2, <1>7, <3>1
      <4> QED BY <4>2, <4>3 DEF Stored
    <3>2. CASE offset + w # len[target]
      <4>1. Prefix(offset, buf, flash)' /\ Erased(offset, flash)'
        BY <1>5, <1>7, <2>6, <3>2 DEF Prefix, Split, Erased, Clear, SectorOf
      <4>2. offset' < len'[target']
        BY <1>1, <1>2, <1>7, <2>2, <3>2
      <4> QED BY <4>1, <4>2 DEF Stored
    <3> QED BY <3>1, <3>2
  <2>8. offset' = Min2(g + q.n, len[target])
    BY <1>1, <1>2, <1>7, <2>1, <2>2 DEF Min2
  <2> QED BY <1>7, <2>5, <2>7, <2>8
<1> QED BY <1>4, <1>6, <1>7

(* What is stored goes where the flash is erased.                          *)
LEMMA StoreOnErased ==
  ASSUME StreamTypes, Stored, NEW q \in Results, Store(q), q.n < S,
         q.hdr.at = Start(target),
         NEW i \in 0..P - 1, flash'[i] # flash[i]
  PROVE  flash[i] = Blank
<1> DEFINE w == Min2(q.n, len[target] - offset)
           m == WriteFlash(q.from, w)
           o == offset % S
           end == offset + w
<1>1. /\ q.n \in Nat /\ offset \in Nat /\ target \in {1, 2} /\ S \in Nat \ {0} /\ P \in Nat
  BY Layout DEF Results, StreamTypes
<1>2. len[target] \in Nat
  BY <1>1, Places
<1>3. ItemOf(q.hdr) = [addr |-> target, bin |-> len[target], ota |-> TRUE]
  BY <1>1, TrueItem
<1>4. ItemOf(q.hdr).bin = len[target] /\ ItemOf(q.hdr).ota
  BY <1>3
<1>5. /\ q.n # 0 /\ offset < len[target]
      /\ end = len[target] => flash' = Finish(m, end).flash
      /\ end # len[target] => flash' = m.flash
  BY <1>1, <1>2, <1>4 DEF Store
<1>6. w \in 1..S - 1
  BY <1>1, <1>2, <1>5 DEF Min2
<1>7. o \in 0..S - 1
  BY <1>1, SectorIs
<1>8. Erased(offset, flash)
  BY <1>5 DEF Stored
<1>9. ~(i < offset - o) => flash[i] = Blank
  BY <1>1, <1>7, <1>8 DEF Erased, Clear, SectorOf
<1>10. i < offset - o => m.flash[i] = flash[i]
  BY <1>1, <1>7 DEF WriteFlash
<1> HIDE DEF w, m
<1>11. end % S = IF o + w < S THEN o + w ELSE o + w - S
  <2>1. 0 <= (offset % S) + w /\ (offset % S) + w < 2 * S /\ w \in Int
    BY <1>1, <1>6, <1>7
  <2> QED BY Zenon, <1>1, <2>1, Further
<1>12. i < offset - o => i < end - (end % S)
  BY <1>1, <1>6, <1>7, <1>11
<1> HIDE DEF o, end
<1>13. i < end - (end % S) => Finish(m, end).flash[i] = m.flash[i]
  BY DEF Finish
<1> QED BY <1>5, <1>9, <1>10, <1>12, <1>13

(* Whether the skip goes astray is settled when an attempt begins.         *)
LEMMA Astray == UNCHANGED <<len, target, before>> => SkipAstray' = SkipAstray
BY DEF SkipAstray, Start

(* A pass that is not the extra one keeps on course, and the last one ends *)
(* well if the images fit.                                                 *)
LEMMA PassKeepsCourse ==
  ASSUME StreamTypes, HeaderIsTold, ReceivePiece, ~SkipAstray, OnCourse, pos # FileLen
  PROVE  /\ phase' # "wild"
         /\ phase' = "rejected" => starved' \/ \E k \in 1..target : len[k] > P
         /\ phase' = "loop" => OnCourse'
<1> DEFINE r == ota_skip_and_get_ota_header(pos, PieceLen)
           q == [r EXCEPT !.hdr = hdr']
           e == pos + PieceLen
<1>1. /\ UNCHANGED <<len, target, before>>
      /\ pos' = Min2(pos + PieceLen, FileLen) /\ total' = total + PieceLen
      /\ skipped' = r.skipped
      /\ r \in Results /\ q \in Results /\ hdr' \in Headers
      /\ hdr'.len = r.hdr.len /\ hdr'.at = r.hdr.at
      /\ q.hdr = hdr' /\ q.n = r.n /\ q.from = r.from /\ q.ret = r.ret
      /\ \/ r.wild /\ phase' = "wild" /\ UNCHANGED <<offset, buf, flash, ret>>
         \/ /\ ~r.wild /\ Store(q)
            /\ AfterPass(PieceLen)
  BY ReceiveIs
<1>2. ~r.wild /\ (Aside(r, e) \/ HandsOn(r, e))
  BY PassOnCourse
<1>3. /\ pos \in Nat /\ pos < FileLen /\ FileLen \in Nat
           /\ PieceLen \in Nat \ {0}
      /\ e <= FileLen /\ PieceLen <= B /\ (PieceLen # B => e = FileLen)
      /\ PieceLen < S /\ B \in Nat \ {0}
  <2>1. pos \in Nat /\ pos <= FileLen /\ PieceLen \in Nat \ {0} /\ FileLen \in Nat
    BY PieceIs, Places
  <2>2. pos < FileLen /\ PieceLen = Min2(B, FileLen - pos)
    BY <2>1, NextPiece
  <2> HIDE DEF e
  <2>3. /\ PieceLen <= B /\ (PieceLen # B => pos + PieceLen = FileLen)
        /\ pos + PieceLen <= FileLen /\ PieceLen < S
    BY <2>1, <2>2, Layout DEF Min2
  <2> QED BY <2>1, <2>2, <2>3, Layout DEF e
<1>4. /\ len[1] \in Nat /\ len[2] \in Nat /\ len[1] > TailLen
           /\ len[2] > TailLen
      /\ Start(1) = 0 /\ Start(2) = H + len[1]
           /\ FileLen = Start(2) + H + len[2]
      /\ H \in Nat \ {0} /\ P \in Nat /\ TailLen \in Nat
      /\ target \in {1, 2} /\ offset \in Nat
  BY Places, Layout DEF StreamTypes
<1>5. /\ Store(q) /\ phase' # "wild" /\ pos' = e /\ total' = e /\ e \in Nat
           /\ e > pos
      /\ phase' = "loop" <=> PieceLen = B
      /\ phase' = "rejected" => \/ starved'
                               \/ ret' # "ok" \/ total' # FileLen
                               \/ \A k \in {1, 2} : ~Passes(k, hdr', flash')
  <2>1. total = pos
    BY DEF OnCourse
  <2>2. Min2(e, FileLen) = e
    BY <1>3 DEF Min2
  <2> HIDE DEF r, q
  <2>3. Store(q) /\ AfterPass(PieceLen)
    BY <1>1, <1>2
  <2> QED BY <1>1, <1>3, <2>1, <2>2, <2>3, AfterPassIs
<1>6. PieceLen = B => e % B = 0
  <2>1. pos % B = 0 /\ 0 <= (pos % B) + B /\ (pos % B) + B < 2 * B /\ B \in Int
    BY <1>3 DEF OnCourse
  <2>2. (pos + B) % B = IF (pos % B) + B < B THEN (pos % B) + B ELSE (pos % B) + B - B
    BY <1>3, <2>1, Further, ZenonT(60)
  <2> QED BY <1>3, <2>1, <2>2
<1>7. Stored /\ (\A k \in {1, 2} : Start(k)' = Start(k)) /\ (\A p : Got(p)' = Got(p))
  BY <1>1 DEF OnCourse, Start, Got
<1>8. Got(pos) \in Nat /\ Got(e) \in Nat /\ Got(e) <= e
  BY <1>3, <1>4, <1>5 DEF Got
<1> HIDE DEF r, q, e
<1>9. CASE Aside(r, e)
  <2>1. /\ target = 2 /\ (len[1] > P \/ e < Start(2))
        /\ hdr'.at = 0 /\ hdr'.len = H /\ (q.n = 0 \/ q.ret = "err")
        /\ len[1] <= P => skipped' = e - H
    BY <1>1, <1>9 DEF Aside
  <2>2. offset = 0
    <3>1. CASE pos = 0
      BY <3>1 DEF OnCourse, AtStart
    <3>2. CASE pos > 0
      <4>1. pos < Start(2) \/ len[1] > P
        BY <1>3, <1>4, <1>5, <2>1
      <4> QED BY <2>1, <3>2, <4>1 DEF OnCourse, Skipping
    <3> QED BY <1>3, <3>1, <3>2
  <2>3. UNCHANGED <<offset, buf, flash>>
    BY <1>1, <1>5, <2>1, StoreTypes
  <2>4. Stored'
    <3>1. \A i : Wanted(i)' = Wanted(i)
      BY <1>1 DEF Wanted, Start
    <3>2. Prefix(offset, buf, flash)' = Prefix(offset, buf, flash)
      BY <2>3, <3>1 DEF Prefix, Split, SectorOf
    <3>3. Whole(offset, flash)' = Whole(offset, flash)
      BY <2>3, <3>1 DEF Whole
    <3>4. Erased(offset, flash)' = Erased(offset, flash)
      BY <2>3 DEF Erased, Clear, SectorOf
    <3> QED BY <1>1, <1>7, <2>3, <3>2, <3>3, <3>4 DEF Stored
  <2>5. phase' = "rejected" => \E k \in 1..target : len[k] > P
    <3>1. ASSUME phase' = "rejected" PROVE len[1] > P
      <4>1. e = FileLen
        BY <1>3, <1>5, <3>1 DEF e
      <4> QED BY <1>4, <2>1, <4>1
    <3>2. 1 \in 1..target
      BY <2>1
    <3> QED BY <3>1, <3>2
  <2>6. AtStart'
    BY <1>3, <1>5 DEF AtStart
  <2>7. Skipping'
    BY <1>1, <1>5, <1>7, <2>1, <2>2, <2>3 DEF Skipping
  <2>8. Storing'
    <3>1. ~(pos' > Start(target)' /\ (target' = 2 => len'[1] <= P))
      BY <1>1, <1>4, <1>5, <1>7, <2>1
    <3> QED BY <3>1 DEF Storing
  <2>9. phase' = "loop" => pos' % B = 0 /\ total' = pos'
    BY <1>5, <1>6
  <2> QED BY <1>5, <2>4, <2>5, <2>6, <2>7, <2>8, <2>9 DEF OnCourse
<1>10. CASE HandsOn(r, e)
  <2>1. /\ target = 2 => len[1] <= P
        /\ e > Start(target)
        /\ hdr'.at = Start(target) /\ hdr'.len = Min2(e - Start(target), H)
        /\ q.n = Got(e) - Got(pos)
        /\ q.n > 0 => q.from = Start(target) + H + Got(pos)
        /\ len[target] <= P => q.ret = "ok"
        /\ q.ret = "err" \/ q.n = 0 \/ offset = Min2(Got(pos), len[target])
    BY <1>1, <1>10 DEF HandsOn
  <2>1a. Start(target) \in Nat /\ len[target] \in Nat
    BY <1>4
  <2>2. q.n < S
    <3>1. Got(e) - Got(pos) <= PieceLen
      BY <1>3, <1>4, <2>1a DEF Got, e
    <3> QED BY <1>3, <1>8, <2>1, <3>1, Layout
  <2>2a. pos <= Start(target) => offset = 0
    <3> SUFFICES ASSUME pos <= Start(target) PROVE offset = 0
      OBVIOUS
    <3>1. CASE pos = 0
      BY <3>1 DEF OnCourse, AtStart
    <3>2. CASE pos > 0
      <4>1. target = 2
        BY <1>3, <1>4, <3>2
      <4>2. pos # Start(2)
        BY <4>1, PassEnds
      <4>3. pos < Start(2)
        BY <1>3, <1>4, <4>1, <4>2
      <4> QED BY <3>2, <4>1, <4>3 DEF OnCourse, Skipping
    <3> QED BY <1>3, <3>1, <3>2
  <2>3. len[target] <= P => offset = Min2(Got(pos), len[target])
    <3>1. CASE pos <= Start(target)
      <4>1. Got(pos) = 0
        BY <1>3, <1>4, <2>1a, <3>1 DEF Got
      <4> QED BY <2>1a, <2>2a, <3>1, <4>1 DEF Min2
    <3>2. CASE pos > Start(target)
      BY <2>1, <3>2 DEF OnCourse, Storing
    <3> QED BY <1>3, <2>1a, <3>1, <3>2
  <2>4. offset <= P /\ (hdr'.len < H => offset = 0)
    <3>1. CASE pos > Start(target)
      <4>1. /\ hdr.len = Min2(pos - Start(target), H)
                 /\ (hdr.len < H => offset = 0)
            /\ offset = Min2(Got(pos), len[target]) \/ offset <= P
            /\ len[target] <= P => offset = Min2(Got(pos), len[target])
        BY <2>1, <3>1 DEF OnCourse, Storing
      <4>2. hdr'.len < H => hdr.len < H
        BY <1>3, <1>4, <1>5, <2>1, <2>1a, <4>1 DEF Min2
      <4>3. offset <= P
        <5>1. CASE len[target] <= P
          BY <1>4, <1>8, <2>1a, <4>1, <5>1 DEF Min2
        <5>2. CASE ~(len[target] <= P)
          BY <2>1, <3>1, <5>2 DEF OnCourse, Storing
        <5> QED BY <5>1, <5>2
      <4> QED BY <4>1, <4>2, <4>3
    <3>2. CASE ~(pos > Start(target))
      <4>1. offset = 0
        BY <1>3, <2>1a, <2>2a, <3>2
      <4> QED BY <1>4, <4>1
    <3> QED BY <3>1, <3>2
  <2>5. /\ Stored'
        /\ (q.n = 0 \/ q.ret = "err") => offset' = offset
        /\ offset <= P => offset' <= P
        /\ (q.ret = "ok" /\ len[target] <= P
             /\ offset = Min2(Got(pos), len[target])) =>
              offset' = Min2(Got(pos) + q.n, len[target]) /\ ret' = "ok"
    <3>1. UNCHANGED <<len, target>> /\ q.hdr.at = Start(target)
      BY <1>1, <2>1
    <3> QED BY <1>1, <1>5, <1>7, <1>8, <2>1, <2>2, <3>1, StoreOnCourse
  <2>6. len[target] <= P => offset' = Min2(Got(e), len[target]) /\ ret' = "ok"
    <3>1. Got(pos) + q.n = Got(e)
      BY <1>8, <2>1
    <3> QED BY <2>1, <2>3, <2>5, <3>1
  <2>7. phase' = "rejected" => starved' \/ \E k \in 1..target : len[k] > P
    <3> SUFFICES ASSUME phase' = "rejected", len[target] <= P, ~starved' PROVE FALSE
      <4>1. target \in 1..target
        BY <1>4
      <4>2. ~(len[target] <= P) => len[target] > P
        BY <1>4, <2>1a
      <4> QED BY <4>1, <4>2
    <3>1. PieceLen # B /\ e = FileLen
      BY <1>3, <1>5 DEF e
    <3>2. Got(e) >= len[target] /\ e - Start(target) >= H
      BY <1>4, <2>1a, <3>1 DEF Got
    <3>3. offset' = len[target] /\ ret' = "ok" /\ total' = FileLen
      BY <1>5, <1>8, <2>1a, <2>6, <3>1, <3>2 DEF Min2
    <3>4. hdr'.len = H
      BY <1>4, <1>5, <2>1, <2>1a, <3>2 DEF Min2
    <3>5. \A i \in 0..len[target] - 1 : flash'[i] = Start(target) + H + i
      <4>1. Whole(offset, flash)'
        BY <1>1, <2>1a, <2>5, <3>3 DEF Stored
      <4>2. \A i : Wanted(i)' = Start(target) + H + i
        BY <1>1 DEF Wanted, Start
      <4> QED BY <3>3, <4>1, <4>2 DEF Whole
    <3>6. Passes(target, hdr', flash')
      <4>1. ItemOf(hdr') = [addr |-> target, bin |-> len[target], ota |-> TRUE]
        BY <1>4, <2>1, TrueItem
      <4>2. ItemOf(hdr').bin = len[target] /\ len[target] \in TailLen..P
        BY <1>4, <2>1a, <4>1
      <4>3. ASSUME NEW i \in len[target] - TailLen..len[target] - 1
            PROVE  flash'[i] = Start(target) + H + len[target] - len[target] + i
        <5>1. i \in 0..len[target] - 1
          BY <1>4, <2>1a
        <5>2. flash'[i] = Start(target) + H + i
          BY <3>5, <5>1
        <5> QED BY <1>4, <2>1a, <5>1, <5>2
      <4>4. ASSUME NEW i \in 0..len[target] - TailLen - 1
            PROVE  flash'[i] = Start(target) + H + i
        <5>1. i \in 0..len[target] - 1
          BY <1>4, <2>1a
        <5> QED BY <3>5, <5>1
      <4> QED BY <2>1, <3>4, <4>2, <4>3, <4>4 DEF Passes
    <3> QED BY <1>4, <1>5, <3>1, <3>3, <3>6
  <2>8. AtStart'
    BY <1>3, <1>5 DEF AtStart
  <2>9. Skipping'
    <3>1. ~(target' = 2 /\ (pos' < Start(2)' \/ len'[1] > P))
      BY <1>1, <1>4, <1>5, <1>7, <2>1
    <3> QED BY <3>1 DEF Skipping
  <2>10. Storing'
    <3>1. hdr'.len < H => offset' = 0
      <4>1. hdr'.len < H => Got(e) = 0 /\ Got(pos) = 0
        BY <1>3, <1>4, <1>5, <2>1, <2>1a DEF Min2, Got
      <4> QED BY <2>1, <2>4, <2>5, <4>1
    <3>2. IF len[target] <= P THEN offset' = Min2(Got(e), len[target]) ELSE offset' <= P
      BY <2>4, <2>5, <2>6
    <3> QED BY <1>1, <1>4, <1>5, <1>7, <2>1, <3>1, <3>2 DEF Storing
  <2>11. phase' = "loop" => pos' % B = 0 /\ total' = pos'
    BY <1>5, <1>6
  <2> QED BY <1>5, <2>5, <2>7, <2>8, <2>9, <2>10, <2>11 DEF OnCourse
<1> QED BY <1>2, <1>9, <1>10

(* The pass behind the end of a file whose last piece filled the buffer    *)
(* reads no foreign memory, and has nothing to store.                      *)
LEMMA ExtraPassIsTame ==
  ASSUME StreamTypes, OnCourse, pos = FileLen,
         NEW x, x = ota_skip_and_get_ota_header(pos, PieceLen)
  PROVE  /\ ~x.wild
         /\ x.ret = "err" \/ (x.hdr.at = Start(target) /\ offset = len[target])
<1> DEFINE n == PieceLen
           c == Collect(pos, n)
           got == ToCome(n)
           item == ItemOf(c.hdr)
           r == ota_skip_and_get_ota_header(pos, n)
<1>1. /\ n \in Nat \ {0} /\ pos \in Nat /\ hdr.len \in 0..H
      /\ H \in Nat \ {0} /\ P \in Nat /\ target \in {1, 2}
  BY PieceIs, Layout DEF StreamTypes, Headers
<1>2. /\ len[1] \in Nat /\ len[2] \in Nat
      /\ Start(1) = 0 /\ Start(2) = H + len[1]
           /\ FileLen = Start(2) + H + len[2]
  BY Places
<1> HIDE DEF n
<1>3. /\ c \in Results
      /\ c = Result(Filled(hdr.len + got, IF hdr.len = 0 THEN pos ELSE hdr.at),
                    skipped, pos + got, n - got)
  <2>1. n \in Nat /\ pos \in Nat
    BY <1>1
  <2> HIDE DEF c, item, r
  <2> QED BY <2>1, CollectStep, Zenon DEF c
<1>4. r = IF n <= H - hdr.len /\ hdr.len < H THEN c
          ELSE IF P < item.bin THEN [c EXCEPT !.ret = "err"]
          ELSE IF item.addr # target THEN Skip(c, item.bin)
          ELSE c
  BY DEF ota_skip_and_get_ota_header, n
<1>5. ~c.wild /\ c.hdr.at = IF hdr.len = 0 THEN pos ELSE hdr.at
  <2> HIDE DEF c, got
  <2> DEFINE at == IF hdr.len = 0 THEN pos ELSE hdr.at
  <2> HIDE DEF at
  <2>1. c = Result(Filled(hdr.len + got, at), skipped, pos + got, n - got)
    BY <1>3 DEF at
  <2>2. c.hdr = Filled(hdr.len + got, at) /\ ~c.wild
    BY <2>1, ResultIs
  <2>3. c.hdr.at = at
    BY <2>2, FilledIs
  <2> QED BY <2>2, <2>3 DEF at
<1>6. ~[c EXCEPT !.ret = "err"].wild /\ [c EXCEPT !.ret = "err"].ret = "err"
  BY <1>3, <1>5 DEF Results
<1>7. ASSUME NEW k \in {1, 2}, c.hdr.at = Start(k)
      PROVE  item.addr = k /\ item.bin = len[k]
  <2>1. item = [addr |-> k, bin |-> len[k], ota |-> TRUE]
    BY Zenon, <1>7, TrueItem
  <2> QED BY <2>1
<1> HIDE DEF c, got, item, r
<1>8. CASE target = 2 /\ len[1] > P
  <2>1. hdr.at = 0 /\ hdr.len = H
    BY <1>1, <1>2, <1>8 DEF OnCourse, Skipping
  <2>2. item.bin = len[1]
    BY <1>1, <1>2, <1>5, <1>7, <2>1
  <2>3. r = [c EXCEPT !.ret = "err"]
    BY <1>1, <1>2, <1>4, <1>8, <2>1, <2>2
  <2> QED BY <1>6, <2>3 DEF r, n
<1>9. CASE ~(target = 2 /\ len[1] > P)
  <2>1. pos > Start(target) /\ (target = 2 => len[1] <= P)
    BY <1>1, <1>2, <1>9
  <2>2. hdr.at = Start(target) /\ hdr.len = Min2(pos - Start(target), H)
    BY <2>1 DEF OnCourse, Storing
  <2>3. hdr.len = H
    BY <1>1, <1>2, <2>2 DEF Min2
  <2>4. item.addr = target /\ item.bin = len[target] /\ c.hdr.at = Start(target)
    BY <1>1, <1>5, <1>7, <2>2, <2>3
  <2>5. \/ r = c /\ len[target] <= P
        \/ r = [c EXCEPT !.ret = "err"]
    BY <1>1, <1>2, <1>4, <2>3, <2>4
  <2>6. len[target] <= P => offset = len[target]
    <3>1. len[target] <= P => offset = Min2(Got(pos), len[target])
      BY <2>1 DEF OnCourse, Storing
    <3>2. Got(pos) \in Nat /\ Got(pos) >= len[target]
      BY <1>1, <1>2, <1>9 DEF Got
    <3> QED BY <1>1, <1>2, <3>1, <3>2 DEF Min2
  <2> QED BY <1>5, <1>6, <2>4, <2>5, <2>6 DEF r, n
<1> QED BY <1>8, <1>9

LEMMA StepCourse == CourseInv /\ [StreamNext]_streamvars => CourseInv'
<1> SUFFICES ASSUME CourseInv, [StreamNext]_streamvars PROVE CourseInv'
  OBVIOUS
<1>1. StreamInv'
  BY StepStream DEF CourseInv
<1>2. CASE BeginAttempt
  <2>1. /\ phase' = "loop" /\ pos' = 0 /\ total' = 0 /\ offset' = 0
        /\ hdr' = Filled(0, 0) /\ before' = skipped
             /\ UNCHANGED <<len, target, skipped>>
        /\ flash' = [i \in 0..P-1 |-> Blank]
    BY <1>2 DEF BeginAttempt
  <2>2. hdr'.len = 0 /\ hdr'.at = 0
    BY <2>1 DEF Filled
  <2>3. GoodFileVerifies'
    BY <2>1 DEF GoodFileVerifies
  <2>4. ASSUME ~SkipAstray' PROVE OnCourse'
    <3>1. target = 2 => skipped' = 0
      BY <2>1, <2>4 DEF SkipAstray
    <3>2. AtStart'
      BY <2>1, <2>2, <3>1 DEF AtStart
    <3>3. /\ len[1] \in Nat /\ len[1] > TailLen /\ len[2] \in Nat
               /\ len[2] > TailLen
          /\ Start(1) = 0 /\ Start(2) = H + len[1] /\ target \in {1, 2}
          /\ TailLen \in Nat /\ H \in Nat /\ B \in Nat \ {0} /\ S \in Nat \ {0}
      BY Places, Layout DEF CourseInv, StreamInv, StreamTypes
    <3>4. Start(target)' = Start(target) /\ ~(pos' > Start(target))
      BY <2>1, <3>3 DEF Start
    <3>5. Skipping' /\ Storing'
      BY <2>1, <3>4 DEF Skipping, Storing
    <3>6. 0 % B = 0 /\ 0 % S = 0
      BY <3>3
    <3>7. Stored'
      <4>1. SectorOf(0) = 0
        BY <3>6 DEF SectorOf
      <4>2. Erased(0, flash)' /\ Prefix(0, buf, flash)'
        BY <2>1, <4>1 DEF Erased, Clear, Prefix, Split, SectorOf
      <4>3. offset' < len'[target']
        BY <2>1, <3>3
      <4> QED BY <2>1, <4>2, <4>3 DEF Stored
    <3> QED BY <2>1, <3>2, <3>5, <3>6, <3>7 DEF OnCourse
  <2> QED BY <1>1, <2>3, <2>4 DEF CourseInv
<1>3. CASE Lose
  BY <1>1, <1>3 DEF Lose, CourseInv, GoodFileVerifies
<1>4. CASE ReceivePiece
  <2>1. phase = "loop" /\ StreamTypes /\ HeaderIsTold
        /\ UNCHANGED <<len, target, before>>
    BY <1>4 DEF ReceivePiece, CourseInv, StreamInv
  <2>2. SkipAstray' = SkipAstray /\ FileLen' = FileLen
    BY <2>1, Astray DEF FileLen
  <2>3. CASE SkipAstray
    BY <1>1, <2>2, <2>3 DEF CourseInv, GoodFileVerifies
  <2>4. CASE ~SkipAstray /\ pos # FileLen
    <3>1. OnCourse
      BY <2>1, <2>4 DEF CourseInv
    <3>2. /\ phase' # "wild"
          /\ phase' = "rejected" => starved' \/ \E k \in 1..target : len[k] > P
          /\ phase' = "loop" => OnCourse'
      BY <1>4, <2>1, <2>4, <3>1, PassKeepsCourse
    <3> QED BY <1>1, <2>1, <3>2 DEF CourseInv, GoodFileVerifies
  <2>5. CASE ~SkipAstray /\ pos = FileLen
    <3>1. OnCourse
      BY <2>1, <2>5 DEF CourseInv
    <3>2. FileLen % B = 0
      BY <2>5, <3>1 DEF OnCourse
    <3>3. ~ota_skip_and_get_ota_header(pos, PieceLen).wild
      BY Zenon, <2>1, <2>5, <3>1, ExtraPassIsTame
    <3>4. phase' \notin {"wild", "loop"}
      <4>1. \/ ota_skip_and_get_ota_header(pos, PieceLen).wild
            \/ AfterPass(PieceLen)
        BY <1>4, <2>1, ReceiveIs
      <4>2. ~(pos < FileLen)
        <5>1. FileLen \in Nat
          BY <2>1, Places
        <5> QED BY <2>5, <5>1
      <4>3. phase' \in {"verified", "rejected"}
        BY <3>3, <4>1, <4>2, AfterPassIs
      <4> QED BY <4>3
    <3> QED BY <1>1, <2>2, <3>2, <3>4 DEF CourseInv, GoodFileVerifies
  <2> QED BY <2>3, <2>4, <2>5
<1>5. CASE UNCHANGED streamvars
  BY <1>1, <1>5 DEF streamvars, CourseInv, SkipAstray, Start, OnCourse, AtStart, Skipping,
     Storing, Got, Stored, Prefix, Split, Erased, Clear, Whole, Wanted, SectorOf,
     GoodFileVerifies, FileLen
<1> QED BY <1>2, <1>3, <1>4, <1>5 DEF StreamNext

LEMMA InitCourse == StreamInit => CourseInv
<1> HAVE StreamInit
<1>1. StreamInv /\ phase = "idle"
  BY InitStream DEF StreamInit
<1> QED BY <1>1 DEF CourseInv, GoodFileVerifies

(* But for the two ways the skip goes astray, flash and sector buffer hold *)
(* the beginning of the wanted image at every split of header, image and   *)
(* sector over the pieces of the file (ota_test.c:161-172).                *)
THEOREM StoredBytesAreThePrefix == StreamSpec => []StoredIsAPrefix
<1>1. CourseInv => StoredIsAPrefix
  <2> SUFFICES ASSUME CourseInv, phase = "loop", ~SkipAstray, offset < len[target]
               PROVE  /\ \A i \in 0..offset - 1 :
                            IF i < offset - (offset % S) THEN flash[i] = Wanted(i)
                            ELSE buf[i % S] = Wanted(i)
                      /\ \A i \in (offset - (offset % S))..P - 1 : flash[i] = Blank
    BY DEF StoredIsAPrefix
  <2>1. Prefix(offset, buf, flash) /\ Erased(offset, flash) /\ offset \in Nat
    BY DEF CourseInv, OnCourse, Stored, StreamInv, StreamTypes
  <2>2. ASSUME NEW i \in 0..offset - 1
        PROVE  IF i < offset - (offset % S) THEN flash[i] = Wanted(i)
               ELSE buf[i % S] = Wanted(i)
    <3>1. IF i < offset - (offset % S) THEN flash[i] = Wanted(i)
          ELSE buf[i - (offset - (offset % S))] = Wanted(i)
      BY <2>1 DEF Prefix, Split, SectorOf
    <3>2. i \in Nat /\ i < offset /\ offset % S \in Int
      BY <2>1, SectorIs
    <3>3. ~(i < offset - (offset % S)) => i % S = i - (offset - (offset % S))
      BY <2>1, <3>2, InSector
    <3> QED BY <3>1, <3>3
  <2> QED BY <2>1, <2>2 DEF Erased, Clear, SectorOf
<1> QED BY <1>1, InitCourse, StepCourse, PTL DEF StreamSpec

(* But for those two ways, an update received to the end passes the check, *)
(* if there is memory for it, unless it does not fit or fills its last     *)
(* response buffer, and no memory before the response buffer is read       *)
(* (ota_test.c:276, 573-581, ota_hash.c:355-363).                          *)
THEOREM GoodFilesPassTheCheck == StreamSpec => []GoodFileVerifies
<1>1. CourseInv => GoodFileVerifies
  BY DEF CourseInv
<1> QED BY <1>1, InitCourse, StepCourse, PTL DEF StreamSpec

(* But for those two ways, flash that holds something is not written again *)
(* before it is erased (ota_test.c:159-172, 194-200): a pass is on course, *)
(* so what it stores goes behind the prefix, and the extra one stores      *)
(* nothing.                                                                *)
THEOREM FlashIsProgrammedOnce == StreamSpec => ProgrammedOnce
<1> DEFINE A == flash' # flash =>
                  \/ BeginAttempt \/ SkipAstray
                  \/ \A i \in 0..P - 1 : flash'[i] # flash[i] => flash[i] = Blank
<1>1. ASSUME CourseInv, [StreamNext]_streamvars PROVE A
  <2> SUFFICES ASSUME flash' # flash, ~BeginAttempt, ~SkipAstray,
                      NEW i \in 0..P - 1, flash'[i] # flash[i]
               PROVE  flash[i] = Blank
    OBVIOUS
  <2>1. ReceivePiece
    BY <1>1 DEF StreamNext, Lose, streamvars
  <2>2. StreamTypes /\ HeaderIsTold /\ OnCourse /\ Stored
    BY <1>1, <2>1 DEF ReceivePiece, CourseInv, StreamInv, OnCourse
  <2> DEFINE r == ota_skip_and_get_ota_header(pos, PieceLen)
             q == [r EXCEPT !.hdr = hdr']
             e == pos + PieceLen
  <2>3. /\ q \in Results /\ q.n = r.n /\ q.ret = r.ret /\ q.hdr.at = r.hdr.at
        /\ UNCHANGED <<len, target>> /\ Store(q)
    BY <2>1, <2>2, ReceiveIs
  <2>4. ~(q.ret = "err" \/ q.n = 0)
    BY <2>3 DEF Store
  <2>5. ~(q.hdr.at = Start(target) /\ offset = len[target])
    <3> SUFFICES ASSUME q.hdr.at = Start(target), offset = len[target] PROVE FALSE
      OBVIOUS
    <3>1. ItemOf(q.hdr) = [addr |-> target, bin |-> len[target], ota |-> TRUE]
      BY <2>2, TrueItem DEF StreamTypes
    <3>2. ItemOf(q.hdr).bin = len[target] /\ offset \in Nat
      BY <2>2, <3>1 DEF StreamTypes
    <3>3. offset >= ItemOf(q.hdr).bin
      BY <3>2
    <3> QED BY <2>3, <3>3 DEF Store
  <2> HIDE DEF r, q, e
  <2>6. pos # FileLen
    BY <2>2, <2>3, <2>4, <2>5, ExtraPassIsTame DEF r
  <2>7. Aside(r, e) \/ HandsOn(r, e)
    BY <2>2, <2>6, PassOnCourse DEF r, e
  <2>8. q.hdr.at = Start(target)
    BY <2>3, <2>4, <2>7 DEF Aside, HandsOn
  <2>9. q.n < S
    <3>1. /\ pos \in Nat /\ pos <= FileLen /\ FileLen \in Nat
          /\ B \in Nat /\ B < S /\ S \in Nat /\ H \in Nat
      BY <2>2, PieceIs, Places, Layout
    <3>2. e - pos <= B /\ e \in Nat /\ e >= pos
      <4>1. PieceLen = Min2(B, FileLen - pos)
        BY <2>6, NextPiece
      <4>2. Min2(B, FileLen - pos) \in 0..B
        BY <3>1 DEF Min2
      <4> QED BY <3>1, <4>1, <4>2 DEF e
    <3>3. Start(target) \in Nat
      <4>1. target = 1 \/ target = 2
        BY <2>2 DEF StreamTypes
      <4>2. Start(1) \in Nat /\ Start(2) \in Nat
        BY <2>2, Places, Layout
      <4> QED BY <4>1, <4>2
    <3>4. q.n = Got(e) - Got(pos)
      BY <2>3, <2>4, <2>7 DEF Aside, HandsOn
    <3>5. Got(e) - Got(pos) <= B
      BY <3>1, <3>2, <3>3 DEF Got
    <3>6. q.n \in Nat
      BY <2>3 DEF Results
    <3> QED BY <3>1, <3>4, <3>5, <3>6
  <2> QED BY <2>2, <2>3, <2>8, <2>9, StoreOnErased
<1>2. CourseInv /\ [StreamNext]_streamvars => [A]_streamvars
  BY <1>1
<1> QED BY <1>2, InitCourse, StepCourse, PTL DEF StreamSpec, ProgrammedOnce

-----------------------------------------------------------------------------
(***************************************************************************)
(* The sockets.  No step of a receive touches one or ends the request, so  *)
(* the only steps that count are the four that make a request or end one;  *)
(* and no request is under way between them.                               *)
(***************************************************************************)
Users == {"common", "ota"}

(* SocketsComeBack is not inductive by itself: a new request takes its     *)
(* socket on the account of nobody only if the one before gave up its own. *)
IInv ==
  /\ held \in Nat /\ attempts \in Nat
  /\ connected \in BOOLEAN
  /\ user \in Users
  /\ pc = "idle" => ~connected
  /\ SocketsComeBack

LEMMA InitIInv == Init => IInv
<1> HAVE Init
<1>1. held = 0 /\ attempts = 0
  BY DEF Init
<1>2. ~connected /\ connected \in BOOLEAN /\ user \in Users
  BY DEF Init, Users
<1>3. SocketsComeBack
  BY <1>1, <1>2 DEF SocketsComeBack
<1> QED BY <1>1, <1>2, <1>3 DEF IInv

LEMMA BeginsInside ==
  ASSUME NEW c, NEW l, NEW r PROVE Begins(c, l, r) # "idle"
  BY DEF Begins

(* What a receive does to the request it belongs to: nothing.              *)
LEMMA ReceiveKeeps ==
  ASSUME Receive PROVE pc # "idle" /\ pc' # "idle" /\ UNCHANGED request
<1> USE DEF Go, Return
<1>1. CASE First
  BY <1>1 DEF First
<1>2. CASE Continue
  BY <1>2, BeginsInside DEF Continue
<1>3. CASE Status
  BY <1>3 DEF Status
<1>4. CASE HeaderReceive
  BY <1>4 DEF HeaderReceive
<1>5. CASE HeaderEnd
  BY <1>5, BeginsInside DEF HeaderEnd
<1>6. CASE HeaderLine
  BY <1>6 DEF HeaderLine
<1>7. CASE RawCopy
  BY <1>7 DEF RawCopy
<1>8. CASE RawReceive
  BY <1>8 DEF RawReceive
<1>9. CASE SizePoll
  BY <1>9 DEF SizePoll
<1>10. CASE SizeRead
  <2>1. pc = "size" /\ UNCHANGED request
    BY <1>10 DEF SizeRead
  <2>2. pc' \in {"done", "copy"}
    BY Zenon, <1>10 DEF SizeRead
  <2> QED BY <2>1, <2>2
<1>11. CASE CopyPart
  <2>1. pc = "copy" /\ UNCHANGED request
    BY <1>11 DEF CopyPart
  <2>2. pc' \in {"body", "end", "done"}
    BY Zenon, <1>11 DEF CopyPart
  <2> QED BY <2>1, <2>2
<1>12. CASE BodyReceive
  BY <1>12 DEF BodyReceive
<1>13. CASE ChunkEnd
  BY <1>13 DEF ChunkEnd
<1> QED BY <1>1, <1>2, <1>3, <1>4, <1>5, <1>6, <1>7, <1>8, <1>9, <1>10, <1>11,
           <1>12, <1>13 DEF Receive

LEMMA RequestStep ==
  ASSUME IInv, NEW u \in Users, NEW new \in BOOLEAN,
         RequestFails(u, new) \/ \E a \in Responses : Request(u, new, a)
  PROVE  IInv'
<1>1. pc = "idle" /\ user' = u /\ pc' \in {"done", "first", "continue"}
  BY DEF RequestFails, Request, Ask, Begin
<1>2. held = attempts /\ held \in Nat
  BY <1>1 DEF IInv, SocketsComeBack
<1>3. CASE httpc_connect(u)
  BY <1>1, <1>2, <1>3 DEF httpc_connect, IInv, Users, SocketsComeBack
<1>4. CASE UNCHANGED <<held, attempts>> /\ connected' = FALSE
  BY <1>1, <1>2, <1>4 DEF IInv, SocketsComeBack
<1> QED BY <1>3, <1>4 DEF RequestFails, Request

LEMMA StepIInv == IInv /\ [Next]_vars => IInv'
<1> SUFFICES ASSUME IInv, [Next]_vars PROVE IInv'
  OBVIOUS
<1>1. CASE \E u \in Users, new \in BOOLEAN :
             RequestFails(u, new) \/ \E a \in Responses : Request(u, new, a)
  BY <1>1, RequestStep
<1>2. CASE Receive
  BY <1>2, ReceiveKeeps DEF request, IInv, SocketsComeBack
<1>3. CASE Reset
  BY <1>3 DEF Reset, request, IInv, SocketsComeBack
<1>4. CASE Again
  BY <1>4 DEF Again, Begin, request, IInv, SocketsComeBack
<1>5. CASE httpc_close
  <2>1. /\ held' = held - (IF connected THEN 1 ELSE 0) /\ user = "common"
        /\ UNCHANGED <<attempts, user>>
    BY <1>5 DEF httpc_close
  <2>2. ~connected' /\ connected' \in BOOLEAN
    BY <1>5 DEF httpc_close
  <2>3. held' = attempts
    BY <2>1 DEF IInv, SocketsComeBack
  <2>4. SocketsComeBack'
    BY <2>1, <2>2, <2>3 DEF SocketsComeBack
  <2> QED BY <2>1, <2>2, <2>3, <2>4 DEF IInv
<1>6. CASE ota_http_deinit_params
  BY <1>6 DEF ota_http_deinit_params, IInv, Users, SocketsComeBack
<1>7. CASE UNCHANGED vars
  <2>1. UNCHANGED <<held, attempts, connected, user, pc>>
    BY <1>7 DEF vars, request
  <2> QED BY <2>1 DEF IInv, SocketsComeBack
<1> QED BY <1>1, <1>2, <1>3, <1>4, <1>5, <1>6, <1>7 DEF Next, Users

(* However its requests fail, httpc_common never keeps a socket, and every *)
(* update attempt that got one keeps it (ota_test.c:660).                  *)
THEOREM SocketsAreAccounted == Spec => []SocketsComeBack
<1>1. IInv => SocketsComeBack
  BY DEF IInv
<1> QED BY <1>1, InitIInv, StepIInv, PTL DEF Spec

-----------------------------------------------------------------------------
(***************************************************************************)
(* The response.                                                           *)
(*                                                                         *)
(* The invariant says at which place of the response the client is         *)
(* (OnPlace): what the local buffer and the network hold are the tokens of *)
(* the stream from that place on (At), what the caller was handed and what *)
(* its buffer holds are the bytes of the body before it (Given, Piece),    *)
(* and what is left of the body or chunk ends where the stream says.  So   *)
(* the proofs need to know where each token of a response is (StreamIs):   *)
(* the sum of the chunk sizes and the chunks laid end to end, which are    *)
(* folds, are told place by place, by the least place that would not fit.  *)
(***************************************************************************)
(* Every set of numbers has a least one.                                   *)
LEMMA LeastNumber ==
  ASSUME NEW Q \in SUBSET Nat, Q # {}
  PROVE  \E n \in Q : \A k \in Q : n <= k
<1> DEFINE Less == {ss \in Nat \X Nat : ss[1] < ss[2]}
<1>1. OpToRel(<, Nat) = Less
  BY DEF OpToRel
<1>2. IsWellFoundedOn(Less, Nat)
  BY <1>1, NatLessThanWellFounded
<1> HIDE DEF Less
<1>3. PICK n \in Q : \A k \in Q : <<k, n>> \notin Less
  BY <1>2, WFMin, Zenon
<1>4. ASSUME NEW k \in Q  PROVE n <= k
  <2>1. <<k, n>> \in Nat \X Nat /\ <<k, n>>[1] = k /\ <<k, n>>[2] = n
    OBVIOUS
  <2>2. ~(k < n)
    BY <1>3, <2>1 DEF Less
  <2> QED BY <2>2
<1> QED BY <1>4

(* What holds of 0, and of k if it holds of k - 1, holds up to n.           *)
LEMMA Ladder ==
  ASSUME NEW n \in Nat, NEW Q, 0 \in Q, \A k \in 1..n : k - 1 \in Q => k \in Q
  PROVE  \A k \in 0..n : k \in Q
<1> DEFINE Bad == {k \in 0..n : k \notin Q}
<1> SUFFICES ASSUME Bad # {} PROVE FALSE
  OBVIOUS
<1>1. Bad \in SUBSET Nat
  OBVIOUS
<1>2. PICK k \in Bad : \A j \in Bad : k <= j
  BY <1>1, LeastNumber
<1>3. k \in 1..n /\ k - 1 \in 0..n /\ ~(k <= k - 1)
  BY <1>2
<1>4. k - 1 \in Q
  BY <1>2, <1>3
<1> QED BY <1>2, <1>3, <1>4

(* The table that a fold of + over the first n elements of s fills, for    *)
(* every subset of their places.                                           *)
Adds(s, n, g) ==
  g = [x \in SUBSET (1..n) |-> IF x = {} THEN 0 ELSE g[x \ {Max(x)}] + s[Max(x)]]

LEMMA GreatestPlace ==
  ASSUME NEW n \in Nat, NEW x \in SUBSET (1..n), n \in x
  PROVE  Max(x) = n
<1>1. \A y \in x : n >= y
  OBVIOUS
<1>2. ASSUME NEW z \in x, \A y \in x : z >= y PROVE z = n
  <2>1. z \in Int /\ z >= n /\ n >= z
    BY <1>1, <1>2
  <2> QED BY <2>1
<1>3. Max(x) \in x /\ \A y \in x : Max(x) >= y
  BY <1>1 DEF Max
<1> QED BY <1>2, <1>3

LEMMA TableExists ==
  ASSUME NEW s, NEW n \in Nat
  PROVE  \E g : Adds(s, n, g)
<1> DEFINE Q == {k \in Nat : \E g : Adds(s, k, g)}
<1>1. 0 \in Q
  <2> DEFINE g == [x \in SUBSET (1..0) |-> 0]
  <2>1. \A x \in SUBSET (1..0) : x = {}
    OBVIOUS
  <2>2. Adds(s, 0, g)
    BY <2>1 DEF Adds
  <2> QED BY <2>2
<1>2. ASSUME NEW k \in 1..n, k - 1 \in Q
      PROVE  k \in Q
  <2>1. PICK g : Adds(s, k - 1, g)
    BY <1>2
  <2> DEFINE F(x) == IF k \in x THEN g[x \ {k}] + s[k] ELSE g[x]
             f == [x \in SUBSET (1..k) |-> F(x)]
  <2>2. ASSUME NEW x \in SUBSET (1..k)
        PROVE  f[x] = IF x = {} THEN 0 ELSE f[x \ {Max(x)}] + s[Max(x)]
    <3>1. CASE k \in x
      <4>1. Max(x) = k /\ x \ {k} \in SUBSET (1..k) /\ k \notin x \ {k}
        BY <3>1, GreatestPlace
      <4>2. f[x \ {k}] = g[x \ {k}]
        BY <4>1
      <4> QED BY <3>1, <4>1, <4>2
    <3>2. CASE k \notin x
      <4>1. x \in SUBSET (1..k-1)
        BY <3>2
      <4>2. f[x] = g[x] /\ f[x \ {Max(x)}] = g[x \ {Max(x)}]
        BY <3>2
      <4>3. g[x] = IF x = {} THEN 0 ELSE g[x \ {Max(x)}] + s[Max(x)]
        BY <2>1, <4>1 DEF Adds
      <4> QED BY <4>2, <4>3
    <3> QED BY <3>1, <3>2
  <2>3. f = [x \in SUBSET (1..k) |-> f[x]]
    BY Zenon
  <2> HIDE DEF f
  <2>4. [x \in SUBSET (1..k) |-> f[x]] =
          [x \in SUBSET (1..k) |-> IF x = {} THEN 0 ELSE f[x \ {Max(x)}] + s[Max(x)]]
    BY <2>2
  <2>5. Adds(s, k, f)
    BY ONLY <2>3, <2>4 DEF Adds
  <2>6. k \in Nat
    OBVIOUS
  <2> QED BY <2>5, <2>6
<1>3. n \in Q
  <2> HIDE DEF Q
  <2>1. \A k \in 0..n : k \in Q
    BY <1>1, <1>2, Ladder
  <2> QED BY <2>1
<1> QED BY <1>3

LEMMA TableStep ==
  ASSUME NEW s, NEW n \in Nat, NEW g, Adds(s, n, g)
  PROVE  g[1..0] = 0 /\ \A k \in 1..n : g[1..k] = g[1..k-1] + s[k]
<1>1. g[1..0] = 0
  BY DEF Adds
<1>2. ASSUME NEW k \in 1..n PROVE g[1..k] = g[1..k-1] + s[k]
  <2>1. 1..k \in SUBSET (1..n) /\ 1..k # {} /\ k \in 1..k /\ 1..k \in SUBSET (1..k)
    OBVIOUS
  <2>2. Max(1..k) = k
    BY <2>1, GreatestPlace
  <2>3. (1..k) \ {k} = 1..k-1
    OBVIOUS
  <2> QED BY <2>1, <2>2, <2>3 DEF Adds
<1> QED BY <1>1, <1>2

(* The sum of the first j of the sizes.                                    *)
Upto(s, j) == Sum(SubSeq(s, 1, j))

LEMMA UptoIs ==
  ASSUME NEW s \in Seq(Nat)
  PROVE  \E g : /\ g[1..0] = 0
                /\ \A k \in 1..Len(s) : g[1..k] = g[1..k-1] + s[k]
                /\ \A j \in 0..Len(s) : Upto(s, j) = g[1..j]
<1>1. PICK g : Adds(s, Len(s), g)
  <2>1. Len(s) \in Nat
    OBVIOUS
  <2> QED BY <2>1, TableExists, Zenon
<1>2. g[1..0] = 0 /\ \A k \in 1..Len(s) : g[1..k] = g[1..k-1] + s[k]
  BY <1>1, TableStep
<1>3. ASSUME NEW j \in 0..Len(s)
      PROVE  Upto(s, j) = g[1..j]
  <2> DEFINE u == SubSeq(s, 1, j)
             f == CHOOSE ff : Adds(u, j, ff)
  <2>1. u \in Seq(Nat) /\ Len(u) = j /\ DOMAIN u = 1..j /\ \A i \in 1..j : u[i] = s[i]
    OBVIOUS
  <2> HIDE DEF u
  <2>2. Adds(u, j, f)
    <3>1. j \in Nat
      OBVIOUS
    <3>2. \E ff : Adds(u, j, ff)
      BY <3>1, TableExists, Zenon
    <3> QED BY <3>2, Zenon
  <2>3. Sum(u) = f[1..j]
    BY <2>1 DEF Sum, FoldLeft, MapThenFoldSet, Adds
  <2> HIDE DEF f
  <2>4. f[1..0] = 0 /\ \A k \in 1..j : f[1..k] = f[1..k-1] + s[k]
    <3>1. j \in Nat
      OBVIOUS
    <3>2. f[1..0] = 0 /\ \A k \in 1..j : f[1..k] = f[1..k-1] + u[k]
      BY <2>2, <3>1, TableStep, Zenon
    <3> QED BY <2>1, <3>2
  <2> DEFINE Q == {k \in 0..j : f[1..k] = g[1..k]}
  <2>5. j \in Q
    <3>1. 0 \in Q /\ \A k \in 1..j : k - 1 \in Q => k \in Q
      BY <1>2, <2>4, <2>1
    <3>2. j \in Nat
      OBVIOUS
    <3> HIDE DEF Q
    <3>3. \A k \in 0..j : k \in Q
      BY <3>1, <3>2, Ladder
    <3> QED BY <3>2, <3>3
  <2> QED BY <2>3, <2>5 DEF Upto, u
<1> QED BY <1>2, <1>3

LEMMA UptoStep ==
  ASSUME NEW s \in Seq(Nat)
  PROVE  /\ Upto(s, 0) = 0 /\ Upto(s, Len(s)) = Sum(s) /\ Sum(s) \in Nat
         /\ \A j \in 0..Len(s) : Upto(s, j) \in Nat
         /\ \A j \in 1..Len(s) : Upto(s, j) = Upto(s, j - 1) + s[j]
         /\ \A j \in 0..Len(s) : Upto(s, j) <= Sum(s)
<1>1. PICK g : /\ g[1..0] = 0
               /\ \A k \in 1..Len(s) : g[1..k] = g[1..k-1] + s[k]
               /\ \A j \in 0..Len(s) : Upto(s, j) = g[1..j]
  BY UptoIs
<1>2. Upto(s, 0) = 0
  BY <1>1
<1>3. ASSUME NEW j \in 1..Len(s) PROVE Upto(s, j) = Upto(s, j - 1) + s[j]
  <2>1. j \in 0..Len(s) /\ j - 1 \in 0..Len(s)
    OBVIOUS
  <2>2. Upto(s, j) = g[1..j] /\ Upto(s, j - 1) = g[1..j - 1]
    BY <1>1, <2>1
  <2> QED BY <1>1, <2>2
<1>4. SubSeq(s, 1, Len(s)) = s
  OBVIOUS
<1>5. Upto(s, Len(s)) = Sum(s)
  BY <1>4 DEF Upto
<1>6. \A j \in 0..Len(s) : Upto(s, j) \in Nat
  <2> DEFINE Q == {k \in 0..Len(s) : Upto(s, k) \in Nat}
  <2>1. 0 \in Q /\ \A k \in 1..Len(s) : k - 1 \in Q => k \in Q
    <3>1. \A k \in 1..Len(s) : s[k] \in Nat /\ k - 1 \in 0..Len(s) /\ k \in 0..Len(s)
      OBVIOUS
    <3> QED BY <1>2, <1>3, <3>1, SMTT(30)
  <2>2. Len(s) \in Nat
    OBVIOUS
  <2> HIDE DEF Q
  <2>3. \A k \in 0..Len(s) : k \in Q
    BY <2>1, <2>2, Ladder
  <2> QED BY <2>3 DEF Q
<1>7. ASSUME NEW j \in 0..Len(s)
      PROVE  Upto(s, j) <= Sum(s)
  <2> DEFINE Q == {k \in 0..Len(s) : k >= j => Upto(s, j) <= Upto(s, k)}
  <2>1. 0 \in Q
    BY <1>2
  <2>2. ASSUME NEW k \in 1..Len(s), k - 1 \in Q
        PROVE  k \in Q
    <3>1. Upto(s, k) = Upto(s, k - 1) + s[k] /\ s[k] \in Nat
      BY <1>3
    <3>2. Upto(s, k) \in Nat /\ Upto(s, k - 1) \in Nat /\ Upto(s, j) \in Nat
      BY <1>6
    <3>3. k - 1 >= j => Upto(s, j) <= Upto(s, k - 1)
      BY <2>2
    <3>4. k \in 0..Len(s) /\ (k >= j => k = j \/ k - 1 >= j)
      OBVIOUS
    <3> QED BY <3>1, <3>2, <3>3, <3>4, SMTT(60)
  <2>3. Len(s) \in Q
    <3>1. Len(s) \in Nat
      OBVIOUS
    <3> HIDE DEF Q
    <3>2. \A k \in 0..Len(s) : k \in Q
      BY <2>1, <2>2, <3>1, Ladder
    <3> QED BY <3>1, <3>2
  <2> QED BY <1>5, <2>3
<1> QED BY <1>2, <1>3, <1>5, <1>6, <1>7


(* The tokens, and two sequences of them laid end to end.                  *)
Kinds == {"status", "crlf", "bare", "length", "chunked", "close", "size", "byte"}
Tokens == [kind : Kinds, n : Nat]

IsJoin(v, x, y) ==
  /\ v \in Seq(Tokens) /\ Len(v) = Len(x) + Len(y)
  /\ \A i \in 1..Len(x) : v[i] = x[i]
  /\ \A i \in 1..Len(y) : v[Len(x) + i] = y[i]

LEMMA TokensJoin == \A x, y \in Seq(Tokens) : IsJoin(x \o y, x, y)
BY DEF IsJoin

(* A sequence of sequences laid end to end: where each of them is found.   *)
Joins(ss, n, f) ==
  f = [i \in 1..n |-> IF i = 1 THEN ss[i] ELSE f[i - 1] \o ss[i]]

LEMMA JoinExists ==
  ASSUME NEW ss, NEW n \in Nat
  PROVE  \E f : Joins(ss, n, f)
<1> DEFINE Q == {k \in Nat : \E f : Joins(ss, k, f)}
<1>1. 0 \in Q
  <2> DEFINE f == [i \in 1..0 |-> ss[i]]
  <2>1. Joins(ss, 0, f)
    BY DEF Joins
  <2> QED BY <2>1
<1>2. ASSUME NEW k \in 1..n, k - 1 \in Q
      PROVE  k \in Q
  <2>1. PICK g : Joins(ss, k - 1, g)
    BY <1>2
  <2> DEFINE F(i) == IF i < k THEN g[i]
                     ELSE IF k = 1 THEN ss[k] ELSE g[k - 1] \o ss[k]
             f == [i \in 1..k |-> F(i)]
  <2>2. ASSUME NEW i \in 1..k
        PROVE  f[i] = IF i = 1 THEN ss[i] ELSE f[i - 1] \o ss[i]
    <3>1. CASE i = k
      <4>1. k # 1 => f[k - 1] = g[k - 1]
        BY SMTT(60)
      <4> QED BY <3>1, <4>1
    <3>2. CASE i # k
      <4>1. i \in 1..k-1 /\ f[i] = g[i] /\ (i # 1 => f[i - 1] = g[i - 1])
        BY <3>2
      <4> QED BY <2>1, <4>1 DEF Joins
    <3> QED BY <3>1, <3>2
  <2>3. f = [i \in 1..k |-> f[i]]
    BY Zenon
  <2> HIDE DEF f
  <2>4. [i \in 1..k |-> f[i]] =
          [i \in 1..k |-> IF i = 1 THEN ss[i] ELSE f[i - 1] \o ss[i]]
    BY <2>2
  <2>5. Joins(ss, k, f)
    BY ONLY <2>3, <2>4 DEF Joins
  <2>6. k \in Nat
    OBVIOUS
  <2> QED BY <2>5, <2>6
<1>3. n \in Q
  <2> HIDE DEF Q
  <2>1. \A k \in 0..n : k \in Q
    BY <1>1, <1>2, Ladder
  <2> QED BY <2>1
<1> QED BY <1>3

IsLaid(t, ss, off) ==
  /\ off[0] = 0
  /\ \A c \in 1..Len(ss) : off[c] = off[c - 1] + Len(ss[c])
  /\ t \in Seq(Tokens) /\ Len(t) = off[Len(ss)]
  /\ \A c \in 1..Len(ss) : \A i \in 1..Len(ss[c]) : t[off[c - 1] + i] = ss[c][i]

LEMMA FlattenIs ==
  ASSUME NEW ss \in Seq(Seq(Tokens))
  PROVE  \E off \in [0..Len(ss) -> Nat] : IsLaid(FlattenSeq(ss), ss, off)
<1> DEFINE n == Len(ss)
           f == CHOOSE ff : Joins(ss, n, ff)
           off == [k \in 0..n |-> IF k = 0 THEN 0 ELSE Len(f[k])]
<1>1. n \in Nat /\ \A c \in 1..n : ss[c] \in Seq(Tokens) /\ Len(ss[c]) \in Nat
  OBVIOUS
<1>2. Joins(ss, n, f)
  <2>1. \E ff : Joins(ss, n, ff)
    BY <1>1, JoinExists, Zenon
  <2> QED BY <2>1, Zenon
<1>3. n # 0 => FlattenSeq(ss) = f[n]
  BY DEF FlattenSeq, Joins
<1> HIDE DEF f, n
<1>4. \A k \in 1..n : f[k] = IF k = 1 THEN ss[1] ELSE f[k - 1] \o ss[k]
  <2> SUFFICES ASSUME NEW k \in 1..n
               PROVE  f[k] = IF k = 1 THEN ss[1] ELSE f[k - 1] \o ss[k]
    OBVIOUS
  <2>1. f = [i \in 1..n |-> IF i = 1 THEN ss[i] ELSE f[i - 1] \o ss[i]]
    BY <1>2 DEF Joins
  <2>2. f[k] = [i \in 1..n |-> IF i = 1 THEN ss[i] ELSE f[i - 1] \o ss[i]][k]
    BY <2>1, Zenon
  <2> QED BY <2>2
<1>5. \A k \in 1..n : f[k] \in Seq(Tokens)
  <2> DEFINE Q == {k \in 0..n : k # 0 => f[k] \in Seq(Tokens)}
  <2>1. 0 \in Q
    BY <1>1
  <2>2. ASSUME NEW k \in 1..n, k - 1 \in Q PROVE k \in Q
    <3>1. ss[k] \in Seq(Tokens)
      BY <1>1
    <3>2. k # 1 => f[k - 1] \in Seq(Tokens)
      BY <2>2
    <3>3. f[k] = IF k = 1 THEN ss[1] ELSE f[k - 1] \o ss[k]
      BY <1>4
    <3>4. f[k] \in Seq(Tokens)
      BY <3>1, <3>2, <3>3
    <3> QED BY <3>4
  <2> HIDE DEF Q
  <2>3. \A k \in 0..n : k \in Q
    BY <1>1, <2>1, <2>2, Ladder
  <2> QED BY <2>3 DEF Q
<1>6. off \in [0..n -> Nat] /\ off[0] = 0 /\ \A k \in 1..n : off[k] = Len(f[k])
  BY <1>1, <1>5
<1> HIDE DEF off
<1>7. \A c \in 1..n : off[c] = off[c - 1] + Len(ss[c])
  <2> SUFFICES ASSUME NEW c \in 1..n PROVE off[c] = off[c - 1] + Len(ss[c])
    OBVIOUS
  <2>1. CASE c = 1
    BY <1>1, <1>4, <1>6, <2>1, SMTT(60)
  <2>2. CASE c # 1
    <3>1. c - 1 \in 1..n /\ f[c - 1] \in Seq(Tokens) /\ ss[c] \in Seq(Tokens)
      BY <1>1, <1>5, <2>2
    <3>2. Len(f[c - 1] \o ss[c]) = Len(f[c - 1]) + Len(ss[c])
      BY <3>1
    <3> QED BY <1>4, <1>6, <2>2, <3>1, <3>2
  <2> QED BY <2>1, <2>2
<1> DEFINE Found(k) ==
      \A c \in 1..k : \A i \in 1..Len(ss[c]) :
        off[c - 1] + i \in 1..off[k] /\ f[k][off[c - 1] + i] = ss[c][i]
<1>8. n # 0 => Found(n)
  <2> DEFINE Q == {k \in 0..n : k # 0 => Found(k)}
  <2> HIDE DEF Found
  <2>1. 0 \in Q
    BY <1>1
  <2>2. ASSUME NEW k \in 1..n, k - 1 \in Q PROVE k \in Q
    <3>0. k \in 0..n
      BY <1>1
    <3> SUFFICES Found(k)
      BY <3>0
    <3> SUFFICES ASSUME NEW c \in 1..k, NEW i \in 1..Len(ss[c])
                 PROVE  /\ off[c - 1] + i \in 1..off[k]
                        /\ f[k][off[c - 1] + i] = ss[c][i]
      BY Zenon DEF Found
    <3>1. off[k - 1] \in Nat /\ off[k] = off[k - 1] + Len(ss[k]) /\ Len(ss[k]) \in Nat
          /\ off[c - 1] \in Nat
      BY <1>1, <1>6, <1>7, SMTT(60)
    <3>2. CASE c = k
      <4>1. CASE k = 1
        BY <1>4, <1>6, <3>1, <3>2, <4>1
      <4>2. CASE k # 1
        <5>1. k - 1 \in 1..n
          BY <1>1, <4>2
        <5>2. f[k - 1] \in Seq(Tokens) /\ Len(f[k - 1]) = off[k - 1]
          BY <1>5, <1>6, <5>1
        <5>3. ss[k] \in Seq(Tokens) /\ f[k] = f[k - 1] \o ss[k]
          BY <1>1, <1>4, <4>2
        <5>4. IsJoin(f[k - 1] \o ss[k], f[k - 1], ss[k])
          BY <5>2, <5>3, TokensJoin, Zenon
        <5>5. off[c - 1] + i = Len(f[k - 1]) + i /\ ss[c] = ss[k] /\ i \in 1..Len(ss[k])
          BY <3>2, <5>2
        <5>6. f[k][off[c - 1] + i] = ss[c][i]
          BY <5>3, <5>4, <5>5, Zenon DEF IsJoin
        <5>7. off[c - 1] + i \in 1..off[k]
          BY <3>1, <3>2
        <5> QED BY <5>6, <5>7
      <4> QED BY <4>1, <4>2
    <3>3. CASE c # k
      <4>1. k - 1 \in 1..n /\ c \in 1..k - 1 /\ k # 1
        BY <1>1, <3>3
      <4>2. Found(k - 1)
        BY <2>2, <4>1
      <4>3. off[c - 1] + i \in 1..off[k - 1] /\ f[k - 1][off[c - 1] + i] = ss[c][i]
        BY <4>1, <4>2 DEF Found
      <4>4. f[k - 1] \in Seq(Tokens) /\ ss[k] \in Seq(Tokens) /\ f[k] = f[k - 1] \o ss[k]
            /\ Len(f[k - 1]) = off[k - 1]
        BY <1>1, <1>4, <1>5, <1>6, <4>1
      <4> DEFINE p == off[c - 1] + i
      <4>5. p \in 1..Len(f[k - 1])
        BY <4>3, <4>4
      <4> HIDE DEF p
      <4>6. (f[k - 1] \o ss[k])[p] = f[k - 1][p]
        BY <4>4, <4>5, TokensJoin, Zenon DEF IsJoin
      <4>7. p \in 1..off[k]
        BY <3>1, <4>4, <4>5
      <4> QED BY <4>3, <4>4, <4>6, <4>7 DEF p
    <3> QED BY <3>2, <3>3
  <2>3. n \in 0..n
    BY <1>1
  <2> HIDE DEF Q
  <2>4. \A k \in 0..n : k \in Q
    BY <1>1, <2>1, <2>2, Ladder
  <2>5. n \in Q
    BY <2>3, <2>4
  <2> QED BY <2>5 DEF Q
<1>9. /\ FlattenSeq(ss) \in Seq(Tokens) /\ Len(FlattenSeq(ss)) = off[n]
      /\ \A c \in 1..n : \A i \in 1..Len(ss[c]) : FlattenSeq(ss)[off[c - 1] + i] = ss[c][i]
  <2>1. CASE n = 0
    <3>1. FlattenSeq(ss) = ss /\ ss = <<>>
      BY <2>1 DEF n, FlattenSeq
    <3> QED BY <1>6, <2>1, <3>1
  <2>2. CASE n # 0
    <3>1. n \in 1..n
      BY <1>1, <2>2
    <3> QED BY <1>3, <1>5, <1>6, <1>8, <2>2, <3>1
  <2> QED BY <2>1, <2>2
<1> QED BY <1>6, <1>7, <1>9 DEF n, IsLaid


-----------------------------------------------------------------------------
(* The tokens of a response, by their places.                              *)
Answers == [framing : {"length", "chunked", "close"}, bare : BOOLEAN,
            sizes : Seq(Nat \ {0})]

HeaderLen(a) == IF a.bare THEN 7 ELSE 5

(* What comes before a chunk, and before the last size, which is 0.        *)
Before(a, c) == HeaderLen(a) + Upto(a.sizes, c - 1) + 3 * (c - 1)

LEMMA SizesAre ==
  ASSUME NEW a \in Answers
  PROVE  /\ a.sizes \in Seq(Nat) /\ Len(a.sizes) \in Nat
         /\ \A c \in 1..Len(a.sizes) : a.sizes[c] \in Nat \ {0}
         /\ Sum(a.sizes) \in Nat
<1>1. a.sizes \in Seq(Nat \ {0})
  BY DEF Answers
<1>2. a.sizes \in Seq(Nat)
  BY <1>1
<1> QED BY <1>1, <1>2, UptoStep, SMTT(30)

LEMMA HeaderIs ==
  ASSUME NEW a \in Answers
  PROVE  LET h == HeaderLen(a)
         IN  /\ Header(a) \in Seq(Tokens) /\ Len(Header(a)) = h
             /\ Header(a)[1] = Token("status") /\ Header(a)[2] = Crlf
             /\ a.bare => Header(a)[3] = Token("bare") /\ Header(a)[4] = Crlf
             /\ Header(a)[h - 2] = [kind |-> a.framing, n |-> Sum(a.sizes)]
             /\ Header(a)[h - 1] = Crlf /\ Header(a)[h] = Crlf
<1> DEFINE x == <<Token("status"), Crlf>>
           y == <<Token("bare"), Crlf>>
           f == [kind |-> a.framing, n |-> Sum(a.sizes)]
           z == <<f, Crlf, Crlf>>
<1>1. {Token("status"), Token("bare"), Crlf, f} \subseteq Tokens
  BY SizesAre DEF Tokens, Kinds, Token, Crlf, Answers
<1>2. x \in Seq(Tokens) /\ y \in Seq(Tokens) /\ z \in Seq(Tokens) /\ <<>> \in Seq(Tokens)
  BY <1>1
<1>3. Header(a) = x \o (IF a.bare THEN y ELSE <<>>) \o z
  BY DEF Header
<1>4. Len(x) = 2 /\ Len(y) = 2 /\ Len(z) = 3
      /\ x[1] = Token("status") /\ x[2] = Crlf /\ y[1] = Token("bare") /\ y[2] = Crlf
      /\ z[1] = f /\ z[2] = Crlf /\ z[3] = Crlf
  OBVIOUS
<1> HIDE DEF x, y, z, f
<1>5. CASE a.bare
  <2> DEFINE w == x \o y
  <2>1. IsJoin(w, x, y)
    BY <1>2, TokensJoin, Zenon
  <2> HIDE DEF w
  <2>2. Len(w) = 4 /\ w[1] = x[1] /\ w[2] = x[2] /\ w[3] = y[1] /\ w[4] = y[2]
    BY <1>4, <2>1 DEF IsJoin
  <2> DEFINE v == w \o z
  <2>3. IsJoin(v, w, z)
    BY <1>2, <2>1, TokensJoin, Zenon DEF IsJoin
  <2> HIDE DEF v
  <2>4. Len(v) = 7 /\ v[1] = w[1] /\ v[2] = w[2] /\ v[3] = w[3] /\ v[4] = w[4]
        /\ v[5] = z[1] /\ v[6] = z[2] /\ v[7] = z[3]
    BY <1>4, <2>2, <2>3 DEF IsJoin
  <2>5. Header(a) = v /\ HeaderLen(a) = 7
    BY <1>3, <1>5 DEF v, w, HeaderLen
  <2> QED BY <1>4, <1>5, <2>2, <2>3, <2>4, <2>5 DEF f, IsJoin
<1>6. CASE ~a.bare
  <2> DEFINE v == x \o z
  <2>1. Header(a) = v /\ HeaderLen(a) = 5
    <3>1. x \o <<>> = x
      BY <1>2
    <3> QED BY <1>3, <1>6, <3>1 DEF HeaderLen
  <2>2. IsJoin(v, x, z)
    BY <1>2, TokensJoin, Zenon
  <2> HIDE DEF v
  <2>3. Len(v) = 5 /\ v[1] = x[1] /\ v[2] = x[2]
        /\ v[3] = z[1] /\ v[4] = z[2] /\ v[5] = z[3]
    BY <1>4, <2>2 DEF IsJoin
  <2> QED BY <1>4, <1>6, <2>1, <2>2, <2>3 DEF f, IsJoin
<1> QED BY <1>5, <1>6

LEMMA BodyIs ==
  ASSUME NEW r \in Nat, NEW a \in Answers
  PROVE  /\ Body(r, a) \in Seq(Tokens) /\ Len(Body(r, a)) = Sum(a.sizes)
         /\ \A i \in 1..Sum(a.sizes) : Body(r, a)[i] = Byte(r, i)
<1>1. Sum(a.sizes) \in Nat
  BY SizesAre
<1>2. \A i \in 1..Sum(a.sizes) : Byte(r, i) \in Tokens
  BY <1>1 DEF Byte, Tokens, Kinds
<1> HIDE DEF Tokens
<1>3. Body(r, a) = [i \in 1..Sum(a.sizes) |-> Byte(r, i)]
  BY DEF Body
<1> QED BY <1>1, <1>2, <1>3

(* A chunk: its size, its bytes and the ends of two lines.                 *)
Part(r, a, c) ==
  <<Size(a.sizes[c]), Crlf>>
    \o SubSeq(Body(r, a), 1 + Upto(a.sizes, c - 1), Upto(a.sizes, c))
    \o <<Crlf>>

LEMMA PartIs ==
  ASSUME NEW r \in Nat, NEW a \in Answers, NEW c \in 1..Len(a.sizes)
  PROVE  LET p == Part(r, a, c)
             m == a.sizes[c]
         IN  /\ p \in Seq(Tokens) /\ Len(p) = m + 3
             /\ p[1] = Size(m) /\ p[2] = Crlf /\ p[m + 3] = Crlf
             /\ \A i \in 1..m : p[2 + i] = Byte(r, Upto(a.sizes, c - 1) + i)
<1> DEFINE m == a.sizes[c]
           u == Upto(a.sizes, c - 1)
           x == <<Size(m), Crlf>>
           y == SubSeq(Body(r, a), 1 + u, Upto(a.sizes, c))
           z == <<Crlf>>
<1>1. m \in Nat \ {0} /\ u \in Nat /\ Upto(a.sizes, c) = u + m /\ u + m <= Sum(a.sizes)
      /\ Sum(a.sizes) \in Nat
  <2>1. a.sizes \in Seq(Nat) /\ Len(a.sizes) \in Nat /\ m \in Nat \ {0}
    BY SizesAre
  <2>2. c \in 0..Len(a.sizes) /\ c - 1 \in 0..Len(a.sizes)
    BY <2>1
  <2> QED BY <2>1, <2>2, UptoStep
<1> HIDE DEF m, u
<1>2. y \in Seq(Tokens) /\ Len(y) = m /\ \A i \in 1..m : y[i] = Byte(r, u + i)
  <2> DEFINE b == Body(r, a)
  <2>1. b \in Seq(Tokens) /\ Len(b) = Sum(a.sizes) /\ \A i \in 1..Sum(a.sizes) : b[i] = Byte(r, i)
    BY BodyIs
  <2> HIDE DEF b
  <2>2. y = SubSeq(b, 1 + u, u + m)
    BY <1>1 DEF b
  <2>3. SubSeq(b, 1 + u, u + m) \in Seq(Tokens) /\ Len(SubSeq(b, 1 + u, u + m)) = m
        /\ \A i \in 1..m : SubSeq(b, 1 + u, u + m)[i] = b[u + i]
    BY <1>1, <2>1
  <2>4. \A i \in 1..m : u + i \in 1..Sum(a.sizes)
    BY <1>1
  <2> QED BY <2>1, <2>2, <2>3, <2>4
<1>3. x \in Seq(Tokens) /\ Len(x) = 2 /\ x[1] = Size(m) /\ x[2] = Crlf
  <2>1. Size(m) \in Tokens /\ Crlf \in Tokens
    BY <1>1 DEF Size, Crlf, Token, Tokens, Kinds
  <2> QED BY <2>1
<1>4. z \in Seq(Tokens) /\ Len(z) = 1 /\ z[1] = Crlf
  <2>1. Crlf \in Tokens
    BY DEF Crlf, Token, Tokens, Kinds
  <2> QED BY <2>1
<1> HIDE DEF x, y, z
<1> DEFINE w == x \o y
<1>5. w \in Seq(Tokens) /\ Len(w) = 2 + m
      /\ (\A i \in 1..2 : w[i] = x[i]) /\ (\A i \in 1..m : w[2 + i] = y[i])
  <2>1. IsJoin(w, x, y)
    BY <1>2, <1>3, TokensJoin, Zenon
  <2> HIDE DEF w
  <2> QED BY <1>2, <1>3, <2>1 DEF IsJoin
<1> HIDE DEF w
<1> DEFINE v == w \o z
<1>6. v \in Seq(Tokens) /\ Len(v) = (2 + m) + 1
      /\ (\A i \in 1..(2 + m) : v[i] = w[i])
      /\ (\A i \in 1..1 : v[(2 + m) + i] = z[i])
  <2>1. IsJoin(v, w, z)
    BY <1>4, <1>5, TokensJoin, Zenon
  <2> HIDE DEF v
  <2> QED BY <1>4, <1>5, <2>1 DEF IsJoin
<1> HIDE DEF v
<1>7. Part(r, a, c) = v
  BY DEF Part, v, w, x, y, z, m, u
<1>8. Len(v) = m + 3 /\ v[1] = w[1] /\ v[2] = w[2] /\ v[m + 3] = z[1]
      /\ \A i \in 1..m : v[2 + i] = w[2 + i]
  <2>1. 1 \in 1..(2 + m) /\ 2 \in 1..(2 + m) /\ \A i \in 1..m : 2 + i \in 1..(2 + m)
    BY <1>1
  <2>2. (2 + m) + 1 = m + 3 /\ 1 \in 1..1
    BY <1>1
  <2> QED BY <1>6, <2>1, <2>2
<1>9. w[1] = x[1] /\ w[2] = x[2]
  BY <1>5
<1>10. /\ v \in Seq(Tokens) /\ Len(v) = m + 3
       /\ v[1] = Size(m) /\ v[2] = Crlf /\ v[m + 3] = Crlf
       /\ \A i \in 1..m : v[2 + i] = Byte(r, u + i)
  BY <1>2, <1>3, <1>4, <1>5, <1>6, <1>8, <1>9
<1> QED BY <1>7, <1>10 DEF m, u


LEMMA ChunkedIs ==
  ASSUME NEW r \in Nat, NEW a \in Answers, a.framing = "chunked"
  PROVE  LET t == Content(r, a)
             n == Len(a.sizes)
             off(c) == Upto(a.sizes, c) + 3 * c
         IN  /\ t \in Seq(Tokens) /\ Len(t) = off(n) + 3
             /\ \A c \in 1..n : \A i \in 1..a.sizes[c] + 3 :
                  t[off(c - 1) + i] = Part(r, a, c)[i]
             /\ t[off(n) + 1] = Size(0) /\ t[off(n) + 2] = Crlf /\ t[off(n) + 3] = Crlf
<1> DEFINE n == Len(a.sizes)
           ss == [c \in 1..n |-> Part(r, a, c)]
           f == FlattenSeq(ss)
           z == <<Size(0), Crlf, Crlf>>
           place(c) == Upto(a.sizes, c) + 3 * c
<1>1. /\ n \in Nat /\ \A c \in 0..n : Upto(a.sizes, c) \in Nat
      /\ \A c \in 1..n : /\ Upto(a.sizes, c) = Upto(a.sizes, c - 1) + a.sizes[c]
                        /\ a.sizes[c] \in Nat
  <2>1. a.sizes \in Seq(Nat) /\ n \in Nat /\ \A c \in 1..n : a.sizes[c] \in Nat
    BY SizesAre
  <2> QED BY <2>1, UptoStep
<1>2. Content(r, a) = f \o z
  BY DEF Content, Part, Upto
<1>3. /\ ss \in Seq(Seq(Tokens)) /\ Len(ss) = n
      /\ \A c \in 1..n : ss[c] = Part(r, a, c) /\ Len(ss[c]) = a.sizes[c] + 3
  <2>1. \A c \in 1..n : Part(r, a, c) \in Seq(Tokens) /\ Len(Part(r, a, c)) = a.sizes[c] + 3
    BY PartIs
  <2> QED BY <1>1, <2>1, SMTT(60)
<1> HIDE DEF ss
<1>4. PICK off \in [0..n -> Nat] :
        /\ off[0] = 0
        /\ \A c \in 1..n : off[c] = off[c - 1] + Len(ss[c])
        /\ f \in Seq(Tokens) /\ Len(f) = off[n]
        /\ \A c \in 1..n : \A i \in 1..Len(ss[c]) : f[off[c - 1] + i] = ss[c][i]
  <2>1. \E off \in [0..Len(ss) -> Nat] : IsLaid(FlattenSeq(ss), ss, off)
    BY <1>3, FlattenIs, Zenon
  <2> HIDE DEF n
  <2> QED BY <1>3, <2>1 DEF IsLaid
<1> HIDE DEF f, n
<1>5. \A c \in 0..n : off[c] = place(c)
  <2> DEFINE Q == {c \in 0..n : off[c] = place(c)}
  <2>1. 0 \in Q
    <3>1. Upto(a.sizes, 0) = 0
      BY SizesAre, UptoStep
    <3> QED BY <1>1, <1>4, <3>1
  <2>2. ASSUME NEW c \in 1..n, c - 1 \in Q PROVE c \in Q
    <3>1. Upto(a.sizes, c) = Upto(a.sizes, c - 1) + a.sizes[c] /\ a.sizes[c] \in Nat
      BY <1>1
    <3>2. off[c] = off[c - 1] + (a.sizes[c] + 3)
      BY <1>3, <1>4
    <3>3. off[c - 1] = Upto(a.sizes, c - 1) + 3 * (c - 1) /\ c - 1 \in 0..n /\ c \in 0..n
      BY <1>1, <2>2
    <3>4. Upto(a.sizes, c - 1) \in Nat
      BY <1>1, <3>3
    <3>5. off[c] = place(c)
      BY <3>1, <3>2, <3>3, <3>4
    <3> QED BY <3>3, <3>5
  <2> HIDE DEF Q
  <2>3. \A c \in 0..n : c \in Q
    BY <1>1, <2>1, <2>2, Ladder
  <2> QED BY <2>3 DEF Q
<1>6. z \in Seq(Tokens) /\ Len(z) = 3 /\ z[1] = Size(0) /\ z[2] = Crlf /\ z[3] = Crlf
  <2>1. Size(0) \in Tokens /\ Crlf \in Tokens
    BY DEF Size, Crlf, Token, Tokens, Kinds
  <2> QED BY <2>1
<1> HIDE DEF z
<1> DEFINE t == f \o z
<1>7. IsJoin(t, f, z)
  BY <1>4, <1>6, TokensJoin, Zenon
<1> HIDE DEF t, place
<1>8. Len(f) = place(n) /\ place(n) \in Nat
  BY <1>1, <1>4, <1>5
<1>9. t \in Seq(Tokens) /\ Len(t) = place(n) + 3
      /\ t[place(n) + 1] = Size(0) /\ t[place(n) + 2] = Crlf /\ t[place(n) + 3] = Crlf
  BY <1>6, <1>7, <1>8 DEF IsJoin
<1>10. ASSUME NEW c \in 1..n, NEW i \in 1..a.sizes[c] + 3
       PROVE  t[place(c - 1) + i] = Part(r, a, c)[i]
  <2>1. i \in 1..Len(ss[c]) /\ ss[c] = Part(r, a, c) /\ a.sizes[c] \in Nat
    BY <1>1, <1>3
  <2>2. f[off[c - 1] + i] = Part(r, a, c)[i] /\ off[c - 1] = place(c - 1)
    <3>1. c - 1 \in 0..n
      BY <1>1
    <3> QED BY <1>4, <1>5, <2>1, <3>1
  <2>3. off[c - 1] + i \in 1..Len(f)
    <3>1. \A k \in 0..n : k >= c => off[c] <= off[k]
      <4> DEFINE Q == {k \in 0..n : k >= c => off[c] <= off[k]}
      <4>1. 0 \in Q
        BY <1>1
      <4>2. ASSUME NEW k \in 1..n, k - 1 \in Q PROVE k \in Q
        <5>1. off[k] = off[k - 1] + Len(ss[k]) /\ Len(ss[k]) \in Nat
          BY <1>3, <1>4
        <5>2. k - 1 >= c => off[c] <= off[k - 1]
          BY <4>2
        <5>3. k \in 0..n /\ k - 1 \in 0..n /\ c \in 0..n
          BY <1>1
        <5>4. off[k] \in Nat /\ off[k - 1] \in Nat /\ off[c] \in Nat
          BY <1>4, <5>3
        <5>5. k >= c => k = c \/ k - 1 >= c
          OBVIOUS
        <5> QED BY <5>1, <5>2, <5>3, <5>4, <5>5
      <4> HIDE DEF Q
      <4>3. \A k \in 0..n : k \in Q
        BY <1>1, <4>1, <4>2, Ladder
      <4> QED BY <4>3 DEF Q
    <3>2. n \in 0..n /\ n >= c /\ c \in 0..n /\ c - 1 \in 0..n
      BY <1>1
    <3>3. off[c] <= off[n] /\ off[n] = Len(f)
      BY <1>4, <3>1, <3>2
    <3>4. off[c] \in Nat /\ off[c - 1] \in Nat /\ off[n] \in Nat
      BY <1>4, <3>2
    <3>5. off[c] = off[c - 1] + Len(ss[c])
      BY <1>4
    <3> QED BY <2>1, <3>3, <3>4, <3>5, SMTT(60)
  <2>4. t[off[c - 1] + i] = f[off[c - 1] + i]
    BY <1>7, <2>3 DEF IsJoin
  <2> QED BY <2>2, <2>4
<1> QED BY <1>2, <1>9, <1>10 DEF t, place, n


LEMMA BeforeIs ==
  ASSUME NEW a \in Answers
  PROVE  LET s == a.sizes
             n == Len(a.sizes)
         IN  /\ n \in Nat /\ Sum(s) \in Nat
             /\ Upto(s, 0) = 0 /\ Upto(s, n) = Sum(s) /\ Before(a, 1) = HeaderLen(a)
             /\ \A c \in 0..n : Upto(s, c) \in 0..Sum(s)
             /\ \A c \in 1..n + 1 : /\ c - 1 \in 0..n /\ Before(a, c) \in Nat
                                    /\ Before(a, c) <= Before(a, n + 1)
             /\ \A c \in 1..n : /\ s[c] \in Nat \ {0}
                                /\ Upto(s, c) = Upto(s, c - 1) + s[c]
                                /\ Before(a, c + 1) = Before(a, c) + s[c] + 3
<1> DEFINE s == a.sizes
           n == Len(a.sizes)
<1>1. n \in Nat /\ Sum(s) \in Nat /\ \A c \in 1..n : s[c] \in Nat \ {0}
  BY SizesAre
<1>2. /\ Upto(s, 0) = 0 /\ Upto(s, n) = Sum(s)
      /\ \A c \in 0..n : Upto(s, c) \in Nat /\ Upto(s, c) <= Sum(s)
      /\ \A c \in 1..n : Upto(s, c) = Upto(s, c - 1) + s[c]
  <2>1. s \in Seq(Nat)
    BY SizesAre
  <2> QED BY <2>1, UptoStep
<1>3. HeaderLen(a) \in {5, 7}
  BY DEF HeaderLen
<1> HIDE DEF s, n
<1>4. \A c \in 1..n + 1 : Before(a, c) = HeaderLen(a) + Upto(s, c - 1) + 3 * (c - 1)
  BY DEF Before, s
<1>5. ASSUME NEW c \in 1..n + 1
      PROVE  c - 1 \in 0..n /\ Before(a, c) \in Nat /\ Before(a, c) <= Before(a, n + 1)
  <2>1. c - 1 \in 0..n /\ n \in 0..n /\ n + 1 \in 1..n + 1 /\ (n + 1) - 1 = n
    BY <1>1
  <2>2. Upto(s, c - 1) \in Nat /\ Upto(s, n) \in Nat /\ Upto(s, c - 1) <= Upto(s, n)
    BY <1>2, <2>1
  <2>3. Before(a, n + 1) = HeaderLen(a) + Upto(s, n) + 3 * n
    BY <1>4, <2>1
  <2>4. Before(a, c) = HeaderLen(a) + Upto(s, c - 1) + 3 * (c - 1)
    BY <1>4
  <2> QED BY <1>1, <1>3, <2>1, <2>2, <2>3, <2>4
<1>6. ASSUME NEW c \in 1..n
      PROVE  Before(a, c + 1) = Before(a, c) + s[c] + 3
  <2>1. c \in 1..n + 1 /\ c + 1 \in 1..n + 1 /\ (c + 1) - 1 = c /\ c - 1 \in 0..n
    BY <1>1
  <2>2. Upto(s, c) = Upto(s, c - 1) + s[c] /\ s[c] \in Nat /\ Upto(s, c - 1) \in Nat
    BY <1>1, <1>2, <2>1
  <2>3. Before(a, c + 1) = HeaderLen(a) + Upto(s, c) + 3 * c
    BY <1>4, <2>1
  <2>4. Before(a, c) = HeaderLen(a) + Upto(s, c - 1) + 3 * (c - 1)
    BY <1>4, <2>1
  <2> QED BY <1>3, <2>1, <2>2, <2>3, <2>4
<1>7. Before(a, 1) = HeaderLen(a)
  <2>1. 1 \in 1..n + 1 /\ 1 - 1 = 0
    BY <1>1
  <2> QED BY <1>2, <1>3, <1>4, <2>1
<1>8. \A c \in 0..n : Upto(s, c) \in 0..Sum(s)
  BY <1>1, <1>2
<1> QED BY <1>1, <1>2, <1>5, <1>6, <1>7, <1>8 DEF s, n

(* Where each token of a response is.                                      *)
StreamTold(t, r, a) ==
  LET h == HeaderLen(a)
      n == Len(a.sizes)
  IN  /\ t \in Seq(Tokens)
      /\ t[1] = Token("status") /\ t[2] = Crlf
      /\ a.bare => t[3] = Token("bare") /\ t[4] = Crlf
      /\ t[h - 2] = [kind |-> a.framing, n |-> Sum(a.sizes)]
      /\ t[h - 1] = Crlf /\ t[h] = Crlf
      /\ a.framing # "chunked" =>
           /\ Len(t) = h + Sum(a.sizes)
           /\ \A i \in 1..Sum(a.sizes) : t[h + i] = Byte(r, i)
      /\ a.framing = "chunked" =>
           /\ Len(t) = Before(a, n + 1) + 3
           /\ t[Before(a, n + 1) + 1] = Size(0) /\ t[Before(a, n + 1) + 2] = Crlf
           /\ \A c \in 1..n :
                /\ t[Before(a, c) + 1] = Size(a.sizes[c]) /\ t[Before(a, c) + 2] = Crlf
                /\ t[Before(a, c) + 2 + a.sizes[c] + 1] = Crlf
                /\ \A i \in 1..a.sizes[c] :
                     t[Before(a, c) + 2 + i] = Byte(r, Upto(a.sizes, c - 1) + i)

LEMMA StreamIs ==
  ASSUME NEW r \in Nat, NEW a \in Answers
  PROVE  StreamTold(Stream(r, a), r, a)
<1> DEFINE x == Header(a)
           y == Content(r, a)
           t == Stream(r, a)
           h == HeaderLen(a)
           n == Len(a.sizes)
           s == Sum(a.sizes)
<1>1. x \in Seq(Tokens) /\ Len(x) = h
      /\ x[1] = Token("status") /\ x[2] = Crlf
      /\ (a.bare => x[3] = Token("bare") /\ x[4] = Crlf)
      /\ x[h - 2] = [kind |-> a.framing, n |-> Sum(a.sizes)]
      /\ x[h - 1] = Crlf /\ x[h] = Crlf
  BY HeaderIs
<1>2. h \in {5, 7} /\ (a.bare => h = 7)
  BY DEF HeaderLen
<1>3. a.framing # "chunked" =>
        y \in Seq(Tokens) /\ Len(y) = s /\ \A i \in 1..s : y[i] = Byte(r, i)
  BY BodyIs DEF Content
<1> DEFINE off(c) == Upto(a.sizes, c) + 3 * c
<1>4. a.framing = "chunked" =>
        /\ y \in Seq(Tokens) /\ Len(y) = off(n) + 3
        /\ \A c \in 1..n : \A i \in 1..a.sizes[c] + 3 :
             y[off(c - 1) + i] = Part(r, a, c)[i]
        /\ y[off(n) + 1] = Size(0) /\ y[off(n) + 2] = Crlf
  BY ChunkedIs
<1>5. t = x \o y
  BY DEF Stream
<1>6. y \in Seq(Tokens)
  BY <1>3, <1>4
<1> HIDE DEF x, y
<1>7. IsJoin(t, x, y)
  BY <1>1, <1>5, <1>6, TokensJoin, Zenon
<1> HIDE DEF t
<1>8. /\ t \in Seq(Tokens) /\ Len(t) = h + Len(y)
      /\ \A i \in 1..h : t[i] = x[i]
      /\ \A i \in 1..Len(y) : t[h + i] = y[i]
  BY <1>1, <1>7 DEF IsJoin
<1>9. /\ t[1] = Token("status") /\ t[2] = Crlf
      /\ a.bare => t[3] = Token("bare") /\ t[4] = Crlf
      /\ t[h - 2] = [kind |-> a.framing, n |-> Sum(a.sizes)]
      /\ t[h - 1] = Crlf /\ t[h] = Crlf
  <2>1. {1, 2, 3, 4, h - 2, h - 1, h} \subseteq 1..h
    BY <1>2
  <2> QED BY <1>1, <1>8, <2>1
<1>10. ASSUME a.framing = "chunked"
       PROVE  /\ Len(t) = Before(a, n + 1) + 3
              /\ t[Before(a, n + 1) + 1] = Size(0) /\ t[Before(a, n + 1) + 2] = Crlf
              /\ \A c \in 1..n :
                   /\ t[Before(a, c) + 1] = Size(a.sizes[c]) /\ t[Before(a, c) + 2] = Crlf
                   /\ t[Before(a, c) + 2 + a.sizes[c] + 1] = Crlf
                   /\ \A i \in 1..a.sizes[c] :
                        t[Before(a, c) + 2 + i] = Byte(r, Upto(a.sizes, c - 1) + i)
  <2>1. n \in Nat /\ \A c \in 0..n : Upto(a.sizes, c) \in Nat
    <3>1. n \in Nat /\ Sum(a.sizes) \in Nat
          /\ \A c \in 0..n : Upto(a.sizes, c) \in 0..Sum(a.sizes)
      BY Zenon, BeforeIs
    <3> QED BY <3>1
  <2>2. \A c \in 1..n : c - 1 \in 0..n
    BY <2>1
  <2>3. \A c \in 1..n + 1 : Before(a, c) = h + off(c - 1) /\ off(c - 1) \in Nat
    <3> SUFFICES ASSUME NEW c \in 1..n + 1
                 PROVE  Before(a, c) = h + off(c - 1) /\ off(c - 1) \in Nat
      OBVIOUS
    <3>1. c - 1 \in 0..n
      BY <2>1
    <3>2. Upto(a.sizes, c - 1) \in Nat
      BY <2>1, <3>1
    <3> QED BY <1>2, <3>1, <3>2 DEF Before
  <2>4. Before(a, n + 1) = h + off(n) /\ off(n) \in Nat
    <3>1. n + 1 \in 1..n + 1 /\ (n + 1) - 1 = n
      BY <2>1
    <3> QED BY <2>3, <3>1
  <2>5. /\ \A c \in 1..n : /\ a.sizes[c] \in Nat \ {0} /\ c \in 1..n + 1
                           /\ Upto(a.sizes, c) = Upto(a.sizes, c - 1) + a.sizes[c]
                           /\ off(c - 1) + (a.sizes[c] + 3) <= off(n)
    <3> SUFFICES ASSUME NEW c \in 1..n
                 PROVE  /\ a.sizes[c] \in Nat \ {0} /\ c \in 1..n + 1
                        /\ Upto(a.sizes, c) = Upto(a.sizes, c - 1) + a.sizes[c]
                        /\ off(c - 1) + (a.sizes[c] + 3) <= off(n)
      OBVIOUS
    <3>1. c \in 1..n + 1 /\ c + 1 \in 1..n + 1 /\ (c + 1) - 1 = c
      BY <2>1
    <3>2. a.sizes[c] \in Nat \ {0}
          /\ Upto(a.sizes, c) = Upto(a.sizes, c - 1) + a.sizes[c]
          /\ Before(a, c + 1) = Before(a, c) + a.sizes[c] + 3
          /\ Before(a, c + 1) <= Before(a, n + 1)
      BY <3>1, BeforeIs
    <3> HIDE DEF off, n, h
    <3>3. Before(a, c) = h + off(c - 1) /\ off(c - 1) \in Nat
      BY <2>3, <3>1
    <3> QED BY <1>2, <2>4, <3>1, <3>2, <3>3
  <2> HIDE DEF off, n, h
  <2>6. Len(y) = off(n) + 3 /\ t[h + off(n) + 1] = y[off(n) + 1]
        /\ t[h + off(n) + 2] = y[off(n) + 2]
    <3>1. off(n) + 1 \in 1..off(n) + 3 /\ off(n) + 2 \in 1..off(n) + 3
          /\ h + off(n) + 1 = h + (off(n) + 1) /\ h + off(n) + 2 = h + (off(n) + 2)
      BY <1>2, <2>4
    <3> QED BY <1>4, <1>8, <1>10, <3>1
  <2>7. ASSUME NEW c \in 1..n
        PROVE  /\ t[Before(a, c) + 1] = Size(a.sizes[c]) /\ t[Before(a, c) + 2] = Crlf
               /\ t[Before(a, c) + 2 + a.sizes[c] + 1] = Crlf
               /\ \A i \in 1..a.sizes[c] :
                    t[Before(a, c) + 2 + i] = Byte(r, Upto(a.sizes, c - 1) + i)
    <3> DEFINE m == a.sizes[c]
               p == Part(r, a, c)
    <3>1. p[1] = Size(m) /\ p[2] = Crlf /\ p[m + 3] = Crlf
          /\ \A i \in 1..m : p[2 + i] = Byte(r, Upto(a.sizes, c - 1) + i)
      BY PartIs, ZenonT(60) DEF n
    <3>2. Before(a, c) = h + off(c - 1) /\ off(c - 1) \in Nat /\ m \in Nat \ {0}
          /\ off(c - 1) + (m + 3) <= off(n)
      BY <2>3, <2>5
    <3> HIDE DEF m, p
    <3>3. \A i \in 1..m + 3 : t[Before(a, c) + i] = p[i]
      <4> SUFFICES ASSUME NEW i \in 1..m + 3 PROVE t[Before(a, c) + i] = p[i]
        OBVIOUS
      <4>1. off(c - 1) + i \in 1..off(n) + 3
            /\ Before(a, c) + i = h + (off(c - 1) + i)
        BY <1>2, <2>4, <3>2
      <4>2. y[off(c - 1) + i] = p[i]
        BY <1>4, <1>10 DEF m, p
      <4> QED BY <1>8, <2>6, <4>1, <4>2
    <3>4. Before(a, c) \in Nat
      BY <1>2, <3>2
    <3>5. 1 \in 1..m + 3 /\ 2 \in 1..m + 3 /\ m + 3 \in 1..m + 3
          /\ Before(a, c) + 2 + m + 1 = Before(a, c) + (m + 3)
      BY <3>2, <3>4
    <3>6. \A i \in 1..m : 2 + i \in 1..m + 3
                          /\ Before(a, c) + 2 + i = Before(a, c) + (2 + i)
      BY <3>2, <3>4
    <3> QED BY <3>1, <3>3, <3>5, <3>6 DEF m
  <2>8. Len(t) = Before(a, n + 1) + 3
        /\ t[Before(a, n + 1) + 1] = Size(0) /\ t[Before(a, n + 1) + 2] = Crlf
    BY <1>2, <1>4, <1>8, <1>10, <2>4, <2>6, SMTT(60)
  <2> QED BY <2>7, <2>8
<1>11. ASSUME a.framing # "chunked"
       PROVE  Len(t) = h + s /\ \A i \in 1..s : t[h + i] = Byte(r, i)
  BY <1>3, <1>8, <1>11
<1> QED BY <1>8, <1>9, <1>10, <1>11 DEF StreamTold, t


-----------------------------------------------------------------------------
(* The client.                                                             *)
Retrieving == {"raw", "wait", "size", "copy", "body", "end"}
ClientPlaces == {"idle", "done", "first", "continue", "status", "header"}
                  \union Retrieving

ClientTypes ==
  /\ req \in Nat /\ resp \in Answers /\ sent \in 0..Len(Stream(req, resp))
  /\ peer \in {"open", "closed", "reset"}
  /\ wire \in Seq(Tokens) /\ data \in Seq(Tokens)
  /\ buffer \in Seq(Tokens) /\ delivered \in Seq(Tokens)
  /\ is_more \in BOOLEAN /\ is_chunked \in BOOLEAN /\ stale \in BOOLEAN
  /\ retrieve_len \in Nat /\ readLen \in Nat /\ response_content_len \in Int
  /\ code \in 0..req
  /\ count \in 0..Room - 1
  /\ pc \in ClientPlaces
  /\ result \in {"ok", "more", "conn", "prtcl", "xx"}

(* What the local buffer and the piece hold.                               *)
InHand ==
  /\ Len(data) <= Chunk
  /\ pc \in Retrieving => count = 0 \/ Len(buffer) = count
  /\ pc \in {"wait", "body", "end"} => Len(buffer) = count
  /\ pc \in {"copy", "body"} => readLen = retrieve_len
  /\ pc \in {"first", "continue", "wait", "body", "done"} => data = <<>>

(* d and w are the tokens of t from place k on, up to the s-th unless the  *)
(* connection was reset.                                                   *)
Holds(t, s, k, d, w, p) ==
  /\ k + Len(d) + Len(w) <= s
  /\ p # "reset" => k + Len(d) + Len(w) = s
  /\ \A i \in 1..Len(d) : d[i] = t[k + i]
  /\ \A i \in 1..Len(w) : w[i] = t[k + Len(d) + i]

At(k) == Holds(Stream(req, resp), sent, k, data, wire, peer)

(* The header has told how the body ends.                                  *)
Framed ==
  IF resp.framing = "chunked" THEN is_chunked
  ELSE /\ ~is_chunked
       /\ response_content_len = IF resp.framing = "length" THEN Total ELSE -1

(* The caller was handed the beginning of the body, and the piece goes on  *)
(* behind it.                                                              *)
Given ==
  /\ Len(delivered) <= Total
  /\ \A i \in 1..Len(delivered) : delivered[i] = Byte(req, i)

Piece == \A i \in 1..count : buffer[i] = Byte(req, Len(delivered) + i)

Answering == code = req /\ is_more /\ Framed

(* Each place the client can be at: behind nothing, behind k tokens of the *)
(* header, before the next piece, in a body that is not chunked and in one *)
(* that is.                                                                *)
OnFirst == At(0) /\ delivered = <<>> /\ code < req

InHeader(k) ==
  /\ k \in {2, 4, 6} /\ k < HeaderLen(resp) /\ At(k)
  /\ k = HeaderLen(resp) - 1 =>
       /\ Framed
       /\ resp.framing = "length" => retrieve_len = Total
       /\ resp.framing = "chunked" => retrieve_len = 0
  /\ k # HeaderLen(resp) - 1 => ~is_chunked /\ response_content_len = -1

OnHeader ==
  /\ delivered = <<>> /\ code = req /\ Chunk >= 2
  /\ \E k \in {2, 4, 6} : InHeader(k)

OnContinue ==
  /\ Answering /\ Given /\ resp.framing # "chunked"
  /\ At(HeaderLen(resp) + Len(delivered))
  /\ resp.framing = "length" => retrieve_len = Total - Len(delivered)

OnBody ==
  /\ Answering /\ Given /\ Piece
  /\ At(HeaderLen(resp) + Len(delivered) + count)
  /\ pc \in {"raw", "wait"} => resp.framing = "close"
  /\ pc \in {"copy", "body"} =>
       resp.framing = "length" /\ readLen = Total - Len(delivered) - count
  /\ pc \notin {"size", "end"}
  /\ count + Len(data) <= Room

(* In chunk c, or before its size; the last size is that of no chunk.      *)
InChunk(c) ==
  /\ c \in 1..Len(resp.sizes) + 1
  /\ pc = "size" => At(Before(resp, c)) /\ count = Upto(resp.sizes, c - 1)
  /\ pc # "size" => c <= Len(resp.sizes)
  /\ pc \in {"copy", "body"} =>
       /\ readLen <= resp.sizes[c] /\ count = Upto(resp.sizes, c) - readLen
       /\ At(Before(resp, c + 1) - 1 - readLen)
  /\ pc = "end" => At(Before(resp, c + 1) - 1) /\ count = Upto(resp.sizes, c)

OnChunk ==
  /\ Answering /\ delivered = <<>> /\ Piece
  /\ pc \in {"size", "copy", "body", "end"}
  /\ \E c \in 1..Len(resp.sizes) + 1 : InChunk(c)

OnDone ==
  /\ sent = 0 \/ (resp.framing = "chunked" /\ Total = 0) \/ Given
  /\ pc = "done" /\ result = "more" => Len(buffer) = Room

OnPlace ==
  /\ pc \in {"first", "status"} => OnFirst
  /\ pc = "header" => OnHeader
  /\ pc = "continue" \/ (pc = "done" /\ result = "more") => OnContinue
  /\ pc \in Retrieving /\ resp.framing # "chunked" => OnBody
  /\ pc \in Retrieving /\ resp.framing = "chunked" => OnChunk
  /\ pc \in {"done", "idle"} => OnDone

(* What PiecesAreTheBody excepts from the start: is_more was left over, or *)
(* the bytes of a chunked body do not fit.                                 *)
Tame == ~stale /\ ~Overflows

ResponseInv ==
  /\ ClientTypes /\ InHand
  /\ Tame => OnPlace
  /\ stale => code < req /\ pc \notin {"first", "status", "header"}
  /\ OkMeansWhole
  /\ ErrorsHaveAReason


LEMMA ClientSizes ==
  /\ Chunk \in Nat \ {0} /\ Room \in Nat \ {0} /\ Chunk <= Room
  /\ Misread \subseteq Nat /\ Responses \subseteq Answers
BY SizesAssumption DEF Answers

LEMMA Least2 ==
  ASSUME NEW x \in Int, NEW y \in Int
  PROVE  Min({x, y}) = IF x <= y THEN x ELSE y
<1> DEFINE m == IF x <= y THEN x ELSE y
<1>1. m \in {x, y} /\ \A z \in {x, y} : m <= z
  OBVIOUS
<1>2. ASSUME NEW u \in {x, y}, \A z \in {x, y} : u <= z PROVE u = m
  <2>1. u \in Int /\ m \in Int /\ u <= m /\ m <= u
    BY <1>1, <1>2
  <2> QED BY <2>1
<1> HIDE DEF m
<1>3. Min({x, y}) \in {x, y} /\ \A z \in {x, y} : Min({x, y}) <= z
  BY <1>1 DEF Min
<1> QED BY <1>2, <1>3 DEF m

LEMMA Least3 ==
  ASSUME NEW x \in Int, NEW y \in Int, NEW z \in Int
  PROVE  /\ Min({x, y, z}) \in {x, y, z}
         /\ Min({x, y, z}) <= x /\ Min({x, y, z}) <= y /\ Min({x, y, z}) <= z
<1> DEFINE m == IF x <= y THEN (IF x <= z THEN x ELSE z) ELSE (IF y <= z THEN y ELSE z)
<1>1. m \in {x, y, z} /\ \A u \in {x, y, z} : m <= u
  OBVIOUS
<1>2. Min({x, y, z}) \in {x, y, z} /\ \A u \in {x, y, z} : Min({x, y, z}) <= u
  BY <1>1 DEF Min
<1> QED BY <1>2

(* Tokens are received, dropped from the front of the buffer, or lost.     *)
LEMMA HoldsTaken ==
  ASSUME NEW t, NEW s \in Nat, NEW k \in Nat, NEW d \in Seq(Tokens),
         NEW w \in Seq(Tokens), NEW p, NEW j \in 0..Len(w), Holds(t, s, k, d, w, p)
  PROVE  Holds(t, s, k, d \o SubSeq(w, 1, j), SubSeq(w, j + 1, Len(w)), p)
<1> DEFINE x == SubSeq(w, 1, j)
           y == SubSeq(w, j + 1, Len(w))
           e == d \o x
<1>1. x \in Seq(Tokens) /\ Len(x) = j /\ (\A i \in 1..j : x[i] = w[i])
      /\ y \in Seq(Tokens) /\ Len(y) = Len(w) - j
      /\ (\A i \in 1..Len(w) - j : y[i] = w[j + i]) /\ Len(w) \in Nat /\ Len(d) \in Nat
  OBVIOUS
<1> HIDE DEF x, y
<1>2. IsJoin(e, d, x)
  BY <1>1, TokensJoin, Zenon
<1> HIDE DEF e
<1>3. Len(e) = Len(d) + j
  BY <1>1, <1>2 DEF IsJoin
<1>4. ASSUME NEW i \in 1..Len(e) PROVE e[i] = t[k + i]
  <2>1. CASE i <= Len(d)
    <3>1. i \in 1..Len(d)
      BY <1>1, <1>3, <2>1
    <3> QED BY <1>2, <3>1 DEF IsJoin, Holds
  <2>2. CASE ~(i <= Len(d))
    <3> DEFINE l == i - Len(d)
    <3>1. l \in 1..j /\ l \in 1..Len(w) /\ i = Len(d) + l /\ k + i = k + Len(d) + l
      BY <1>1, <1>3, <2>2
    <3> HIDE DEF l
    <3>2. e[Len(d) + l] = x[l] /\ x[l] = w[l] /\ w[l] = t[k + Len(d) + l]
      BY <1>1, <1>2, <3>1 DEF IsJoin, Holds
    <3> QED BY <3>1, <3>2
  <2> QED BY <2>1, <2>2
<1>5. ASSUME NEW i \in 1..Len(y) PROVE y[i] = t[k + Len(e) + i]
  <2>1. i \in 1..Len(w) - j /\ j + i \in 1..Len(w)
        /\ k + Len(e) + i = k + Len(d) + (j + i)
    BY <1>1, <1>3, SMTT(60)
  <2>2. w[j + i] = t[k + Len(d) + (j + i)]
    BY <2>1 DEF Holds
  <2> QED BY <1>1, <2>1, <2>2
<1>6. k + Len(e) + Len(y) = k + Len(d) + Len(w)
  BY <1>1, <1>3, SMTT(60)
<1> QED BY <1>4, <1>5, <1>6 DEF Holds, e, x, y

LEMMA HoldsDropped ==
  ASSUME NEW t, NEW s \in Nat, NEW k \in Nat, NEW d \in Seq(Tokens),
         NEW w \in Seq(Tokens), NEW p, NEW n \in 0..Len(d), Holds(t, s, k, d, w, p)
  PROVE  /\ Rest(d, n) \in Seq(Tokens) /\ Len(Rest(d, n)) = Len(d) - n
         /\ \A i \in 1..Len(d) - n : Rest(d, n)[i] = d[n + i]
         /\ Holds(t, s, k + n, Rest(d, n), w, p)
<1> DEFINE x == Rest(d, n)
<1>1. x \in Seq(Tokens) /\ Len(x) = Len(d) - n /\ (\A i \in 1..Len(d) - n : x[i] = d[n + i])
      /\ Len(d) \in Nat /\ Len(w) \in Nat
  BY DEF Rest
<1> HIDE DEF x
<1>2. ASSUME NEW i \in 1..Len(x) PROVE x[i] = t[(k + n) + i]
  <2>1. n + i \in 1..Len(d) /\ k + (n + i) = (k + n) + i /\ i \in 1..Len(d) - n
    BY <1>1
  <2> QED BY <1>1, <2>1 DEF Holds
<1>3. k + n + Len(x) = k + Len(d) /\ k + Len(d) \in Nat
  BY <1>1
<1> QED BY <1>1, <1>2, <1>3 DEF Holds, x

LEMMA HoldsReset ==
  ASSUME NEW t, NEW s \in Nat, NEW k \in Nat, NEW d \in Seq(Tokens),
         NEW w \in Seq(Tokens), NEW p, Holds(t, s, k, d, w, p)
  PROVE  Holds(t, s, k, d, <<>>, "reset")
BY DEF Holds


LEMMA SameResponse ==
  ASSUME ClientTypes, UNCHANGED request
  PROVE  /\ req' = req /\ resp' = resp /\ sent' = sent /\ stale' = stale
         /\ Total' = Total /\ Tame' = Tame /\ Cut' = Cut /\ Overflows' = Overflows
         /\ Stream(req, resp)' = Stream(req, resp)
         /\ req \in Nat /\ resp \in Answers /\ sent \in Nat /\ Total \in Nat
         /\ HeaderLen(resp) \in {5, 7}
         /\ StreamTold(Stream(req, resp), req, resp)
         /\ Len(Stream(req, resp)) \in Nat /\ sent <= Len(Stream(req, resp))
<1>1. req' = req /\ resp' = resp /\ sent' = sent /\ stale' = stale
  BY DEF request
<1>2. req \in Nat /\ resp \in Answers /\ sent \in Nat
      /\ sent \in 0..Len(Stream(req, resp))
  BY DEF ClientTypes
<1>3. StreamTold(Stream(req, resp), req, resp)
  BY <1>2, StreamIs
<1>4. Stream(req, resp) \in Seq(Tokens)
  BY <1>3 DEF StreamTold
<1>5. Total \in Nat
  BY <1>2, SizesAre DEF Total
<1>6. Len(Stream(req, resp)) \in Nat
  BY <1>4
<1> QED BY <1>1, <1>2, <1>3, <1>5, <1>6 DEF Total, Tame, Cut, Overflows, HeaderLen

(* What a receive brings is put behind what is in the local buffer.        *)
LEMMA Received ==
  ASSUME ClientTypes, NEW m \in Nat, NEW x \in Int, NEW k \in 0..Chunk,
         NEW r \in {"ok", "conn"}, httpc_recv(m, x, k, r)
  PROVE  /\ k \in Nat /\ k <= Len(wire) /\ k <= x
         /\ wire' \in Seq(Tokens) /\ Came(k) \in Seq(Tokens) /\ Len(Came(k)) = k
         /\ data \o Came(k) \in Seq(Tokens) /\ Len(data \o Came(k)) = Len(data) + k
         /\ data = <<>> => data \o Came(k) = Came(k)
         /\ r = "conn" => peer = "reset"
         /\ r = "ok" /\ k < m => peer = "closed" /\ (k > 0 \/ wire = <<>>)
         /\ UNCHANGED <<request, peer>> /\ data' = data \o Came(k) =>
              \A j \in Nat : At(j) => At(j)'
<1>1. wire \in Seq(Tokens) /\ data \in Seq(Tokens) /\ Len(wire) \in Nat
  BY DEF ClientTypes
<1>2. k \in 0..Len(wire) /\ k <= x /\ wire' = SubSeq(wire, k + 1, Len(wire))
      /\ (r = "conn" => peer = "reset")
      /\ (r = "ok" /\ k < m => peer = "closed" /\ k = Len(wire))
  BY <1>1 DEF httpc_recv
<1>3. wire' \in Seq(Tokens) /\ Came(k) \in Seq(Tokens) /\ Len(Came(k)) = k
  BY <1>1, <1>2 DEF Came
<1>4. IsJoin(data \o Came(k), data, Came(k))
  BY <1>1, <1>3, TokensJoin, Zenon
<1>5. data = <<>> => data \o Came(k) = Came(k)
  BY <1>3
<1>6. k = Len(wire) /\ ~(k > 0) => wire = <<>> /\ k = 0
  BY <1>1, <1>2
<1>7. ASSUME UNCHANGED <<request, peer>>, data' = data \o Came(k), NEW j \in Nat, At(j)
      PROVE  At(j)'
  <2>1. /\ Stream(req, resp)' = Stream(req, resp) /\ sent' = sent /\ sent \in Nat
    BY <1>7, SameResponse
  <2>2. Holds(Stream(req, resp), sent, j, data, wire, peer)
    BY <1>7 DEF At
  <2>3. Holds(Stream(req, resp), sent, j, data \o SubSeq(wire, 1, k),
              SubSeq(wire, k + 1, Len(wire)), peer)
    BY <1>1, <1>2, <2>1, <2>2, HoldsTaken
  <2>4. data' = data \o SubSeq(wire, 1, k) /\ peer' = peer
        /\ wire' = SubSeq(wire, k + 1, Len(wire))
    BY <1>2, <1>7 DEF Came
  <2> HIDE DEF Holds
  <2> QED BY <2>1, <2>3, <2>4 DEF At
<1>8. data \o Came(k) \in Seq(Tokens) /\ Len(data \o Came(k)) = Len(data) + k
  BY <1>3, <1>4 DEF IsJoin
<1>9. k \in Nat /\ k <= Len(wire) /\ k <= x
      /\ (r = "ok" /\ k < m => peer = "closed" /\ (k > 0 \/ wire = <<>>))
  BY <1>1, <1>2, <1>6
<1>10. UNCHANGED <<request, peer>> /\ data' = data \o Came(k) =>
         \A j \in Nat : At(j) => At(j)'
  BY <1>7
<1> HIDE DEF At
<1> QED BY <1>2, <1>3, <1>5, <1>8, <1>9, <1>10

LEMMA Dropped ==
  ASSUME ClientTypes, UNCHANGED <<request, peer, wire>>, NEW n \in 0..Len(data),
         data' = Rest(data, n)
  PROVE  /\ data' \in Seq(Tokens) /\ Len(data') = Len(data) - n
         /\ \A i \in 1..Len(data) - n : data'[i] = data[n + i]
         /\ \A j, l \in Nat : At(j) /\ l = j + n => At(l)'
<1>1. wire \in Seq(Tokens) /\ data \in Seq(Tokens)
  BY DEF ClientTypes
<1>2. data' \in Seq(Tokens) /\ Len(data') = Len(data) - n
      /\ \A i \in 1..Len(data) - n : data'[i] = data[n + i]
  BY <1>1, SMTT(30) DEF Rest
<1>3. ASSUME NEW j \in Nat, At(j), NEW l \in Nat, l = j + n PROVE At(l)'
  <2>1. /\ Stream(req, resp)' = Stream(req, resp) /\ sent' = sent /\ sent \in Nat
    BY SameResponse
  <2>2. Holds(Stream(req, resp), sent, j, data, wire, peer)
    BY <1>3 DEF At
  <2>3. Holds(Stream(req, resp), sent, l, Rest(data, n), wire, peer)
    BY <1>1, <1>3, <2>1, <2>2, HoldsDropped
  <2> QED BY <2>1, <2>3 DEF At
<1> QED BY <1>2, <1>3

LEMMA DroppedAll ==
  ASSUME ClientTypes, UNCHANGED <<request, peer, wire>>, data' = <<>>
  PROVE  \A j, l \in Nat : At(j) /\ l = j + Len(data) => At(l)'
<1>1. data \in Seq(Tokens) /\ Len(data) \in 0..Len(data)
  BY DEF ClientTypes
<1>2. Rest(data, Len(data)) = <<>>
  BY <1>1 DEF Rest
<1> DEFINE n == Len(data)
<1>3. n \in 0..Len(data) /\ data' = Rest(data, n)
  BY <1>1, <1>2
<1> HIDE DEF n
<1>4. \A j, l \in Nat : At(j) /\ l = j + n => At(l)'
  BY <1>3, Dropped
<1> QED BY <1>4 DEF n

LEMMA CopiedIs ==
  ASSUME ClientTypes, count = 0 \/ Len(buffer) = count, NEW n \in 0..Len(data)
  PROVE  /\ Copied(n) \in Seq(Tokens) /\ Len(Copied(n)) = count + n
         /\ \A i \in 1..count : Copied(n)[i] = buffer[i]
         /\ \A i \in 1..n : Copied(n)[count + i] = data[i]
<1> DEFINE x == SubSeq(buffer, 1, count)
           y == SubSeq(data, 1, n)
<1>1. buffer \in Seq(Tokens) /\ data \in Seq(Tokens) /\ count \in Nat
      /\ count <= Len(buffer)
  BY ClientSizes DEF ClientTypes
<1>2. x \in Seq(Tokens) /\ Len(x) = count /\ (\A i \in 1..count : x[i] = buffer[i])
      /\ y \in Seq(Tokens) /\ Len(y) = n /\ (\A i \in 1..n : y[i] = data[i])
  BY <1>1
<1>3. Copied(n) = x \o y
  BY DEF Copied
<1> HIDE DEF x, y
<1>4. IsJoin(x \o y, x, y)
  BY <1>2, TokensJoin, Zenon
<1> QED BY <1>2, <1>3, <1>4 DEF IsJoin

(* A piece is handed over.                                                 *)
LEMMA GivenOn ==
  ASSUME ClientTypes, Given, UNCHANGED request, NEW b \in Seq(Tokens),
         delivered' = delivered \o b, Len(delivered) + Len(b) <= Total,
         \A i \in 1..Len(b) : b[i] = Byte(req, Len(delivered) + i)
  PROVE  Given' /\ Len(delivered') = Len(delivered) + Len(b)
<1>1. delivered \in Seq(Tokens) /\ Len(delivered) \in Nat /\ Len(b) \in Nat
  BY DEF ClientTypes
<1>2. IsJoin(delivered', delivered, b)
  BY <1>1, TokensJoin, Zenon
<1>3. req' = req /\ Total' = Total
  BY SameResponse
<1>4. ASSUME NEW i \in 1..Len(delivered') PROVE delivered'[i] = Byte(req, i)
  <2>1. CASE i <= Len(delivered)
    BY <1>1, <1>2, <2>1 DEF IsJoin, Given
  <2>2. CASE ~(i <= Len(delivered))
    <3> DEFINE l == i - Len(delivered)
    <3>1. l \in 1..Len(b) /\ i = Len(delivered) + l
      BY <1>1, <1>2, <2>2 DEF IsJoin
    <3> HIDE DEF l
    <3> QED BY <1>2, <3>1 DEF IsJoin
  <2> QED BY <2>1, <2>2
<1> QED BY <1>2, <1>3, <1>4 DEF IsJoin, Given

(* As many bytes of the body as it has are the body.                       *)
LEMMA WholeBody ==
  ASSUME NEW r \in Nat, NEW a \in Answers, NEW b \in Seq(Tokens),
         Len(b) = Sum(a.sizes), \A i \in 1..Len(b) : b[i] = Byte(r, i)
  PROVE  b = Body(r, a)
<1> DEFINE c == Body(r, a)
<1>1. c \in Seq(Tokens) /\ Len(c) = Sum(a.sizes)
      /\ \A i \in 1..Sum(a.sizes) : c[i] = Byte(r, i)
  BY BodyIs
<1> HIDE DEF c
<1>2. b = c
  BY <1>1
<1> QED BY <1>2 DEF c

LEMMA GivenSoFar ==
  ASSUME ResponseInv, Tame, pc \notin {"done", "idle"}
  PROVE  Given
<1>1. Total \in Nat
  BY SizesAre DEF ResponseInv, ClientTypes, Total
<1>2. delivered = <<>> => Given
  BY <1>1 DEF Given
<1>3. pc \in {"first", "status", "header", "continue"} \union Retrieving
  BY DEF ResponseInv, ClientTypes, ClientPlaces
<1> QED BY <1>2, <1>3 DEF ResponseInv, OnPlace, OnFirst, OnHeader, OnContinue, OnBody,
                          OnChunk

(* A call that goes on, and a call that ends with an error.                *)
LEMMA GoesOn ==
  ASSUME ClientTypes', InHand', pc' # "done", Tame' => OnPlace',
         stale' => (code' < req' /\ pc' \notin {"first", "status", "header"})
  PROVE  ResponseInv'
BY DEF ResponseInv, OkMeansWhole, ErrorsHaveAReason

LEMMA Refused ==
  ASSUME ResponseInv, pc \notin {"done", "idle"}, UNCHANGED request,
         ClientTypes', Len(data') <= Chunk, data' = <<>>,
         pc' = "done", result' \in {"conn", "prtcl", "xx"},
         delivered' = delivered, code' = code, ErrorsHaveAReason'
  PROVE  ResponseInv'
<1>1. stale' = stale /\ Tame' = Tame /\ req' = req /\ Total' = Total
  BY SameResponse DEF ResponseInv
<1>2. InHand'
  BY DEF InHand, Retrieving
<1>3. Tame' => OnPlace'
  <2>1. Tame' => Given'
    BY <1>1, GivenSoFar DEF Given
  <2> QED BY <2>1 DEF OnPlace, OnDone, Retrieving
<1>4. OkMeansWhole'
  BY DEF OkMeansWhole
<1>5. stale' => code' < req' /\ pc' \notin {"first", "status", "header"}
  BY <1>1 DEF ResponseInv
<1> QED BY <1>2, <1>3, <1>4, <1>5 DEF ResponseInv


-----------------------------------------------------------------------------
(* Each step of the client.                                                *)
LEMMA FirstStep ==
  ASSUME ResponseInv, First
  PROVE  ResponseInv'
<1>1. ClientTypes /\ InHand /\ data = <<>> /\ pc = "first" /\ ~stale
  BY DEF ResponseInv, InHand, First
<1>2. Tame => OnFirst
  BY <1>1 DEF ResponseInv, OnPlace
<1>3. UNCHANGED <<request, peer, client, buffer>>
  BY DEF First
<1>4. /\ stale' = stale /\ Tame' = Tame /\ req' = req /\ sent' = sent
      /\ Overflows' = Overflows /\ sent \in Nat
  BY <1>1, <1>3, SameResponse
<1>5. PICK k \in 0..Chunk, r \in {"ok", "conn"} :
        /\ httpc_recv(1, Chunk, k, r)
        /\ IF r = "conn" \/ k = 0 THEN Return(r, buffer)
           ELSE Go("status", Came(k)) /\ UNCHANGED <<count, readLen>>
  BY DEF First
<1>6. /\ k \in Nat /\ k <= Chunk
      /\ wire' \in Seq(Tokens) /\ Came(k) \in Seq(Tokens) /\ Len(Came(k)) = k
      /\ (r = "conn" => peer = "reset")
      /\ (r = "ok" /\ k < 1 => peer = "closed" /\ (k > 0 \/ wire = <<>>))
      /\ (data' = Came(k) => \A j \in Nat : At(j) => At(j)')
  <2>1. 1 \in Nat /\ Chunk \in Int
    BY ClientSizes
  <2>2. data \o Came(k) = Came(k)
    BY <1>1, <1>5, <2>1, Received
  <2> QED BY <1>1, <1>3, <1>5, <2>1, <2>2, Received, ZenonT(60)
<1>7. Len(<<>>) = 0 /\ 0 <= Chunk /\ <<>> \in Seq(Tokens)
  BY ClientSizes
<1>8. CASE r = "conn" \/ k = 0
  <2>1. pc' = "done" /\ result' = r /\ data' = <<>> /\ UNCHANGED <<count, readLen>>
        /\ delivered' = IF r = "ok" THEN delivered \o buffer ELSE delivered
    BY <1>5, <1>8 DEF Return
  <2>2. delivered' \in Seq(Tokens)
    BY <1>1, <2>1 DEF ClientTypes
  <2>3. ClientTypes'
    BY <1>1, <1>3, <1>6, <1>7, <2>1, <2>2 DEF ClientTypes, ClientPlaces, request, client
  <2>4. InHand'
    BY <1>7, <2>1 DEF InHand, Retrieving
  <2>5. r = "ok" /\ Tame => sent = 0
    <3>1. ASSUME r = "ok", Tame PROVE sent = 0
      <4>1. wire = <<>> /\ peer # "reset"
        BY <1>6, <1>8, <3>1
      <4>2. Len(data) = 0 /\ Len(wire) = 0
        BY <1>1, <4>1
      <4> QED BY <1>2, <1>4, <3>1, <4>1, <4>2 DEF OnFirst, At, Holds
    <3> QED BY <3>1
  <2>6. Tame' => OnPlace'
    <3>1. Tame /\ r = "conn" => Given'
      <4>1. Tame /\ r = "conn" => Given
        BY <1>1, GivenSoFar
      <4>2. Total' = Total
        BY <1>1, <1>3, SameResponse
      <4> QED BY <1>4, <2>1, <4>1, <4>2 DEF Given
    <3> QED BY <1>4, <2>1, <2>5, <3>1 DEF OnPlace, OnDone, Retrieving
  <2>7. OkMeansWhole'
    BY <1>1, <1>4, <2>1, <2>5 DEF OkMeansWhole, Tame
  <2>8. ErrorsHaveAReason'
    BY <1>3, <1>6, <2>1 DEF ErrorsHaveAReason
  <2> QED BY <1>1, <1>4, <2>3, <2>4, <2>6, <2>7, <2>8 DEF ResponseInv
<1>9. CASE r = "ok" /\ k # 0
  <2>1. pc' = "status" /\ data' = Came(k) /\ UNCHANGED <<count, readLen, result, delivered>>
    BY <1>5, <1>9 DEF Go
  <2>2. ClientTypes'
    BY <1>1, <1>3, <1>6, <2>1 DEF ClientTypes, ClientPlaces, request, client
  <2>3. InHand'
    BY <1>6, <2>1 DEF InHand, Retrieving
  <2>4. Tame => OnFirst'
    BY <1>2, <1>3, <1>4, <1>6, <2>1 DEF OnFirst, client
  <2>5. Tame' => OnPlace'
    BY <1>4, <2>1, <2>4 DEF OnPlace, Retrieving
  <2> QED BY <1>1, <1>4, <2>1, <2>2, <2>3, <2>5, GoesOn
<1> QED BY <1>8, <1>9

LEMMA BeginsIn ==
  ASSUME NEW chunked \in BOOLEAN, NEW l \in Int, NEW left \in Nat
  PROVE  /\ Begins(chunked, l, left) \in {"raw", "size", "copy"}
         /\ ~chunked => Begins(chunked, l, left) = IF l = -1 THEN "raw" ELSE "copy"
         /\ chunked /\ left = 0 => Begins(chunked, l, left) = "size"
BY DEF Begins

LEMMA ContinueStep ==
  ASSUME ResponseInv, Continue
  PROVE  ResponseInv'
<1>1. ClientTypes /\ data = <<>> /\ pc = "continue"
  BY DEF ResponseInv, InHand, Continue
<1>2. /\ UNCHANGED <<request, peer, wire, client>> /\ UNCHANGED <<result, delivered>>
      /\ buffer' = <<>> /\ count' = 0 /\ readLen' = retrieve_len /\ data' = <<>>
      /\ pc' = Begins(is_chunked, response_content_len, retrieve_len)
  BY DEF Continue, Go
<1>3. /\ stale' = stale /\ Tame' = Tame /\ req' = req /\ sent' = sent /\ resp' = resp
      /\ Total' = Total /\ Total \in Nat
      /\ Stream(req, resp)' = Stream(req, resp)
  BY <1>1, <1>2, SameResponse
<1>4. pc' \in {"raw", "size", "copy"}
  BY <1>1, <1>2, BeginsIn DEF ClientTypes
<1>5. Len(<<>>) = 0 /\ 0 <= Chunk /\ 0 <= Room /\ 0 \in 0..Room - 1 /\ <<>> \in Seq(Tokens)
  BY ClientSizes
<1>6. ClientTypes'
  BY <1>1, <1>2, <1>4, <1>5 DEF ClientTypes, ClientPlaces, Retrieving, request, client
<1>7. InHand'
  BY <1>2, <1>4, <1>5 DEF InHand, client
<1>8. ASSUME Tame PROVE OnPlace'
  <2>1. OnContinue
    BY <1>1, <1>8 DEF ResponseInv, OnPlace
  <2>2. ~is_chunked /\ resp.framing \in {"length", "close"}
        /\ response_content_len = IF resp.framing = "length" THEN Total ELSE -1
    BY <1>1, <2>1 DEF OnContinue, Answering, Framed, ClientTypes, Answers
  <2>3. pc' = IF resp.framing = "close" THEN "raw" ELSE "copy"
    BY <1>1, <1>2, <1>3, <2>2, BeginsIn DEF ClientTypes
  <2>4. Len(delivered) \in Nat /\ HeaderLen(resp) \in Nat
    BY <1>1 DEF ClientTypes, HeaderLen
  <2>5. OnBody'
    <3>1. At(HeaderLen(resp) + Len(delivered) + count)'
      <4>1. HeaderLen(resp) + Len(delivered) + 0 = HeaderLen(resp) + Len(delivered)
        BY <2>4
      <4> QED BY <1>1, <1>2, <1>3, <2>1, <4>1 DEF OnContinue, At
    <3>2. Answering' /\ Given' /\ Piece'
      BY <1>2, <1>3, <2>1 DEF OnContinue, Answering, Framed, Given, Piece, client
    <3>3. readLen' = Total' - Len(delivered)' - count' \/ resp.framing = "close"
      BY <1>2, <1>3, <2>1, <2>2, <2>4 DEF OnContinue
    <3>4. count' + Len(data') <= Room
      BY <1>2, <1>5
    <3> QED BY <1>3, <2>2, <2>3, <3>1, <3>2, <3>3, <3>4 DEF OnBody
  <2>6. resp'.framing # "chunked"
    BY <1>3, <2>2
  <2> QED BY <2>3, <2>5, <2>6 DEF OnPlace
<1>9. stale' => (code' < req' /\ pc' \notin {"first", "status", "header"})
  BY <1>2, <1>3, <1>4 DEF ResponseInv, client
<1>10. pc' # "done"
  BY <1>4
<1> QED BY <1>3, <1>6, <1>7, <1>8, <1>9, <1>10, GoesOn

LEMMA StatusStep ==
  ASSUME ResponseInv, Status
  PROVE  ResponseInv'
<1>1. ClientTypes /\ InHand /\ pc = "status" /\ ~stale
  BY DEF ResponseInv, Status
<1>2. Tame => OnFirst
  BY <1>1 DEF ResponseInv, OnPlace
<1>3. /\ UNCHANGED <<request, peer, wire, is_more, retrieve_len, buffer>>
      /\ response_content_len' = -1
  BY DEF Status
<1>4. /\ stale' = stale /\ Tame' = Tame /\ req' = req /\ sent' = sent /\ resp' = resp
      /\ Overflows' = Overflows /\ HeaderLen(resp) \in {5, 7}
  BY <1>1, <1>3, SameResponse
<1>5. CASE Len(data) >= 2 /\ data[1].kind = "status" /\ data[2] = Crlf
  <2>1. /\ code' = req /\ is_chunked' = FALSE /\ pc' = "header" /\ data' = Rest(data, 2)
        /\ UNCHANGED <<result, delivered, count, readLen>>
    BY <1>5 DEF Status, Go
  <2>2. 2 \in 0..Len(data) /\ Len(data) \in Nat
    BY <1>1, <1>5 DEF ClientTypes
  <2>3. data' \in Seq(Tokens) /\ Len(data') = Len(data) - 2
        /\ \A j, l \in Nat : At(j) /\ l = j + 2 => At(l)'
    BY <1>1, <1>3, <2>1, <2>2, Dropped
  <2>4. ClientTypes'
    <3>1. code' \in 0..req' /\ response_content_len' \in Int
      BY <1>1, <1>3, <1>4, <2>1 DEF ClientTypes
    <3> QED BY <1>1, <1>3, <1>4, <2>1, <2>3, <3>1 DEF ClientTypes, ClientPlaces, request
  <2>5. InHand'
    BY <1>1, <2>1, <2>2, <2>3, ClientSizes DEF InHand, Retrieving
  <2>6. ASSUME Tame PROVE OnPlace'
    <3>1. InHeader(2)'
      <4>1. At(2)'
        BY <1>2, <2>3, <2>6 DEF OnFirst
      <4>2. 2 < HeaderLen(resp') /\ 2 # HeaderLen(resp') - 1
        BY <1>4
      <4> QED BY <1>3, <2>1, <4>1, <4>2 DEF InHeader
    <3>2. delivered' = <<>> /\ code' = req' /\ Chunk >= 2
      BY <1>1, <1>2, <1>4, <1>5, <2>1, <2>2, <2>6, ClientSizes DEF OnFirst, InHand
    <3>3. OnHeader'
      BY <3>1, <3>2 DEF OnHeader
    <3> QED BY <2>1, <3>3 DEF OnPlace, Retrieving
  <2> QED BY <1>1, <1>4, <2>1, <2>4, <2>5, <2>6, GoesOn
<1>6. CASE ~(Len(data) >= 2 /\ data[1].kind = "status" /\ data[2] = Crlf)
  <2>1. /\ pc' = "done" /\ result' = "prtcl" /\ delivered' = delivered /\ data' = <<>>
        /\ UNCHANGED <<count, readLen, code, is_chunked>>
    BY <1>6 DEF Status, Return
  <2>2. ClientTypes'
    <3>1. <<>> \in Seq(Tokens)
      OBVIOUS
    <3> QED BY <1>1, <1>3, <2>1, <3>1 DEF ClientTypes, ClientPlaces, request
  <2>3. Len(data') <= Chunk
    BY <2>1, ClientSizes
  <2>4. ErrorsHaveAReason'
    <3>1. Tame => code < req
      BY <1>2 DEF OnFirst
    <3>2. code \in Int /\ req \in Int
      BY <1>1 DEF ClientTypes
    <3>3. Tame => code # req
      BY <3>1, <3>2
    <3> QED BY <1>1, <1>4, <2>1, <3>3 DEF ErrorsHaveAReason, Tame
  <2> QED BY <1>1, <1>3, <2>1, <2>2, <2>3, <2>4, Refused
<1> QED BY <1>5, <1>6


LEMMA HeaderLines ==
  ASSUME NEW r, NEW a \in Answers, NEW t, StreamTold(t, r, a),
         NEW k \in {2, 4, 6}, k < HeaderLen(a)
  PROVE  LET h == HeaderLen(a)
         IN  /\ k = h - 1 => t[k + 1] = Crlf
             /\ k # h - 1 =>
                  /\ k + 2 \in {2, 4, 6} /\ k + 2 < h /\ t[k + 2] = Crlf
                  /\ \/ k + 2 = h - 1 /\ t[k + 1] = [kind |-> a.framing, n |-> Sum(a.sizes)]
                     \/ k + 2 # h - 1 /\ a.bare /\ t[k + 1] = Token("bare")
<1>1. CASE a.bare
  <2>1. HeaderLen(a) = 7 /\ 7 - 1 = 6 /\ 7 - 2 = 5
    BY <1>1 DEF HeaderLen
  <2>2. t[3] = Token("bare") /\ t[4] = Crlf /\ t[6] = Crlf /\ t[7] = Crlf
        /\ t[5] = [kind |-> a.framing, n |-> Sum(a.sizes)]
    BY <1>1, <2>1 DEF StreamTold
  <2> QED BY <1>1, <2>1, <2>2
<1>2. CASE ~a.bare
  <2>1. HeaderLen(a) = 5 /\ 5 - 1 = 4 /\ 5 - 2 = 3
    BY <1>2 DEF HeaderLen
  <2>2. t[4] = Crlf /\ t[5] = Crlf /\ t[3] = [kind |-> a.framing, n |-> Sum(a.sizes)]
    BY <2>1 DEF StreamTold
  <2> QED BY <2>1, <2>2
<1> QED BY <1>1, <1>2

(* What the local buffer begins with in a header.                          *)
LEMMA HeaderAtHand ==
  ASSUME ClientTypes, NEW k \in {2, 4, 6}, InHeader(k)
  PROVE  LET h == HeaderLen(resp)
         IN  /\ k = h - 1 /\ Len(data) >= 1 => data[1] = Crlf
             /\ k # h - 1 =>
                  /\ k + 2 \in {2, 4, 6} /\ k + 2 < h
                  /\ Len(data) >= 2 => data[2] = Crlf
                  /\ Len(data) >= 1 =>
                       \/ k + 2 = h - 1 /\ data[1] = [kind |-> resp.framing, n |-> Total]
                       \/ k + 2 # h - 1 /\ resp.bare /\ data[1] = Token("bare")
<1> DEFINE t == Stream(req, resp)
<1>1. resp \in Answers /\ req \in Nat /\ StreamTold(t, req, resp) /\ Len(data) \in Nat
  BY StreamIs DEF ClientTypes
<1>2. Holds(t, sent, k, data, wire, peer) /\ k < HeaderLen(resp)
  BY DEF InHeader, At
<1> HIDE DEF t
<1>3. (Len(data) >= 1 => data[1] = t[k + 1]) /\ (Len(data) >= 2 => data[2] = t[k + 2])
  BY <1>1, <1>2 DEF Holds
<1> QED BY <1>1, <1>2, <1>3, HeaderLines DEF Total

LEMMA HeaderReceiveStep ==
  ASSUME ResponseInv, HeaderReceive
  PROVE  ResponseInv'
<1>1. ClientTypes /\ InHand /\ pc = "header" /\ ~stale /\ Len(data) \in Nat
  BY DEF ResponseInv, HeaderReceive, ClientTypes
<1>2. Tame => OnHeader
  BY <1>1 DEF ResponseInv, OnPlace
<1>3. UNCHANGED <<request, peer, client, buffer>> /\ ~HasCrlf(data)
  BY DEF HeaderReceive
<1>4. /\ stale' = stale /\ Tame' = Tame /\ req' = req /\ sent' = sent /\ resp' = resp
      /\ Overflows' = Overflows /\ Total' = Total /\ peer' = peer
  BY <1>1, <1>3, SameResponse
<1>5. CASE Len(data) < Chunk
  <2>1. PICK k \in 0..Chunk, r \in {"ok", "conn"} :
          /\ httpc_recv(1, Chunk - Len(data), k, r)
          /\ IF r = "conn" THEN Return(r, <<>>)
             ELSE /\ Go("header", data \o Came(k))
                  /\ UNCHANGED <<count, readLen>>
    BY <1>5 DEF HeaderReceive
  <2>2. /\ k \in Nat /\ k <= Chunk - Len(data) /\ wire' \in Seq(Tokens)
        /\ data \o Came(k) \in Seq(Tokens) /\ Len(data \o Came(k)) = Len(data) + k
        /\ (r = "conn" => peer = "reset")
        /\ (data' = data \o Came(k) => \A j \in Nat : At(j) => At(j)')
    <3>1. 1 \in Nat /\ ClientTypes
      BY <1>1
    <3>2. PICK x \in Int : x = Chunk - Len(data)
      BY <1>1, ClientSizes, SMTT(60)
    <3>3. httpc_recv(1, x, k, r)
      BY <2>1, <3>2
    <3>4. k \in Nat /\ k <= x
      BY <3>1, <3>3, Received, ZenonT(60)
    <3>5. /\ wire' \in Seq(Tokens) /\ data \o Came(k) \in Seq(Tokens)
          /\ Len(data \o Came(k)) = Len(data) + k /\ (r = "conn" => peer = "reset")
          /\ (data' = data \o Came(k) => \A j \in Nat : At(j) => At(j)')
      BY <1>3, <3>1, <3>3, Received, ZenonT(60)
    <3> QED BY <3>2, <3>4, <3>5
  <2>3. CASE r = "conn"
    <3>1. /\ pc' = "done" /\ result' = r /\ delivered' = delivered /\ data' = <<>>
          /\ UNCHANGED <<count, readLen>>
      BY <2>1, <2>3 DEF Return
    <3>2. ClientTypes'
      <4>1. <<>> \in Seq(Tokens)
        OBVIOUS
      <4> QED BY <1>1, <1>3, <2>2, <2>3, <3>1, <4>1
              DEF ClientTypes, ClientPlaces, request, client
    <3>3. Len(data') <= Chunk
      BY <3>1, ClientSizes
    <3>4. ErrorsHaveAReason'
      BY <1>4, <2>2, <2>3 DEF ErrorsHaveAReason
    <3>5. code' = code
      BY <1>3 DEF client
    <3> QED BY <1>1, <1>3, <2>3, <3>1, <3>2, <3>3, <3>4, <3>5, Refused
  <2>4. CASE r = "ok"
    <3>1. /\ pc' = "header" /\ data' = data \o Came(k)
          /\ UNCHANGED <<result, delivered, count, readLen>>
      BY <2>1, <2>4 DEF Go
    <3>2. ClientTypes'
      BY <1>1, <1>3, <2>2, <3>1 DEF ClientTypes, ClientPlaces, request, client
    <3>3. InHand'
      BY <1>1, <2>2, <3>1, ClientSizes DEF InHand, Retrieving
    <3>4. ASSUME Tame PROVE OnPlace'
      <4>1. PICK j \in {2, 4, 6} : InHeader(j)
        BY <1>2, <3>4 DEF OnHeader
      <4>2. At(j)'
        BY <2>2, <3>1, <4>1 DEF InHeader
      <4>3. InHeader(j)'
        BY <1>3, <1>4, <4>1, <4>2 DEF InHeader, Framed, client
      <4>4. delivered' = <<>> /\ code' = req' /\ Chunk >= 2
        BY <1>2, <1>3, <1>4, <3>1, <3>4 DEF OnHeader, client
      <4>5. OnHeader'
        BY <4>3, <4>4 DEF OnHeader
      <4> QED BY <3>1, <4>5 DEF OnPlace, Retrieving
    <3> QED BY <1>1, <1>4, <3>1, <3>2, <3>3, <3>4, GoesOn
  <2> QED BY <2>3, <2>4
<1>6. CASE ~(Len(data) < Chunk)
  <2>1. /\ pc' = "done" /\ result' = "xx" /\ delivered' = delivered /\ data' = <<>>
        /\ UNCHANGED <<count, readLen, wire>>
    BY <1>6 DEF HeaderReceive, Return
  <2>2. ClientTypes'
    <3>1. <<>> \in Seq(Tokens)
      OBVIOUS
    <3> QED BY <1>1, <1>3, <2>1, <3>1 DEF ClientTypes, ClientPlaces, request, client
  <2>3. Len(data') <= Chunk
    BY <2>1, ClientSizes
  <2>4. ~Tame
    <3> SUFFICES ASSUME Tame PROVE FALSE
      OBVIOUS
    <3>1. PICK j \in {2, 4, 6} : InHeader(j)
      BY <1>2 DEF OnHeader
    <3>2. Len(data) >= 2
      BY <1>1, <1>2, <1>6, ClientSizes DEF OnHeader
    <3>3. data[1] = Crlf \/ data[2] = Crlf
      BY <1>1, <3>1, <3>2, HeaderAtHand
    <3>4. 1 \in DOMAIN data /\ 2 \in DOMAIN data
      BY <1>1, <3>2 DEF ClientTypes
    <3> QED BY <1>3, <3>3, <3>4 DEF HasCrlf
  <2>5. ErrorsHaveAReason'
    BY <1>1, <1>4, <2>4 DEF ErrorsHaveAReason, Tame
  <2>6. code' = code
    BY <1>3 DEF client
  <2> QED BY <1>1, <1>3, <2>1, <2>2, <2>3, <2>5, <2>6, Refused
<1> QED BY <1>5, <1>6

LEMMA HeaderEndStep ==
  ASSUME ResponseInv, HeaderEnd
  PROVE  ResponseInv'
<1>1. ClientTypes /\ InHand /\ pc = "header" /\ ~stale /\ Len(data) \in Nat
  BY DEF ResponseInv, HeaderEnd, ClientTypes
<1>2. Tame => OnHeader
  BY <1>1 DEF ResponseInv, OnPlace
<1>3. /\ UNCHANGED <<request, peer, wire, is_chunked, retrieve_len,
                     response_content_len, code, buffer>>
      /\ HasCrlf(data) /\ data[1] = Crlf /\ is_more' = TRUE
      /\ count' = 0 /\ readLen' = retrieve_len /\ data' = Rest(data, 1)
      /\ pc' = Begins(is_chunked, response_content_len, retrieve_len)
      /\ UNCHANGED <<result, delivered>>
  BY DEF HeaderEnd, Go
<1>4. /\ stale' = stale /\ Tame' = Tame /\ req' = req /\ sent' = sent /\ resp' = resp
      /\ Overflows' = Overflows /\ Total' = Total /\ Total \in Nat
      /\ HeaderLen(resp) \in {5, 7} /\ resp \in Answers
  BY <1>1, <1>3, SameResponse
<1>5. pc' \in {"raw", "size", "copy"}
  BY <1>1, <1>3, BeginsIn DEF ClientTypes
<1>6. Len(data) >= 1
  BY <1>1, <1>3 DEF HasCrlf, ClientTypes
<1>7. /\ data' \in Seq(Tokens) /\ Len(data') = Len(data) - 1
      /\ \A j, l \in Nat : At(j) /\ l = j + 1 => At(l)'
  <2>1. 1 \in 0..Len(data)
    BY <1>1, <1>6
  <2> QED BY <1>1, <1>3, <2>1, Dropped
<1>8. ClientTypes'
  <2>1. 0 \in 0..Room - 1
    BY ClientSizes
  <2> QED BY <1>1, <1>3, <1>5, <1>7, <2>1
          DEF ClientTypes, ClientPlaces, Retrieving, request
<1>9. InHand'
  BY <1>1, <1>3, <1>5, <1>6, <1>7, ClientSizes DEF InHand
<1>10. ASSUME Tame PROVE OnPlace'
  <2>1. PICK k \in {2, 4, 6} : InHeader(k)
    BY <1>2, <1>10 DEF OnHeader
  <2>2. k = HeaderLen(resp) - 1
    <3> SUFFICES ASSUME k # HeaderLen(resp) - 1 PROVE FALSE
      OBVIOUS
    <3>1. data[1].kind # "crlf"
      <4>1. \/ data[1] = [kind |-> resp.framing, n |-> Total]
            \/ data[1] = Token("bare")
        BY <1>1, <1>6, <2>1, HeaderAtHand
      <4> QED BY <1>4, <4>1 DEF Token, Answers
    <3>2. Crlf.kind = "crlf"
      BY DEF Crlf, Token
    <3> QED BY <1>3, <3>1, <3>2
  <2>3. /\ Framed /\ (resp.framing = "length" => retrieve_len = Total)
        /\ (resp.framing = "chunked" => retrieve_len = 0)
        /\ At(k)
    BY <2>1, <2>2 DEF InHeader
  <2>4. At(HeaderLen(resp))'
    <3>1. k \in Nat /\ HeaderLen(resp) \in Nat /\ HeaderLen(resp) = k + 1
      BY <1>4, <2>1, <2>2
    <3>2. \A l \in Nat : l = k + 1 => At(l)'
      BY <1>7, <2>3, <3>1
    <3> QED BY <1>4, <3>1, <3>2 DEF At
  <2>5. Answering' /\ delivered' = <<>> /\ Len(delivered') = 0 /\ Given' /\ Piece'
    <3>1. code' = req' /\ delivered' = <<>>
      BY <1>2, <1>3, <1>4, <1>10 DEF OnHeader
    <3>2. Framed'
      BY <1>3, <1>4, <2>3 DEF Framed
    <3> QED BY <1>3, <1>4, <3>1, <3>2 DEF Answering, Given, Piece
  <2>6. CASE resp.framing # "chunked"
    <3>1. ~is_chunked /\ resp.framing \in {"length", "close"}
          /\ response_content_len = IF resp.framing = "length" THEN Total ELSE -1
      BY <1>4, <2>3, <2>6 DEF Framed, Answers, ClientTypes
    <3>2. pc' = IF resp.framing = "close" THEN "raw" ELSE "copy"
      BY <1>1, <1>3, <1>4, <3>1, BeginsIn DEF ClientTypes
    <3>3. At(HeaderLen(resp) + Len(delivered) + count)'
      <4>1. HeaderLen(resp)' + Len(delivered)' + count' = HeaderLen(resp)'
        BY <1>3, <1>4, <2>5
      <4> QED BY <2>4, <4>1 DEF At
    <3>4. resp.framing = "length" => readLen' = Total' - Len(delivered)' - count'
      BY <1>3, <1>4, <2>3, <2>5
    <3>5. count' + Len(data') <= Room
      BY <1>1, <1>3, <1>6, <1>7, ClientSizes DEF InHand
    <3>6. OnBody'
      BY <1>4, <2>5, <3>1, <3>2, <3>3, <3>4, <3>5 DEF OnBody
    <3> QED BY <1>4, <2>6, <3>2, <3>6 DEF OnPlace
  <2>7. CASE resp.framing = "chunked"
    <3>1. pc' = "size"
      BY <1>1, <1>3, <2>3, <2>7, BeginsIn, ZenonT(60) DEF Framed, ClientTypes
    <3>2. InChunk(1)'
      <4>1. Len(resp.sizes) \in Nat /\ Before(resp, 1) = HeaderLen(resp)
            /\ Upto(resp.sizes, 0) = 0 /\ 1 - 1 = 0
        BY <1>4, BeforeIs
      <4>2. Before(resp, 1)' = HeaderLen(resp)'
        BY <1>4, <4>1
      <4>3. At(Before(resp, 1))'
        BY <2>4, <4>2 DEF At
      <4>4. 1 \in 1..Len(resp'.sizes) + 1 /\ count' = Upto(resp'.sizes, 1 - 1)
        BY <1>3, <1>4, <4>1
      <4> QED BY <3>1, <4>3, <4>4 DEF InChunk
    <3>3. 1 \in 1..Len(resp'.sizes) + 1
      BY <3>2 DEF InChunk
    <3>4. OnChunk'
      BY <2>5, <3>1, <3>2, <3>3 DEF OnChunk
    <3> QED BY <1>4, <2>7, <3>1, <3>4 DEF OnPlace
  <2> QED BY <2>6, <2>7
<1>11. pc' # "done"
  BY <1>5
<1> QED BY <1>1, <1>4, <1>8, <1>9, <1>10, <1>11, GoesOn


LEMMA HeaderLineStep ==
  ASSUME ResponseInv, HeaderLine
  PROVE  ResponseInv'
<1>1. ClientTypes /\ InHand /\ pc = "header" /\ ~stale /\ Len(data) \in Nat
  BY DEF ResponseInv, HeaderLine, ClientTypes
<1>2. Tame => OnHeader
  BY <1>1 DEF ResponseInv, OnPlace
<1>3. /\ UNCHANGED <<request, peer, wire, is_more, code, buffer>>
      /\ HasCrlf(data) /\ data[1] # Crlf
  BY DEF HeaderLine
<1>4. /\ stale' = stale /\ Tame' = Tame /\ req' = req /\ sent' = sent /\ resp' = resp
      /\ Overflows' = Overflows /\ Total' = Total /\ Total \in Nat
      /\ HeaderLen(resp) \in {5, 7} /\ resp \in Answers
  BY <1>1, <1>3, SameResponse
<1>5. Len(data) >= 2 /\ Len(data) >= 1
  <2>1. PICK i \in DOMAIN data : data[i] = Crlf
    BY <1>3 DEF HasCrlf
  <2>2. i \in 1..Len(data) /\ i # 1
    BY <1>1, <1>3, <2>1 DEF ClientTypes
  <2> QED BY <1>1, <2>2
<1>6. data[1] \in Tokens /\ data[1].kind \in Kinds /\ data[1].n \in Nat
  <2>1. data[1] \in Tokens
    BY <1>1, <1>5 DEF ClientTypes
  <2> QED BY <2>1 DEF Tokens
<1>7. CASE HasColon(data)
  <2>1. /\ pc' = "header" /\ data' = Rest(data, 2)
        /\ UNCHANGED <<result, delivered, count, readLen>>
    BY <1>7 DEF HeaderLine, Go
  <2>2. data[1].kind \notin {"length", "chunked"} =>
          UNCHANGED <<is_chunked, response_content_len, retrieve_len>>
    BY <1>7 DEF HeaderLine
  <2>3. data[1].kind \in {"length", "chunked"} =>
          /\ is_chunked' = (is_chunked \/ data[1].kind = "chunked")
          /\ response_content_len' = IF data[1].kind = "length" THEN data[1].n ELSE 0
          /\ retrieve_len' = response_content_len'
    BY <1>7 DEF HeaderLine
  <2>4. /\ is_chunked' \in BOOLEAN /\ response_content_len' \in Int
        /\ retrieve_len' \in Nat
    <3>1. CASE data[1].kind \in {"length", "chunked"}
      <4>1. is_chunked' = (is_chunked \/ data[1].kind = "chunked")
        BY <2>3, <3>1
      <4>2. is_chunked' \in BOOLEAN
        BY <4>1, Zenon
      <4>3. response_content_len' \in Nat /\ retrieve_len' = response_content_len'
        BY <1>6, <2>3, <3>1
      <4> QED BY <4>2, <4>3
    <3>2. CASE data[1].kind \notin {"length", "chunked"}
      BY <1>1, <2>2, <3>2 DEF ClientTypes
    <3> QED BY <3>1, <3>2
  <2>5. data' \in Seq(Tokens) /\ Len(data') = Len(data) - 2
        /\ \A j, l \in Nat : At(j) /\ l = j + 2 => At(l)'
    <3>1. 2 \in 0..Len(data)
      BY <1>1, <1>5
    <3> QED BY <1>1, <1>3, <2>1, <3>1, Dropped
  <2>6. ClientTypes'
    BY <1>1, <1>3, <2>1, <2>4, <2>5 DEF ClientTypes, ClientPlaces, request
  <2>7. InHand'
    BY <1>1, <2>1, <2>5, ClientSizes DEF InHand, Retrieving
  <2>8. ASSUME Tame PROVE OnPlace'
    <3>1. PICK k \in {2, 4, 6} : InHeader(k)
      BY <1>2, <2>8 DEF OnHeader
    <3>2. k # HeaderLen(resp) - 1
      BY <1>1, <1>3, <1>5, <3>1, HeaderAtHand
    <3>3. /\ k + 2 \in {2, 4, 6} /\ k + 2 < HeaderLen(resp)
          /\ \/ k + 2 = HeaderLen(resp) - 1
                /\ data[1] = [kind |-> resp.framing, n |-> Total]
             \/ k + 2 # HeaderLen(resp) - 1 /\ data[1] = Token("bare")
      BY <1>1, <1>5, <3>1, <3>2, HeaderAtHand
    <3>4. ~is_chunked /\ response_content_len = -1 /\ At(k)
      BY <3>1, <3>2 DEF InHeader
    <3> DEFINE l == k + 2
    <3>5. At(l)'
      BY <2>5, <3>1, <3>3, <3>4
    <3>6. CASE l = HeaderLen(resp) - 1
      <4>1. data[1].kind = resp.framing /\ data[1].n = Total
        BY <3>3, <3>6
      <4>2. Framed' /\ (resp.framing = "length" => retrieve_len' = Total')
            /\ (resp.framing = "chunked" => retrieve_len' = 0)
        <5>1. CASE resp.framing = "chunked"
          <6>1. /\ is_chunked' = (is_chunked \/ data[1].kind = "chunked")
                /\ retrieve_len' = 0
            BY <2>3, <4>1, <5>1
          <6>2. is_chunked'
            BY <4>1, <5>1, <6>1, Zenon
          <6> QED BY <1>4, <5>1, <6>1, <6>2 DEF Framed
        <5>2. CASE resp.framing = "length"
          <6>1. /\ is_chunked' = (is_chunked \/ data[1].kind = "chunked")
                /\ response_content_len' = Total /\ retrieve_len' = Total
            BY <2>3, <4>1, <5>2
          <6>2. data[1].kind # "chunked"
            BY <4>1, <5>2
          <6>3. ~is_chunked'
            BY <3>4, <6>1, <6>2, Zenon
          <6> QED BY <1>4, <5>2, <6>1, <6>3 DEF Framed
        <5>3. CASE resp.framing = "close"
          <6>1. is_chunked' = is_chunked /\ response_content_len' = -1
            BY <2>2, <3>4, <4>1, <5>3
          <6>2. ~is_chunked'
            BY <3>4, <6>1, Zenon
          <6> QED BY <1>4, <5>3, <6>1, <6>2 DEF Framed
        <5> QED BY <1>4, <5>1, <5>2, <5>3 DEF Answers
      <4> HIDE DEF l
      <4>3. InHeader(l)'
        BY <1>4, <3>3, <3>5, <3>6, <4>2 DEF InHeader, l
      <4> QED
        <5>1. delivered' = <<>> /\ code' = req' /\ Chunk >= 2
          BY <1>2, <1>3, <1>4, <2>1, <2>8 DEF OnHeader
        <5>2. OnHeader'
          BY <3>3, <4>3, <5>1 DEF OnHeader, l
        <5> QED BY <2>1, <5>2 DEF OnPlace, Retrieving
    <3>7. CASE l # HeaderLen(resp) - 1
      <4>1. data[1].kind = "bare"
        BY <3>3, <3>7 DEF Token
      <4>2. ~is_chunked' /\ response_content_len' = -1
        BY <2>2, <3>4, <4>1
      <4> HIDE DEF l
      <4>3. InHeader(l)'
        BY <1>4, <3>3, <3>5, <3>7, <4>2 DEF InHeader, l
      <4> QED
        <5>1. delivered' = <<>> /\ code' = req' /\ Chunk >= 2
          BY <1>2, <1>3, <1>4, <2>1, <2>8 DEF OnHeader
        <5>2. OnHeader'
          BY <3>3, <4>3, <5>1 DEF OnHeader, l
        <5> QED BY <2>1, <5>2 DEF OnPlace, Retrieving
    <3> QED BY <3>6, <3>7
  <2> QED BY <1>1, <1>4, <2>1, <2>6, <2>7, <2>8, GoesOn
<1>8. CASE ~HasColon(data)
  <2>1. /\ pc' = "done" /\ result' = "xx" /\ delivered' = delivered /\ data' = <<>>
        /\ UNCHANGED <<count, readLen, is_chunked, response_content_len, retrieve_len>>
    BY <1>8 DEF HeaderLine, Return
  <2>2. ClientTypes'
    <3>1. <<>> \in Seq(Tokens)
      OBVIOUS
    <3> QED BY <1>1, <1>3, <2>1, <3>1 DEF ClientTypes, ClientPlaces, request
  <2>3. Len(data') <= Chunk
    BY <2>1, ClientSizes
  <2>4. Tame => resp.bare
    <3> SUFFICES ASSUME Tame PROVE resp.bare
      OBVIOUS
    <3>1. PICK k \in {2, 4, 6} : InHeader(k)
      BY <1>2 DEF OnHeader
    <3>2. k # HeaderLen(resp) - 1
      BY <1>1, <1>3, <1>5, <3>1, HeaderAtHand
    <3>3. data[1] = [kind |-> resp.framing, n |-> Total] \/ resp.bare
      BY <1>1, <1>5, <3>1, <3>2, HeaderAtHand
    <3>4. data[1].kind # resp.framing
      <4>1. 1 \in DOMAIN data
        BY <1>1, <1>5 DEF ClientTypes
      <4>2. data[1].kind \notin {"length", "chunked", "close"}
        BY <1>8, <4>1 DEF HasColon, Lines
      <4> QED BY <1>4, <4>2 DEF Answers
    <3> QED BY <3>3, <3>4
  <2>5. ErrorsHaveAReason'
    BY <1>1, <1>4, <2>1, <2>4 DEF ErrorsHaveAReason, Tame
  <2>6. code' = code
    BY <1>3
  <2> QED BY <1>1, <1>3, <2>1, <2>2, <2>3, <2>5, <2>6, Refused
<1> QED BY <1>7, <1>8


(* What the local buffer holds of a body.                                  *)
LEMMA BodyAtHand ==
  ASSUME ClientTypes, resp.framing # "chunked", NEW e \in Nat,
         NEW k \in Nat, k = HeaderLen(resp) + e, At(k)
  PROVE  /\ e + Len(data) <= Total /\ e + Len(data) + Len(wire) <= Total
         /\ \A i \in 1..Len(data) : data[i] = Byte(req, e + i)
         /\ ~Cut /\ peer # "reset" => e + Len(data) + Len(wire) = Total
<1> DEFINE t == Stream(req, resp)
           h == HeaderLen(resp)
<1>1. /\ StreamTold(t, req, resp) /\ Total \in Nat /\ h \in {5, 7}
      /\ data \in Seq(Tokens) /\ wire \in Seq(Tokens)
      /\ sent \in Nat /\ sent <= Len(t) /\ Len(t) \in Nat
      /\ resp \in Answers /\ req \in Nat
  <2>1. req \in Nat /\ resp \in Answers
    BY DEF ClientTypes
  <2>2. StreamTold(t, req, resp)
    BY <2>1, StreamIs
  <2>3. Len(t) \in Nat
    BY <2>2 DEF StreamTold
  <2> QED BY <2>1, <2>2, <2>3, SizesAre DEF ClientTypes, Total, HeaderLen
<1>2. Holds(t, sent, k, data, wire, peer)
  BY DEF At
<1>3. Len(t) = h + Total /\ \A i \in 1..Total : t[h + i] = Byte(req, i)
  BY <1>1 DEF StreamTold, Total
<1>4. ~Cut => sent = Len(t)
  BY <1>1 DEF Cut
<1> HIDE DEF t, h
<1>5. k = h + e /\ Len(data) \in Nat /\ Len(wire) \in Nat
  BY <1>1 DEF h
<1>6. e + Len(data) + Len(wire) <= Total
  BY <1>1, <1>2, <1>3, <1>5, SMTT(60) DEF Holds
<1>7. ASSUME NEW i \in 1..Len(data) PROVE data[i] = Byte(req, e + i)
  <2>1. data[i] = t[k + i]
    BY <1>2 DEF Holds
  <2>2. e + i \in 1..Total /\ k + i = h + (e + i)
    BY <1>1, <1>5, <1>6, SMTT(60)
  <2> QED BY <1>3, <2>1, <2>2
<1>8. ASSUME ~Cut, peer # "reset" PROVE e + Len(data) + Len(wire) = Total
  <2>1. k + Len(data) + Len(wire) = h + Total
    BY <1>2, <1>3, <1>4, <1>8 DEF Holds
  <2> QED BY <1>1, <1>5, <2>1, SMTT(60)
<1>9. e + Len(data) <= Total
  BY <1>1, <1>5, <1>6
<1> QED BY <1>6, <1>7, <1>8, <1>9

(* The piece with n more tokens of the local buffer goes on.               *)
LEMMA PieceOn ==
  ASSUME ClientTypes, Piece, count = 0 \/ Len(buffer) = count, NEW n \in 0..Len(data),
         \A i \in 1..n : data[i] = Byte(req, Len(delivered) + count + i)
  PROVE  \A i \in 1..count + n : Copied(n)[i] = Byte(req, Len(delivered) + i)
<1>1. /\ \A i \in 1..count : Copied(n)[i] = buffer[i]
      /\ \A i \in 1..n : Copied(n)[count + i] = data[i]
  BY CopiedIs
<1>2. count \in Nat /\ Len(delivered) \in Nat /\ Len(data) \in Nat
  BY ClientSizes DEF ClientTypes
<1> SUFFICES ASSUME NEW i \in 1..count + n
             PROVE  Copied(n)[i] = Byte(req, Len(delivered) + i)
  OBVIOUS
<1>3. CASE i <= count
  BY <1>1, <1>2, <1>3 DEF Piece
<1>4. CASE ~(i <= count)
  <2> DEFINE l == i - count
  <2>1. l \in 1..n /\ i = count + l /\ Len(delivered) + count + l = Len(delivered) + i
    BY <1>2, <1>4
  <2> HIDE DEF l
  <2> QED BY <1>1, <2>1
<1> QED BY <1>3, <1>4

LEMMA RawCopyStep ==
  ASSUME ResponseInv, RawCopy
  PROVE  ResponseInv'
<1>1. /\ ClientTypes /\ InHand /\ pc = "raw" /\ (count = 0 \/ Len(buffer) = count)
      /\ Len(data) \in Nat /\ Len(delivered) \in Nat /\ count \in Nat /\ count < Room
      /\ Room \in Nat
  <2>1. ClientTypes /\ InHand /\ pc = "raw"
    BY DEF ResponseInv, RawCopy
  <2> QED BY <2>1, ClientSizes DEF ClientTypes, InHand, Retrieving
<1>2. UNCHANGED <<request, peer, wire, client>> /\ data' = <<>>
  BY DEF RawCopy, Go, Return
<1>3. /\ stale' = stale /\ Tame' = Tame /\ req' = req /\ sent' = sent /\ resp' = resp
      /\ Overflows' = Overflows /\ Total' = Total /\ Total \in Nat
      /\ HeaderLen(resp) \in {5, 7} /\ resp \in Answers
  BY <1>1, <1>2, SameResponse
<1>4. Len(data) \in 0..Len(data) /\ Len(<<>>) = 0 /\ 0 <= Chunk /\ <<>> \in Seq(Tokens)
  BY <1>1, ClientSizes
<1>5. \A j, l \in Nat : At(j) /\ l = j + Len(data) => At(l)'
  BY <1>1, <1>2, DroppedAll
<1>6. ASSUME Tame
      PROVE  /\ OnBody /\ resp.framing = "close"
             /\ \A n \in 0..Len(data) : \A i \in 1..count + n :
                  Copied(n)[i] = Byte(req, Len(delivered) + i)
             /\ Len(delivered) + count + Len(data) <= Total
  <2>1. resp.framing # "chunked"
    BY <1>1, <1>6 DEF ResponseInv, OnPlace, OnChunk, Retrieving
  <2>2. OnBody
    BY <1>1, <1>6, <2>1 DEF ResponseInv, OnPlace, Retrieving
  <2>3. resp.framing = "close"
    BY <1>1, <2>2 DEF OnBody
  <2> DEFINE e == Len(delivered) + count
             k == HeaderLen(resp) + Len(delivered) + count
  <2>4. e \in Nat /\ k \in Nat /\ k = HeaderLen(resp) + e
    BY <1>1, <1>3
  <2>5. At(k)
    BY <2>2 DEF OnBody
  <2> HIDE DEF e, k
  <2>6. e + Len(data) <= Total /\ \A i \in 1..Len(data) : data[i] = Byte(req, e + i)
    BY <1>1, <2>1, <2>4, <2>5, BodyAtHand
  <2>7. \A n \in 0..Len(data) : \A i \in 1..count + n :
          Copied(n)[i] = Byte(req, Len(delivered) + i)
    <3> SUFFICES ASSUME NEW n \in 0..Len(data)
                 PROVE  \A i \in 1..count + n : Copied(n)[i] = Byte(req, Len(delivered) + i)
      OBVIOUS
    <3>1. \A i \in 1..n : data[i] = Byte(req, Len(delivered) + count + i)
      BY <1>1, <2>6 DEF e
    <3> QED BY <1>1, <2>2, <3>1, PieceOn DEF OnBody
  <2> QED BY <2>2, <2>3, <2>6, <2>7 DEF e
<1>7. CASE count + Len(data) < Room
  <2>1. /\ buffer' = Copied(Len(data)) /\ count' = count + Len(data) /\ pc' = "wait"
        /\ UNCHANGED <<readLen, result, delivered>>
    BY <1>7 DEF RawCopy, Copy, Go
  <2>2. buffer' \in Seq(Tokens) /\ Len(buffer') = count'
    BY <1>1, <1>4, <2>1, CopiedIs
  <2>3. count' \in 0..Room - 1
    BY <1>1, <1>7, <2>1
  <2>4. ClientTypes'
    BY <1>1, <1>2, <1>4, <2>1, <2>2, <2>3
       DEF ClientTypes, ClientPlaces, Retrieving, request, client
  <2>5. InHand'
    BY <1>2, <1>4, <2>1, <2>2 DEF InHand
  <2>6. ASSUME Tame PROVE OnPlace'
    <3>1. Piece'
      BY <1>3, <1>4, <1>6, <2>1, <2>6 DEF Piece
    <3>2. Answering' /\ Given'
      BY <1>2, <1>3, <1>6, <2>1, <2>6 DEF OnBody, Answering, Framed, Given, client
    <3>3. At(HeaderLen(resp) + Len(delivered) + count)'
      <4>1. PICK j \in Nat : j = HeaderLen(resp) + Len(delivered) + count
        BY <1>1, <1>3
      <4>2. At(j)
        BY <1>6, <2>6, <4>1 DEF OnBody
      <4>3. PICK l \in Nat : l = j + Len(data)
        BY <1>1
      <4>4. At(l)'
        BY <1>5, <4>2, <4>3
      <4>5. HeaderLen(resp)' + Len(delivered)' + count' = l
        BY <1>1, <1>3, <2>1, <4>1, <4>3, SMTT(60)
      <4> QED BY <4>4, <4>5 DEF At
    <3>4. count' + Len(data') <= Room
      BY <1>1, <1>2, <1>4, <1>7, <2>1
    <3>5. OnBody'
      BY <1>3, <1>6, <2>1, <2>6, <3>1, <3>2, <3>3, <3>4 DEF OnBody
    <3> QED BY <1>3, <1>6, <2>1, <2>6, <3>5 DEF OnPlace
  <2>7. stale' => (code' < req' /\ pc' \notin {"first", "status", "header"})
    BY <1>2, <1>3, <2>1 DEF ResponseInv, client
  <2> QED BY <1>3, <2>1, <2>4, <2>5, <2>6, <2>7, GoesOn
<1>8. CASE ~(count + Len(data) < Room)
  <2> DEFINE n == Room - count
  <2>1. n \in 0..Len(data) /\ count + n = Room
    BY <1>1, <1>8
  <2>2. /\ buffer' = Copied(n) /\ pc' = "done" /\ result' = "more"
        /\ delivered' = delivered \o buffer' /\ UNCHANGED <<count, readLen>>
    BY <1>8, SMTT(30) DEF RawCopy, Return
  <2> HIDE DEF n
  <2>3. buffer' \in Seq(Tokens) /\ Len(buffer') = Room
    BY <1>1, <2>1, <2>2, CopiedIs
  <2>4. delivered' \in Seq(Tokens)
    BY <1>1, <2>2, <2>3 DEF ClientTypes
  <2>5. ClientTypes'
    BY <1>1, <1>2, <1>4, <2>2, <2>3, <2>4 DEF ClientTypes, ClientPlaces, request, client
  <2>6. InHand'
    BY <1>2, <1>4, <2>2 DEF InHand, Retrieving
  <2>7. ASSUME Tame PROVE OnPlace'
    <3>1. n = Len(data) /\ Len(delivered) + Room <= Total
      BY <1>1, <1>3, <1>6, <2>1, <2>7, SMTT(30) DEF OnBody
    <3>2. \A i \in 1..Len(buffer') : buffer'[i] = Byte(req, Len(delivered) + i)
      BY <1>6, <2>1, <2>2, <2>3, <2>7
    <3>3. Given' /\ Len(delivered') = Len(delivered) + Room
      <4>1. Given
        BY <1>6, <2>7 DEF OnBody
      <4>2. Len(delivered) + Len(buffer') <= Total
        BY <2>3, <3>1
      <4> QED BY <1>1, <1>2, <2>2, <2>3, <3>2, <4>1, <4>2, GivenOn
    <3>4. Answering'
      BY <1>2, <1>3, <1>6, <2>7 DEF OnBody, Answering, Framed, client
    <3>5. At(HeaderLen(resp) + Len(delivered))'
      <4>1. PICK j \in Nat : j = HeaderLen(resp) + Len(delivered) + count
        BY <1>1, <1>3
      <4>2. At(j)
        BY <1>6, <2>7, <4>1 DEF OnBody
      <4>3. PICK l \in Nat : l = j + Len(data)
        BY <1>1
      <4>4. At(l)'
        BY <1>5, <4>2, <4>3
      <4>5. HeaderLen(resp)' + Len(delivered)' = l
        <5>1. HeaderLen(resp)' = HeaderLen(resp) /\ HeaderLen(resp) \in Nat
          BY <1>3
        <5>2. Len(delivered)' = Len(delivered) + count + Len(data)
          BY <1>1, <2>1, <3>1, <3>3
        <5> QED BY ONLY <1>1, <4>1, <4>3, <5>1, <5>2, SMTT(60)
      <4> QED BY <4>4, <4>5 DEF At
    <3>6. OnContinue'
      BY <1>3, <1>6, <2>7, <3>3, <3>4, <3>5 DEF OnContinue
    <3> QED BY <2>2, <2>3, <3>3, <3>6 DEF OnPlace, OnDone, Retrieving
  <2>8. OkMeansWhole' /\ ErrorsHaveAReason'
    BY <2>2 DEF OkMeansWhole, ErrorsHaveAReason
  <2>9. stale' => (code' < req' /\ pc' \notin {"first", "status", "header"})
    BY <1>2, <1>3, <2>2 DEF ResponseInv, client
  <2> QED BY <1>3, <2>5, <2>6, <2>7, <2>8, <2>9 DEF ResponseInv
<1> QED BY <1>7, <1>8


LEMMA ReceivedFirst ==
  ASSUME ClientTypes, data = <<>>, UNCHANGED <<request, peer>>,
         NEW x \in Int, NEW k \in 0..Chunk, NEW r \in {"ok", "conn"}, httpc_recv(1, x, k, r)
  PROVE  /\ k <= x
         /\ wire' \in Seq(Tokens) /\ Came(k) \in Seq(Tokens) /\ Len(Came(k)) = k
         /\ (r = "conn" => peer = "reset")
         /\ (r = "ok" /\ k = 0 => peer = "closed" /\ wire = <<>>)
         /\ (data' = Came(k) => \A j \in Nat : At(j) => At(j)')
<1>1. 1 \in Nat /\ k \in Nat
  BY ClientSizes
<1>2. data \o Came(k) = Came(k) /\ k <= x
  BY <1>1, Received
<1>3. /\ wire' \in Seq(Tokens) /\ Came(k) \in Seq(Tokens) /\ Len(Came(k)) = k
      /\ (r = "conn" => peer = "reset")
      /\ (r = "ok" /\ k < 1 => peer = "closed" /\ (k > 0 \/ wire = <<>>))
      /\ (data' = Came(k) => \A j \in Nat : At(j) => At(j)')
  BY <1>1, <1>2, Received
<1> QED BY <1>1, <1>2, <1>3

LEMMA RawReceiveStep ==
  ASSUME ResponseInv, RawReceive
  PROVE  ResponseInv'
<1>1. /\ ClientTypes /\ InHand /\ pc = "wait" /\ Len(buffer) = count /\ data = <<>>
      /\ Len(data) = 0 /\ Len(delivered) \in Nat /\ count \in Nat /\ count < Room
      /\ Room \in Nat /\ Chunk \in Nat
  <2>1. ClientTypes /\ InHand /\ pc = "wait"
    BY DEF ResponseInv, RawReceive
  <2> QED BY <2>1, ClientSizes DEF ClientTypes, InHand
<1>2. UNCHANGED <<request, peer, is_chunked, retrieve_len, response_content_len, code, buffer>>
  BY DEF RawReceive
<1>3. /\ stale' = stale /\ Tame' = Tame /\ req' = req /\ sent' = sent /\ resp' = resp
      /\ Overflows' = Overflows /\ Total' = Total /\ Cut' = Cut /\ Total \in Nat
      /\ HeaderLen(resp) \in {5, 7} /\ resp \in Answers /\ req \in Nat
  BY <1>1, <1>2, SameResponse
<1>4. PICK k \in 0..Chunk, r \in {"ok", "conn"} :
        /\ httpc_recv(1, Min({Chunk, Room - count}), k, r)
        /\ IF r = "conn" THEN Return(r, <<>>) /\ UNCHANGED is_more
           ELSE IF k = 0 THEN is_more' = FALSE /\ Return("ok", buffer)
           ELSE /\ Go("raw", Came(k)) /\ UNCHANGED <<is_more, count, readLen>>
  BY DEF RawReceive
<1>5. /\ k \in Nat /\ k <= Chunk /\ k <= Room - count
      /\ wire' \in Seq(Tokens) /\ Came(k) \in Seq(Tokens) /\ Len(Came(k)) = k
      /\ (r = "conn" => peer = "reset")
      /\ (r = "ok" /\ k = 0 => peer = "closed" /\ wire = <<>>)
      /\ (data' = Came(k) => \A j \in Nat : At(j) => At(j)')
  <2>1. /\ Min({Chunk, Room - count}) \in Int
        /\ Min({Chunk, Room - count}) <= Chunk /\ Min({Chunk, Room - count}) <= Room - count
    BY <1>1, Least2
  <2>2. PICK x \in Int : x = Min({Chunk, Room - count}) /\ x <= Room - count
    BY <2>1
  <2>3. httpc_recv(1, x, k, r)
    BY <1>4, <2>2
  <2>4. ClientTypes /\ data = <<>>
    BY <1>1
  <2>5. /\ k <= x
        /\ wire' \in Seq(Tokens) /\ Came(k) \in Seq(Tokens) /\ Len(Came(k)) = k
        /\ (r = "conn" => peer = "reset")
        /\ (r = "ok" /\ k = 0 => peer = "closed" /\ wire = <<>>)
        /\ (data' = Came(k) => \A j \in Nat : At(j) => At(j)')
    BY <1>2, <2>3, <2>4, ReceivedFirst
  <2>6. k \in Nat /\ k <= Chunk /\ k <= Room - count
    BY <1>1, <2>2, <2>5
  <2> QED BY <2>5, <2>6
<1>6. Len(<<>>) = 0 /\ 0 <= Chunk /\ <<>> \in Seq(Tokens)
  BY <1>1
<1>7. ASSUME Tame PROVE OnBody /\ resp.framing = "close"
  <2>1. resp.framing # "chunked"
    BY <1>1, <1>7 DEF ResponseInv, OnPlace, OnChunk, Retrieving
  <2> QED BY <1>1, <1>7, <2>1 DEF ResponseInv, OnPlace, Retrieving, OnBody
<1>8. CASE r = "conn"
  <2>1. /\ pc' = "done" /\ result' = r /\ delivered' = delivered /\ data' = <<>>
        /\ UNCHANGED <<count, readLen, is_more>>
    BY <1>4, <1>8 DEF Return
  <2>2. ClientTypes'
    BY <1>1, <1>2, <1>5, <1>6, <1>8, <2>1 DEF ClientTypes, ClientPlaces, request
  <2>3. Len(data') <= Chunk
    BY <1>6, <2>1
  <2>4. ErrorsHaveAReason'
    BY <1>2, <1>5, <1>8 DEF ErrorsHaveAReason
  <2>5. code' = code
    BY <1>2
  <2> QED BY <1>1, <1>2, <1>8, <2>1, <2>2, <2>3, <2>4, <2>5, Refused
<1>9. CASE r = "ok" /\ k = 0
  <2>1. /\ pc' = "done" /\ result' = "ok" /\ delivered' = delivered \o buffer
        /\ data' = <<>> /\ is_more' = FALSE /\ UNCHANGED <<count, readLen>>
    BY <1>4, <1>9 DEF Return
  <2>2. ClientTypes'
    <3>1. delivered' \in Seq(Tokens)
      BY <1>1, <2>1 DEF ClientTypes
    <3> QED BY <1>1, <1>2, <1>5, <1>6, <2>1, <3>1 DEF ClientTypes, ClientPlaces, request
  <2>3. InHand'
    BY <1>6, <2>1 DEF InHand, Retrieving
  <2>4. ASSUME Tame
        PROVE  Given' /\ Len(delivered') = Len(delivered) + count /\ (Cut \/ Len(delivered') = Total)
    <3>1. PICK e \in Nat : e = Len(delivered) + count
      BY <1>1
    <3>2. PICK j \in Nat : j = HeaderLen(resp) + e
      BY <1>3, <3>1
    <3>3. HeaderLen(resp) + Len(delivered) + count = j
      BY <1>1, <1>3, <3>1, <3>2
    <3>4. At(j) /\ Given /\ Piece
      BY <1>7, <2>4, <3>3 DEF OnBody
    <3>5. /\ e + Len(data) <= Total
          /\ ~Cut /\ peer # "reset" => e + Len(data) + Len(wire) = Total
      BY <1>1, <1>7, <2>4, <3>2, <3>4, BodyAtHand
    <3>6. e <= Total /\ (Cut \/ e = Total)
      <4>1. Len(wire) = 0 /\ peer # "reset"
        BY <1>5, <1>9
      <4> QED BY <1>1, <3>5, <4>1
    <3>7. buffer \in Seq(Tokens) /\ Len(delivered) + Len(buffer) <= Total
          /\ \A i \in 1..Len(buffer) : buffer[i] = Byte(req, Len(delivered) + i)
      BY <1>1, <3>1, <3>4, <3>6 DEF ClientTypes, Piece
    <3>8. Given' /\ Len(delivered') = Len(delivered) + Len(buffer)
      BY <1>1, <1>2, <2>1, <3>4, <3>7, GivenOn
    <3> QED BY <1>1, <3>1, <3>6, <3>8
  <2>5. Tame' => OnPlace'
    BY <1>3, <2>1, <2>4 DEF OnPlace, OnDone, Retrieving
  <2>6. OkMeansWhole'
    <3>1. ASSUME Tame, ~Cut PROVE delivered' = Body(req, resp) /\ code = req
      <4>1. delivered' \in Seq(Tokens)
        BY <2>2 DEF ClientTypes
      <4>2. Len(delivered') = Sum(resp.sizes)
            /\ \A i \in 1..Len(delivered') : delivered'[i] = Byte(req, i)
        BY <1>3, <2>4, <3>1 DEF Given, Total
      <4>3. delivered' = Body(req, resp)
        BY <1>3, <4>1, <4>2, WholeBody
      <4> QED BY <1>7, <3>1, <4>3 DEF OnBody, Answering
    <3>2. Body(req, resp)' = Body(req, resp) /\ code' = code
      BY <1>2, <1>3
    <3> QED BY <1>3, <1>7, <3>1, <3>2 DEF OkMeansWhole, Tame
  <2>7. ErrorsHaveAReason'
    BY <2>1 DEF ErrorsHaveAReason
  <2>8. stale' => (code' < req' /\ pc' \notin {"first", "status", "header"})
    BY <1>2, <1>3, <2>1 DEF ResponseInv
  <2> QED BY <2>2, <2>3, <2>5, <2>6, <2>7, <2>8 DEF ResponseInv
<1>10. CASE r = "ok" /\ k # 0
  <2>1. /\ pc' = "raw" /\ data' = Came(k)
        /\ UNCHANGED <<is_more, count, readLen, result, delivered>>
    BY <1>4, <1>10 DEF Go
  <2>2. ClientTypes'
    BY <1>1, <1>2, <1>5, <2>1 DEF ClientTypes, ClientPlaces, Retrieving, request
  <2>3. InHand'
    BY <1>1, <1>2, <1>5, <2>1 DEF InHand, Retrieving
  <2>4. ASSUME Tame PROVE OnPlace'
    <3>1. PICK j \in Nat : j = HeaderLen(resp) + Len(delivered) + count
      BY <1>1, <1>3
    <3>2. At(j)'
      BY <1>5, <1>7, <2>1, <2>4, <3>1 DEF OnBody
    <3>3. HeaderLen(resp)' + Len(delivered)' + count' = j
      BY <1>3, <2>1, <3>1
    <3>4. At(HeaderLen(resp) + Len(delivered) + count)'
      BY <3>2, <3>3 DEF At
    <3>5. Answering' /\ Given' /\ Piece'
      BY <1>2, <1>3, <1>7, <2>1, <2>4 DEF OnBody, Answering, Framed, Given, Piece
    <3>6. count' + Len(data') <= Room
      BY <1>1, <1>5, <2>1
    <3>7. OnBody'
      BY <1>3, <1>7, <2>1, <2>4, <3>4, <3>5, <3>6 DEF OnBody
    <3> QED BY <1>3, <1>7, <2>1, <2>4, <3>7 DEF OnPlace
  <2>5. stale' => (code' < req' /\ pc' \notin {"first", "status", "header"})
    BY <1>2, <1>3, <2>1 DEF ResponseInv
  <2> QED BY <1>3, <2>1, <2>2, <2>3, <2>4, <2>5, GoesOn
<1> QED BY <1>8, <1>9, <1>10


LEMMA SizePollStep ==
  ASSUME ResponseInv, SizePoll
  PROVE  ResponseInv'
<1>1. ClientTypes /\ InHand /\ pc = "size" /\ Len(data) \in Nat
  BY DEF ResponseInv, SizePoll, ClientTypes
<1>2. PICK k \in 0..Chunk :
        httpc_recv(0, Chunk - Len(data), k, "ok") /\ Go("size", data \o Came(k))
  BY DEF SizePoll
<1>3. /\ UNCHANGED <<request, peer, client, buffer, count, readLen>>
      /\ UNCHANGED <<result, delivered>> /\ pc' = "size" /\ data' = data \o Came(k)
  BY <1>2 DEF SizePoll, Go
<1>4. /\ stale' = stale /\ Tame' = Tame /\ req' = req /\ resp' = resp /\ Total' = Total
  BY <1>1, <1>3, SameResponse
<1>5. /\ k \in Nat /\ k <= Chunk - Len(data) /\ wire' \in Seq(Tokens)
      /\ data' \in Seq(Tokens) /\ Len(data') = Len(data) + k
      /\ \A j \in Nat : At(j) => At(j)'
  <2>1. 0 \in Nat /\ Chunk - Len(data) \in Int
    BY <1>1, ClientSizes
  <2> QED BY <1>1, <1>2, <1>3, <2>1, Received
<1>6. ClientTypes'
  BY <1>1, <1>3, <1>5 DEF ClientTypes, ClientPlaces, Retrieving, request, client
<1>7. InHand'
  BY <1>1, <1>3, <1>5, ClientSizes DEF InHand, Retrieving
<1>8. ASSUME Tame PROVE OnPlace'
  <2>1. resp.framing = "chunked" /\ OnChunk
    BY <1>1, <1>8 DEF ResponseInv, OnPlace, OnBody, Retrieving
  <2>2. PICK c \in 1..Len(resp.sizes) + 1 : InChunk(c)
    BY <2>1 DEF OnChunk
  <2>3. PICK j \in Nat : j = Before(resp, c)
    BY <1>1, BeforeIs DEF ClientTypes
  <2>4. At(j)'
    BY <1>1, <1>5, <2>2, <2>3 DEF InChunk
  <2>5. Before(resp, c)' = j
    BY <1>4, <2>3
  <2>6. At(Before(resp, c))'
    BY <2>4, <2>5 DEF At
  <2>7. InChunk(c)'
    BY <1>1, <1>3, <1>4, <2>2, <2>6 DEF InChunk
  <2>8. Answering' /\ delivered' = <<>> /\ Piece'
    BY <1>3, <1>4, <2>1 DEF OnChunk, Answering, Framed, Piece, client
  <2>9. OnChunk'
    BY <1>3, <1>4, <2>2, <2>7, <2>8 DEF OnChunk
  <2> QED BY <1>3, <1>4, <2>1, <2>9 DEF OnPlace, Retrieving
<1>9. stale' => (code' < req' /\ pc' \notin {"first", "status", "header"})
  BY <1>3, <1>4 DEF ResponseInv, client
<1> QED BY <1>3, <1>4, <1>6, <1>7, <1>8, <1>9, GoesOn

(* The line with a size, seen once something follows it.                   *)
LEMMA SizeAtHand ==
  ASSUME ClientTypes, SizeAt(data) # {}
  PROVE  /\ Len(data) \in Nat /\ Len(data) >= 2
         /\ Min(SizeAt(data)) \in 1..Len(data) - 1
         /\ data[Min(SizeAt(data))] = Crlf
         /\ \A i \in 1..Len(data) - 1 : data[i] = Crlf => Min(SizeAt(data)) <= i
         /\ \A n \in Sizes(data) : n = -1 \/ n \in Nat
<1>1. data \in Seq(Tokens) /\ Len(data) \in Nat
  BY DEF ClientTypes
<1> DEFINE Q == SizeAt(data)
<1>2. Q \in SUBSET Nat /\ Q # {} /\ \A i \in Q : i \in 1..Len(data) - 1 /\ data[i] = Crlf
  BY <1>1 DEF SizeAt
<1>3. \A i \in 1..Len(data) - 1 : data[i] = Crlf => i \in Q
  BY DEF SizeAt
<1> HIDE DEF Q
<1>4. \E n \in Q : \A k \in Q : n <= k
  BY <1>2, LeastNumber
<1>5. Min(Q) \in Q /\ \A k \in Q : Min(Q) <= k
  BY <1>4 DEF Min
<1>6. Len(data) >= 2
  <2>1. PICK i \in Q : i \in 1..Len(data) - 1
    BY <1>2
  <2>2. i \in Int /\ 1 <= i /\ i <= Len(data) - 1
    BY <2>1
  <2> QED BY <1>1, <2>2
<1>7. \A n \in Sizes(data) : n = -1 \/ n \in Nat
  <2>1. data[1] \in Tokens
    BY <1>1, <1>6
  <2>2. data[1].n \in Nat
    BY <2>1 DEF Tokens
  <2> QED BY <2>2, ClientSizes DEF Sizes
<1> QED BY <1>1, <1>2, <1>3, <1>5, <1>6, <1>7 DEF Q

(* Before the size of chunk c, it is that size which is read.              *)
LEMMA SizeIsNext ==
  ASSUME ClientTypes, SizeAt(data) # {}, resp.framing = "chunked",
         NEW c \in 1..Len(resp.sizes) + 1, At(Before(resp, c))
  PROVE  /\ Min(SizeAt(data)) = 2 /\ Len(data) >= 3
         /\ Sizes(data) = {IF c <= Len(resp.sizes) THEN resp.sizes[c] ELSE 0}
<1> DEFINE t == Stream(req, resp)
           m == Min(SizeAt(data))
           s == IF c <= Len(resp.sizes) THEN resp.sizes[c] ELSE 0
<1>1. resp \in Answers /\ req \in Nat /\ StreamTold(t, req, resp)
  BY StreamIs DEF ClientTypes
<1>2. /\ Len(data) \in Nat /\ Len(data) >= 2 /\ m \in 1..Len(data) - 1 /\ data[m] = Crlf
      /\ \A i \in 1..Len(data) - 1 : data[i] = Crlf => m <= i
  BY SizeAtHand
<1>3. Len(resp.sizes) \in Nat
  BY <1>1, BeforeIs
<1>4. PICK k : k = Before(resp, c)
  OBVIOUS
<1>5. t[k + 1] = Size(s) /\ t[k + 2] = Crlf
  <2>1. CASE c <= Len(resp.sizes)
    <3>1. c \in 1..Len(resp.sizes)
      BY <1>3, <2>1
    <3> QED BY <1>1, <1>4, <2>1, <3>1 DEF StreamTold
  <2>2. CASE ~(c <= Len(resp.sizes))
    <3>1. c = Len(resp.sizes) + 1
      BY <1>3, <2>2
    <3> QED BY <1>1, <1>4, <2>2, <3>1 DEF StreamTold
  <2> QED BY <2>1, <2>2
<1>6. \A i \in 1..Len(data) : data[i] = t[k + i]
  BY <1>4 DEF At, Holds
<1> HIDE DEF t, m, s
<1>7. data[1] = Size(s) /\ data[2] = Crlf
  BY <1>2, <1>5, <1>6
<1>8. data[1].kind = "size" /\ data[1].n = s /\ data[1] # Crlf
  BY <1>7 DEF Size, Crlf, Token
<1>9. m # 1
  BY <1>2, <1>8
<1>10. Len(data) >= 3
  BY <1>2, <1>9
<1>11. m = 2
  BY <1>2, <1>7, <1>9, <1>10
<1> QED BY <1>8, <1>10, <1>11 DEF Sizes, m, s


LEMMA SizeReadStep ==
  ASSUME ResponseInv, SizeRead
  PROVE  ResponseInv'
<1>1. /\ ClientTypes /\ InHand /\ pc = "size" /\ Len(data) \in Nat /\ SizeAt(data) # {}
      /\ (count = 0 \/ Len(buffer) = count) /\ count \in Nat
  <2>1. ClientTypes /\ InHand /\ pc = "size" /\ SizeAt(data) # {}
    BY DEF ResponseInv, SizeRead
  <2> QED BY <2>1, ClientSizes DEF ClientTypes, InHand, Retrieving
<1>2. PICK n \in Sizes(data) :
        /\ retrieve_len' = IF n = -1 THEN 0 ELSE n
        /\ response_content_len' = response_content_len + retrieve_len'
        /\ is_more' = (n # 0)
        /\ IF n = -1 THEN Return("prtcl", <<>>)
           ELSE IF n = 0 THEN Return("ok", buffer)
           ELSE /\ readLen' = n
                /\ Go("copy", Rest(data, Min(SizeAt(data))))
                /\ UNCHANGED count
  BY DEF SizeRead
<1>3. UNCHANGED <<request, peer, wire, is_chunked, code, buffer>>
  BY DEF SizeRead
<1>4. /\ stale' = stale /\ Tame' = Tame /\ req' = req /\ resp' = resp /\ sent' = sent
      /\ Overflows' = Overflows /\ Total' = Total /\ Total \in Nat
      /\ resp \in Answers /\ req \in Nat
  BY <1>1, <1>3, SameResponse
<1>5. /\ Min(SizeAt(data)) \in 1..Len(data) - 1 /\ Min(SizeAt(data)) \in 0..Len(data)
      /\ n = -1 \/ n \in Nat
  BY <1>1, SizeAtHand
<1>6. Len(<<>>) = 0 /\ 0 <= Chunk /\ <<>> \in Seq(Tokens)
  BY ClientSizes
<1>7. ASSUME Tame
      PROVE  /\ resp.framing = "chunked" /\ OnChunk
             /\ \E c \in 1..Len(resp.sizes) + 1 :
                  /\ At(Before(resp, c)) /\ count = Upto(resp.sizes, c - 1)
                  /\ Min(SizeAt(data)) = 2 /\ Len(data) >= 3
                  /\ n = IF c <= Len(resp.sizes) THEN resp.sizes[c] ELSE 0
  <2>1. resp.framing = "chunked" /\ OnChunk
    BY <1>1, <1>7 DEF ResponseInv, OnPlace, OnBody, Retrieving
  <2>2. PICK c \in 1..Len(resp.sizes) + 1 : InChunk(c)
    BY <2>1 DEF OnChunk
  <2>3. At(Before(resp, c)) /\ count = Upto(resp.sizes, c - 1)
    BY <1>1, <2>2 DEF InChunk
  <2>4. /\ Min(SizeAt(data)) = 2 /\ Len(data) >= 3
        /\ Sizes(data) = {IF c <= Len(resp.sizes) THEN resp.sizes[c] ELSE 0}
    BY <1>1, <2>1, <2>3, SizeIsNext
  <2>5. n = IF c <= Len(resp.sizes) THEN resp.sizes[c] ELSE 0
    BY <1>2, <2>4
  <2> QED BY <2>1, <2>3, <2>4, <2>5
<1>8. response_content_len' \in Int /\ retrieve_len' \in Nat /\ is_more' \in BOOLEAN
  <2>1. retrieve_len' \in Nat
    BY <1>2, <1>5
  <2> QED BY <1>1, <1>2, <2>1, SMTT(60) DEF ClientTypes
<1>9. CASE n = -1
  <2>1. /\ pc' = "done" /\ result' = "prtcl" /\ delivered' = delivered /\ data' = <<>>
        /\ UNCHANGED <<count, readLen>>
    BY <1>2, <1>9 DEF Return
  <2>2. ClientTypes'
    BY <1>1, <1>3, <1>6, <1>8, <2>1 DEF ClientTypes, ClientPlaces, request
  <2>3. Len(data') <= Chunk
    BY <1>6, <2>1
  <2>4. ErrorsHaveAReason'
    <3>1. ~Tame
      <4> SUFFICES ASSUME Tame PROVE FALSE
        OBVIOUS
      <4>1. PICK c \in 1..Len(resp.sizes) + 1 :
              n = IF c <= Len(resp.sizes) THEN resp.sizes[c] ELSE 0
        BY <1>7
      <4>2. c <= Len(resp.sizes) => resp.sizes[c] \in Nat
        <5>1. /\ Len(resp.sizes) \in Nat
              /\ \A i \in 1..Len(resp.sizes) : resp.sizes[i] \in Nat \ {0}
          BY Zenon, <1>4, BeforeIs
        <5>2. c <= Len(resp.sizes) => c \in 1..Len(resp.sizes)
          BY <5>1
        <5> QED BY <5>1, <5>2
      <4> QED BY <1>9, <4>1, <4>2
    <3>2. stale => code # req
      BY <1>1 DEF ResponseInv, ClientTypes
    <3> QED BY <1>3, <1>4, <2>1, <3>1, <3>2 DEF ErrorsHaveAReason, Tame
  <2>5. code' = code
    BY <1>3
  <2> QED BY <1>1, <1>3, <2>1, <2>2, <2>3, <2>4, <2>5, Refused
<1>10. CASE n = 0
  <2>1. /\ pc' = "done" /\ result' = "ok" /\ delivered' = delivered \o buffer
        /\ data' = <<>> /\ UNCHANGED <<count, readLen>>
    BY <1>2, <1>10 DEF Return
  <2>2. ClientTypes'
    <3>1. delivered' \in Seq(Tokens)
      BY <1>1, <2>1 DEF ClientTypes
    <3> QED BY <1>1, <1>3, <1>6, <1>8, <2>1, <3>1 DEF ClientTypes, ClientPlaces, request
  <2>3. InHand'
    BY <1>6, <2>1 DEF InHand, Retrieving
  <2>4. ASSUME Tame
        PROVE  /\ resp.framing = "chunked" /\ code = req
               /\ Total = 0 \/ (Given' /\ delivered' = Body(req, resp))
    <3>1. resp.framing = "chunked" /\ OnChunk
      BY <1>7, <2>4
    <3>2. PICK c \in 1..Len(resp.sizes) + 1 :
            /\ count = Upto(resp.sizes, c - 1)
            /\ n = IF c <= Len(resp.sizes) THEN resp.sizes[c] ELSE 0
      BY <1>7, <2>4
    <3>3. count = Total
      <4>1. /\ Len(resp.sizes) \in Nat /\ Upto(resp.sizes, Len(resp.sizes)) = Sum(resp.sizes)
            /\ c \in 1..Len(resp.sizes) => resp.sizes[c] # 0
        BY <1>4, BeforeIs
      <4>2. c = Len(resp.sizes) + 1
        BY <1>10, <3>2, <4>1
      <4>3. c - 1 = Len(resp.sizes)
        BY <4>1, <4>2
      <4> QED BY <3>2, <4>1, <4>3 DEF Total
    <3>4. CASE count = 0
      BY <3>1, <3>3, <3>4 DEF OnChunk, Answering
    <3>5. CASE count # 0
      <4>1. Len(buffer) = Total /\ buffer \in Seq(Tokens) /\ delivered = <<>>
        BY <1>1, <3>1, <3>3, <3>5 DEF OnChunk, ClientTypes
      <4>2. delivered' = buffer
        BY <2>1, <4>1
      <4>3. \A i \in 1..Len(buffer) : buffer[i] = Byte(req, i)
        <5>1. \A i \in 1..Len(buffer) : Len(delivered) + i = i
          BY <4>1
        <5> QED BY <3>1, <3>3, <4>1, <5>1 DEF OnChunk, Piece
      <4>4. delivered' = Body(req, resp)
        BY <1>4, <4>1, <4>2, <4>3, WholeBody DEF Total
      <4>5. Given'
        <5>1. Len(delivered') <= Total'
          BY <1>4, <4>1, <4>2
        <5> QED BY <1>4, <4>2, <4>3, <5>1 DEF Given
      <4> QED BY <3>1, <4>4, <4>5 DEF OnChunk, Answering
    <3> QED BY <3>4, <3>5
  <2>5. Tame' => OnPlace'
    BY <1>4, <2>1, <2>4 DEF OnPlace, OnDone, Retrieving
  <2>6. OkMeansWhole'
    <3>1. Body(req, resp)' = Body(req, resp) /\ code' = code
      BY <1>3, <1>4
    <3> QED BY <1>4, <2>4, <3>1 DEF OkMeansWhole, Tame
  <2>7. ErrorsHaveAReason'
    BY <2>1 DEF ErrorsHaveAReason
  <2>8. stale' => (code' < req' /\ pc' \notin {"first", "status", "header"})
    BY <1>3, <1>4, <2>1 DEF ResponseInv
  <2> QED BY <2>2, <2>3, <2>5, <2>6, <2>7, <2>8 DEF ResponseInv
<1>11. CASE n # -1 /\ n # 0
  <2>1. /\ pc' = "copy" /\ readLen' = n /\ data' = Rest(data, Min(SizeAt(data)))
        /\ retrieve_len' = n /\ is_more' = TRUE
        /\ UNCHANGED <<count, result, delivered>>
    BY <1>2, <1>11 DEF Go
  <2>2. PICK m \in 0..Len(data) : m = Min(SizeAt(data))
    BY <1>5
  <2>3. /\ data' \in Seq(Tokens) /\ Len(data') = Len(data) - m
        /\ \A j, l \in Nat : At(j) /\ l = j + m => At(l)'
    BY <1>1, <1>3, <2>1, <2>2, Dropped
  <2>4. ClientTypes'
    BY <1>1, <1>3, <1>8, <2>1, <2>3
       DEF ClientTypes, ClientPlaces, Retrieving, request
  <2>5. InHand'
    <3>1. Len(data') <= Chunk
      BY <1>1, <2>2, <2>3, ClientSizes DEF InHand
    <3> QED BY <1>1, <1>3, <2>1, <3>1 DEF InHand, Retrieving
  <2>6. ASSUME Tame PROVE OnPlace'
    <3>1. resp.framing = "chunked" /\ OnChunk
      BY <1>7, <2>6
    <3>2. PICK c \in 1..Len(resp.sizes) + 1 :
            /\ At(Before(resp, c)) /\ count = Upto(resp.sizes, c - 1) /\ m = 2
            /\ n = IF c <= Len(resp.sizes) THEN resp.sizes[c] ELSE 0
      BY <1>7, <2>2, <2>6
    <3>3. /\ c \in 1..Len(resp.sizes) /\ n = resp.sizes[c] /\ Len(resp.sizes) \in Nat
      <4>1. Len(resp.sizes) \in Nat
        BY <1>4, BeforeIs
      <4> QED BY <1>11, <3>2, <4>1
    <3>4. /\ Before(resp, c) \in Nat /\ Before(resp, c + 1) = Before(resp, c) + n + 3
          /\ Upto(resp.sizes, c) = Upto(resp.sizes, c - 1) + n
          /\ Upto(resp.sizes, c - 1) \in Nat /\ n \in Nat
      <4>1. /\ Upto(resp.sizes, c - 1) \in 0..Sum(resp.sizes) /\ c \in 1..Len(resp.sizes) + 1
            /\ Sum(resp.sizes) \in Nat
        <5>1. c - 1 \in 0..Len(resp.sizes)
          BY <3>3
        <5> QED BY <1>4, <5>1, BeforeIs
      <4> QED BY <1>4, <1>5, <1>11, <3>3, <4>1, BeforeIs, SMTT(60)
    <3>5. PICK l \in Nat : l = Before(resp, c) + 2
      BY <3>4
    <3>6. At(l)'
      BY <2>3, <3>2, <3>4, <3>5
    <3>7. (Before(resp, c + 1) - 1 - readLen)' = l
      BY <1>4, <2>1, <3>4, <3>5, SMTT(60)
    <3>8. At(Before(resp, c + 1) - 1 - readLen)'
      BY <3>6, <3>7 DEF At
    <3>9. readLen' <= resp'.sizes[c] /\ count' = Upto(resp'.sizes, c) - readLen'
          /\ c <= Len(resp'.sizes) /\ c \in 1..Len(resp'.sizes) + 1
      <4>1. n <= resp.sizes[c] /\ count = Upto(resp.sizes, c) - n
            /\ c <= Len(resp.sizes) /\ c \in 1..Len(resp.sizes) + 1
        <5>1. Upto(resp.sizes, c) - n = Upto(resp.sizes, c - 1)
          BY <3>4
        <5>2. n <= resp.sizes[c]
          BY <3>3, <3>4
        <5>3. c <= Len(resp.sizes) /\ c \in 1..Len(resp.sizes) + 1
          BY <3>3
        <5> QED BY <3>2, <5>1, <5>2, <5>3
      <4>2. resp' = resp /\ readLen' = n /\ count' = count
        BY <1>4, <2>1
      <4> QED BY ONLY <4>1, <4>2
    <3>10. InChunk(c)'
      BY <2>1, <3>8, <3>9 DEF InChunk
    <3>11. Answering' /\ delivered' = <<>> /\ Piece'
      BY <1>3, <1>4, <2>1, <3>1 DEF OnChunk, Answering, Framed, Piece
    <3>12. OnChunk'
      BY <2>1, <3>9, <3>10, <3>11 DEF OnChunk
    <3> QED BY <1>4, <2>1, <3>1, <3>12 DEF OnPlace, Retrieving
  <2>7. stale' => (code' < req' /\ pc' \notin {"first", "status", "header"})
    BY <1>3, <1>4, <2>1 DEF ResponseInv
  <2> QED BY <1>4, <2>1, <2>4, <2>5, <2>6, <2>7, GoesOn
<1> QED BY <1>9, <1>10, <1>11


LEMMA Behind ==
  ASSUME NEW b \in Nat, NEW s \in Nat, NEW e, e = b + s + 3,
         NEW left \in Nat, left <= s
  PROVE  e - 1 - left \in Nat
OBVIOUS

(* What the local buffer holds within a chunk.                             *)
LEMMA ChunkAtHand ==
  ASSUME ClientTypes, resp.framing = "chunked", NEW c \in 1..Len(resp.sizes),
         NEW left \in 0..resp.sizes[c], NEW k \in Nat,
         k = Before(resp, c + 1) - 1 - left, At(k)
  PROVE  /\ left < Len(data) => data[left + 1] = Crlf
         /\ \A i \in 1..Len(data) :
              i <= left => data[i] = Byte(req, Upto(resp.sizes, c) - left + i)
<1> DEFINE t == Stream(req, resp)
           u == Upto(resp.sizes, c - 1)
           b == Before(resp, c)
           s == resp.sizes[c]
<1>1. resp \in Answers /\ req \in Nat /\ StreamTold(t, req, resp) /\ Len(data) \in Nat
  BY StreamIs DEF ClientTypes
<1>2. /\ b \in Nat /\ s \in Nat /\ Before(resp, c + 1) = b + s + 3
      /\ Upto(resp.sizes, c) = u + s /\ u \in Nat
  <2>1. Len(resp.sizes) \in Nat
    BY <1>1, BeforeIs
  <2>2. c - 1 \in 0..Len(resp.sizes) /\ c \in 1..Len(resp.sizes) + 1
    BY <2>1
  <2>3. u \in 0..Sum(resp.sizes) /\ Sum(resp.sizes) \in Nat
    BY <1>1, <2>2, BeforeIs
  <2> QED BY <1>1, <2>2, <2>3, BeforeIs, SMTT(60)
<1>3. t[b + 2 + s + 1] = Crlf /\ \A i \in 1..s : t[b + 2 + i] = Byte(req, u + i)
  BY <1>1 DEF StreamTold
<1>4. \A i \in 1..Len(data) : data[i] = t[k + i]
  BY DEF At, Holds
<1> HIDE DEF t, u, b, s
<1>5. k = b + s + 2 - left /\ left \in Nat /\ left <= s
  <2>1. left \in 0..s
    BY DEF s
  <2>2. left \in Nat /\ left <= s
    BY <1>2, <2>1
  <2> QED BY <1>2, <2>2
<1>6. ASSUME left < Len(data) PROVE data[left + 1] = Crlf
  <2>1. left + 1 \in 1..Len(data)
    BY <1>1, <1>5, <1>6, SMTT(60)
  <2>2. k + (left + 1) = b + 2 + s + 1
    BY <1>2, <1>5, SMTT(60)
  <2> QED BY <1>3, <1>4, <2>1, <2>2, SMTT(30)
<1>7. ASSUME NEW i \in 1..Len(data), i <= left
      PROVE  data[i] = Byte(req, Upto(resp.sizes, c) - left + i)
  <2>1. PICK j \in 1..s : j = s - left + i
    <3>1. i \in Nat /\ i >= 1 /\ i <= left
      BY <1>7
    <3>2. s \in Nat /\ left \in Nat /\ left <= s
      BY ONLY <1>2, <1>5
    <3>3. s - left + i \in 1..s
      BY ONLY <3>1, <3>2
    <3> QED BY <3>3
  <2>2. k + i = b + 2 + j /\ Upto(resp.sizes, c) - left + i = u + j
    <3>1. i \in Nat /\ j \in Nat
      OBVIOUS
    <3> QED BY ONLY <1>2, <1>5, <2>1, <3>1
  <2> QED BY <1>3, <1>4, <2>1, <2>2
<1> QED BY <1>6, <1>7


(* A part of a body whose length is known, or of a chunk.                  *)
LEMMA PartAtHand ==
  ASSUME ResponseInv, Tame, pc \in {"copy", "body"}
  PROVE  /\ Answering /\ Given /\ Piece
         /\ resp.framing # "chunked" =>
              /\ OnBody /\ resp.framing = "length"
              /\ Len(delivered) + count + readLen = Total
         /\ resp.framing = "chunked" =>
              /\ delivered = <<>> /\ Total < Room
              /\ \E c \in 1..Len(resp.sizes), k \in Nat :
                   /\ readLen \in 0..resp.sizes[c] /\ count + readLen = Upto(resp.sizes, c)
                   /\ Upto(resp.sizes, c) <= Total
                   /\ k = Before(resp, c + 1) - 1 - readLen /\ At(k)
         /\ \A n \in 0..Len(data) : n <= readLen =>
              \A i \in 1..count + n : Copied(n)[i] = Byte(req, Len(delivered) + i)
<1>1. /\ ClientTypes /\ readLen \in Nat /\ count \in Nat /\ Len(data) \in Nat
      /\ Len(delivered) \in Nat /\ resp \in Answers /\ Total \in Nat /\ Room \in Nat
      /\ HeaderLen(resp) \in Nat /\ (count = 0 \/ Len(buffer) = count)
  <2>1. ClientTypes /\ InHand
    BY DEF ResponseInv
  <2>2. resp \in Answers /\ (count = 0 \/ Len(buffer) = count)
    BY <2>1 DEF ClientTypes, InHand, Retrieving
  <2> QED BY <2>1, <2>2, SizesAre, ClientSizes, SMTT(30) DEF ClientTypes, Total, HeaderLen
<1>2. Given
  BY GivenSoFar
<1>3. CASE resp.framing # "chunked"
  <2>1. OnBody /\ Answering /\ Piece /\ resp.framing = "length"
        /\ Len(delivered) + count + readLen = Total
    <3>1. OnBody
      BY <1>3 DEF ResponseInv, OnPlace, Retrieving
    <3>2. Answering /\ Piece /\ resp.framing = "length"
          /\ readLen = Total - Len(delivered) - count
      BY <3>1 DEF OnBody
    <3> QED BY <1>1, <3>1, <3>2
  <2>2. PICK e \in Nat : e = Len(delivered) + count
    BY <1>1
  <2>3. PICK k \in Nat : k = HeaderLen(resp) + e
    BY <1>1
  <2>4. HeaderLen(resp) + Len(delivered) + count = k
    BY <1>1, <2>2, <2>3
  <2>5. At(k)
    BY <2>1, <2>4 DEF OnBody
  <2>6. \A i \in 1..Len(data) : data[i] = Byte(req, e + i)
    BY <1>1, <1>3, <2>3, <2>5, BodyAtHand
  <2>7. ASSUME NEW n \in 0..Len(data), n <= readLen
        PROVE  \A i \in 1..count + n : Copied(n)[i] = Byte(req, Len(delivered) + i)
    <3>1. \A i \in 1..n : data[i] = Byte(req, Len(delivered) + count + i)
      BY <1>1, <2>2, <2>6
    <3> QED BY <1>1, <2>1, <3>1, PieceOn
  <2> QED BY <1>2, <1>3, <2>1, <2>7
<1>4. CASE resp.framing = "chunked"
  <2>1. OnChunk /\ Answering /\ Piece /\ delivered = <<>>
    BY <1>4 DEF ResponseInv, OnPlace, OnChunk, Retrieving
  <2>2. PICK c \in 1..Len(resp.sizes) + 1 : InChunk(c)
    BY <2>1 DEF OnChunk
  <2>3. /\ c <= Len(resp.sizes) /\ readLen <= resp.sizes[c]
        /\ count = Upto(resp.sizes, c) - readLen
        /\ At(Before(resp, c + 1) - 1 - readLen)
    BY <2>2 DEF InChunk
  <2>4. Len(resp.sizes) \in Nat
    BY <1>1, BeforeIs
  <2>5. c \in 1..Len(resp.sizes) /\ c \in 0..Len(resp.sizes)
        /\ c \in 1..Len(resp.sizes) + 1
    BY <2>3, <2>4
  <2>6. /\ resp.sizes[c] \in Nat /\ Before(resp, c) \in Nat
        /\ Before(resp, c + 1) = Before(resp, c) + resp.sizes[c] + 3
        /\ Upto(resp.sizes, c) \in 0..Total
    BY <1>1, <2>5, BeforeIs DEF Total
  <2>7. readLen \in 0..resp.sizes[c] /\ count + readLen = Upto(resp.sizes, c)
        /\ Upto(resp.sizes, c) <= Total
    BY <1>1, <2>3, <2>6
  <2>8. PICK k \in Nat : k = Before(resp, c + 1) - 1 - readLen
    <3>1. readLen \in Nat /\ readLen <= resp.sizes[c]
      BY <1>1, <2>3
    <3> QED BY ONLY <2>6, <3>1, Behind
  <2>9. At(k)
    BY <2>3, <2>8
  <2>10. Total < Room
    BY <1>1, <1>4 DEF Tame, Overflows
  <2>11. ASSUME NEW n \in 0..Len(data), n <= readLen
         PROVE  \A i \in 1..count + n : Copied(n)[i] = Byte(req, Len(delivered) + i)
    <3>1. \A i \in 1..Len(data) :
            i <= readLen => data[i] = Byte(req, Upto(resp.sizes, c) - readLen + i)
      BY <1>1, <1>4, <2>5, <2>7, <2>8, <2>9, ChunkAtHand
    <3>2. ASSUME NEW i \in 1..n PROVE data[i] = Byte(req, Len(delivered) + count + i)
      <4>1. i \in 1..Len(data) /\ i <= readLen
        BY <1>1, <2>11
      <4>2. Upto(resp.sizes, c) - readLen + i = Len(delivered) + count + i
        BY <1>1, <2>1, <2>3
      <4> QED BY <3>1, <4>1, <4>2
    <3> QED BY <1>1, <2>1, <3>2, PieceOn
  <2>12. \E cc \in 1..Len(resp.sizes), kk \in Nat :
           /\ readLen \in 0..resp.sizes[cc] /\ count + readLen = Upto(resp.sizes, cc)
           /\ Upto(resp.sizes, cc) <= Total
           /\ kk = Before(resp, cc + 1) - 1 - readLen /\ At(kk)
    BY <2>5, <2>7, <2>8, <2>9
  <2> HIDE DEF At
  <2> QED BY <1>2, <1>4, <2>1, <2>10, <2>11, <2>12
<1> QED BY <1>3, <1>4

(* The part ends the piece, which is full, or the body.                    *)
LEMMA CopyFills ==
  ASSUME ResponseInv, pc = "copy", NEW n \in 0..Len(data), n <= readLen,
         count + n >= Room, buffer' = Copied(Room - count),
         retrieve_len' = retrieve_len - (Room - count), Return("more", buffer'),
         UNCHANGED <<request, peer, wire, is_chunked, response_content_len, code, is_more>>
  PROVE  ResponseInv'
<1>1. /\ ClientTypes /\ InHand /\ Len(data) \in Nat /\ Len(delivered) \in Nat
      /\ count \in Nat /\ count < Room /\ Room \in Nat /\ readLen = retrieve_len
      /\ readLen \in Nat /\ (count = 0 \/ Len(buffer) = count)
  <2>1. ClientTypes /\ InHand
    BY DEF ResponseInv
  <2> QED BY <2>1, ClientSizes DEF ClientTypes, InHand, Retrieving
<1>2. /\ stale' = stale /\ Tame' = Tame /\ req' = req /\ sent' = sent /\ resp' = resp
      /\ Overflows' = Overflows /\ Total' = Total /\ Total \in Nat
      /\ HeaderLen(resp) \in {5, 7}
  BY <1>1, SameResponse
<1>3. PICK m \in 0..Len(data) : m = Room - count /\ m <= n /\ m <= readLen
  BY <1>1
<1>4. /\ buffer' = Copied(m) /\ pc' = "done" /\ result' = "more" /\ data' = <<>>
      /\ delivered' = delivered \o buffer' /\ UNCHANGED <<count, readLen>>
  BY <1>3 DEF Return
<1>5. buffer' \in Seq(Tokens) /\ Len(buffer') = Room
  <2>1. Len(Copied(m)) = count + m /\ Copied(m) \in Seq(Tokens)
    BY <1>1, CopiedIs
  <2> QED BY <1>1, <1>3, <1>4, <2>1
<1>6. retrieve_len' \in Nat
  BY <1>1, <1>3
<1>7. ClientTypes'
  <2>1. delivered' \in Seq(Tokens) /\ <<>> \in Seq(Tokens)
    BY <1>1, <1>4, <1>5 DEF ClientTypes
  <2> QED BY <1>1, <1>4, <1>5, <1>6, <2>1 DEF ClientTypes, ClientPlaces, request
<1>8. InHand'
  BY <1>4, ClientSizes DEF InHand, Retrieving
<1>9. ASSUME Tame PROVE OnPlace'
  <2>1. resp.framing # "chunked"
    <3> SUFFICES ASSUME resp.framing = "chunked" PROVE FALSE
      OBVIOUS
    <3>1. PICK c : count + readLen = Upto(resp.sizes, c) /\ Upto(resp.sizes, c) <= Total
                   /\ Total < Room
      BY <1>9, PartAtHand
    <3> QED BY <1>1, <1>2, <3>1
  <2>2. /\ OnBody /\ Answering /\ Given /\ resp.framing = "length"
        /\ Len(delivered) + count + readLen = Total
        /\ \A i \in 1..count + m : Copied(m)[i] = Byte(req, Len(delivered) + i)
    BY <1>3, <1>9, <2>1, PartAtHand
  <2>3. m = Len(data)
    <3>1. count + Len(data) <= Room
      BY <2>2 DEF OnBody
    <3> QED BY <1>1, <1>3, <3>1
  <2>4. Given' /\ Len(delivered') = Len(delivered) + Room
    <3>1. count + m = Len(buffer') /\ Len(delivered) + Len(buffer') <= Total
      BY <1>1, <1>2, <1>3, <1>5, <2>2
    <3>2. \A i \in 1..Len(buffer') : buffer'[i] = Byte(req, Len(delivered) + i)
      BY <1>4, <2>2, <3>1
    <3>3. Len(delivered') = Len(delivered) + Len(buffer') /\ Given'
      BY <1>1, <1>4, <1>5, <2>2, <3>1, <3>2, GivenOn
    <3> QED BY <1>5, <3>3
  <2>5. At(HeaderLen(resp) + Len(delivered))'
    <3>1. PICK j \in Nat : j = HeaderLen(resp) + Len(delivered) + count
      BY <1>1, <1>2
    <3>2. At(j)
      BY <2>2, <3>1 DEF OnBody
    <3>3. PICK l \in Nat : l = j + Len(data)
      BY <1>1
    <3>4. At(l)'
      BY <1>1, <1>4, <3>2, <3>3, DroppedAll
    <3>5. HeaderLen(resp)' + Len(delivered)' = l
      <4>1. HeaderLen(resp)' = HeaderLen(resp) /\ HeaderLen(resp) \in Nat
        BY <1>2
      <4>2. Len(delivered)' = Len(delivered) + count + Len(data)
        BY <1>1, <1>3, <2>3, <2>4
      <4> QED BY ONLY <1>1, <3>1, <3>3, <4>1, <4>2, SMTT(60)
    <3> QED BY <3>4, <3>5 DEF At
  <2>6. retrieve_len' = Total' - Len(delivered')
    BY <1>1, <1>2, <1>3, <2>2, <2>4
  <2>7. Answering'
    BY <1>2, <2>2 DEF Answering, Framed
  <2>8. OnContinue'
    BY <1>2, <2>1, <2>4, <2>5, <2>6, <2>7 DEF OnContinue
  <2> QED BY <1>4, <1>5, <2>4, <2>8 DEF OnPlace, OnDone, Retrieving
<1>10. OkMeansWhole' /\ ErrorsHaveAReason'
  BY <1>4 DEF OkMeansWhole, ErrorsHaveAReason
<1>11. stale' => (code' < req' /\ pc' \notin {"first", "status", "header"})
  BY <1>2, <1>4 DEF ResponseInv
<1> QED BY <1>2, <1>7, <1>8, <1>9, <1>10, <1>11 DEF ResponseInv


(* There is more of it, which is to be received.                           *)
LEMMA CopyGoesOn ==
  ASSUME ResponseInv, pc = "copy", count + Len(data) < Room, Len(data) < readLen,
         Copy(Len(data)), retrieve_len' = retrieve_len - Len(data),
         readLen' = readLen - Len(data), Go("body", <<>>),
         UNCHANGED <<request, peer, wire, is_chunked, response_content_len, code, is_more>>
  PROVE  ResponseInv'
<1>1. /\ ClientTypes /\ InHand /\ Len(data) \in Nat /\ Len(delivered) \in Nat
      /\ count \in Nat /\ Room \in Nat /\ readLen = retrieve_len /\ readLen \in Nat
      /\ (count = 0 \/ Len(buffer) = count) /\ Len(data) \in 0..Len(data)
  <2>1. ClientTypes /\ InHand
    BY DEF ResponseInv
  <2> QED BY <2>1, ClientSizes DEF ClientTypes, InHand, Retrieving
<1>2. /\ stale' = stale /\ Tame' = Tame /\ req' = req /\ sent' = sent /\ resp' = resp
      /\ Overflows' = Overflows /\ Total' = Total /\ Total \in Nat
      /\ HeaderLen(resp) \in {5, 7}
  BY <1>1, SameResponse
<1>3. /\ buffer' = Copied(Len(data)) /\ count' = count + Len(data)
      /\ pc' = "body" /\ data' = <<>> /\ UNCHANGED <<result, delivered>>
  BY DEF Copy, Go
<1>4. buffer' \in Seq(Tokens) /\ Len(buffer') = count' /\ count' \in 0..Room - 1
      /\ readLen' \in Nat /\ readLen' = retrieve_len'
  <2>1. Len(Copied(Len(data))) = count + Len(data) /\ Copied(Len(data)) \in Seq(Tokens)
    BY <1>1, CopiedIs
  <2>2. count' \in 0..Room - 1 /\ readLen' \in Nat /\ readLen' = retrieve_len'
    BY <1>1, <1>3
  <2> QED BY <1>3, <2>1, <2>2
<1>5. ClientTypes'
  <2>1. <<>> \in Seq(Tokens)
    OBVIOUS
  <2> QED BY <1>1, <1>3, <1>4, <2>1 DEF ClientTypes, ClientPlaces, Retrieving, request
<1>6. InHand'
  BY <1>3, <1>4, ClientSizes DEF InHand, Retrieving
<1>7. \A j, l \in Nat : At(j) /\ l = j + Len(data) => At(l)'
  BY <1>1, <1>3, DroppedAll
<1>8. ASSUME Tame PROVE OnPlace'
  <2>1. Answering' /\ Given' /\ Piece'
    <3>1. Answering /\ Given
          /\ \A i \in 1..count + Len(data) :
               Copied(Len(data))[i] = Byte(req, Len(delivered) + i)
      BY <1>1, <1>8, PartAtHand, SMTT(30)
    <3> QED BY <1>2, <1>3, <3>1 DEF Answering, Framed, Given, Piece
  <2>2. CASE resp.framing # "chunked"
    <3>1. OnBody /\ resp.framing = "length" /\ Len(delivered) + count + readLen = Total
      BY <1>8, <2>2, PartAtHand
    <3>2. At(HeaderLen(resp) + Len(delivered) + count)'
      <4>1. PICK j \in Nat : j = HeaderLen(resp) + Len(delivered) + count
        BY <1>1, <1>2
      <4>2. At(j)
        BY <3>1, <4>1 DEF OnBody
      <4>3. PICK l \in Nat : l = j + Len(data)
        BY <1>1
      <4>4. At(l)'
        BY <1>7, <4>2, <4>3
      <4>5. HeaderLen(resp)' + Len(delivered)' + count' = l
        BY <1>1, <1>2, <1>3, <4>1, <4>3, SMTT(60)
      <4> QED BY <4>4, <4>5 DEF At
    <3>3. readLen' = Total' - Len(delivered)' - count'
      BY <1>1, <1>2, <1>3, <3>1
    <3>4. count' + Len(data') <= Room
      BY <1>1, <1>3
    <3>5. OnBody'
      BY <1>2, <1>3, <2>1, <3>1, <3>2, <3>3, <3>4 DEF OnBody
    <3> QED BY <1>2, <1>3, <2>2, <3>5 DEF OnPlace, Retrieving
  <2>3. CASE resp.framing = "chunked"
    <3>1. /\ delivered = <<>>
          /\ \E c \in 1..Len(resp.sizes), k \in Nat :
               /\ readLen \in 0..resp.sizes[c] /\ count + readLen = Upto(resp.sizes, c)
               /\ k = Before(resp, c + 1) - 1 - readLen /\ At(k)
      BY <1>8, <2>3, PartAtHand
    <3>2. PICK c \in 1..Len(resp.sizes), k \in Nat :
               /\ readLen \in 0..resp.sizes[c] /\ count + readLen = Upto(resp.sizes, c)
               /\ k = Before(resp, c + 1) - 1 - readLen /\ At(k)
      BY <3>1
    <3>3. /\ Len(resp.sizes) \in Nat /\ resp.sizes[c] \in Nat
          /\ Before(resp, c + 1) \in Int /\ Upto(resp.sizes, c) \in Int
      <4>1. resp \in Answers
        BY <1>1 DEF ClientTypes
      <4>2. Len(resp.sizes) \in Nat
        BY <4>1, BeforeIs
      <4>3. c \in 1..Len(resp.sizes) + 1 /\ c \in 0..Len(resp.sizes)
        BY <4>2
      <4>4. /\ Before(resp, c) \in Nat /\ resp.sizes[c] \in Nat
            /\ Before(resp, c + 1) = Before(resp, c) + resp.sizes[c] + 3
            /\ Upto(resp.sizes, c) \in 0..Sum(resp.sizes)
        BY <4>1, <4>3, BeforeIs
      <4> QED BY <4>2, <4>4, SMTT(60)
    <3>4. At(Before(resp, c + 1) - 1 - readLen)'
      <4>1. PICK l \in Nat : l = k + Len(data)
        BY <1>1
      <4>2. At(l)'
        BY <1>7, <3>2, <4>1
      <4>3. Before(resp, c + 1)' = Before(resp, c + 1)
        BY <1>2
      <4>4. Before(resp, c + 1)' - 1 - readLen' = l
        BY <1>1, <1>3, <3>2, <3>3, <4>1, <4>3, SMTT(60)
      <4> QED BY <4>2, <4>4 DEF At
    <3>5. /\ c \in 1..Len(resp.sizes) + 1 /\ c <= Len(resp.sizes)
          /\ readLen' <= resp.sizes[c] /\ count' = Upto(resp.sizes, c) - readLen'
      <4>1. c \in 1..Len(resp.sizes) + 1 /\ c <= Len(resp.sizes)
        BY <3>3
      <4>2. readLen' <= resp.sizes[c]
        <5>1. readLen <= resp.sizes[c]
          BY <3>2, <3>3
        <5> QED BY <1>1, <3>3, <5>1, SMTT(60)
      <4>3. count' = Upto(resp.sizes, c) - readLen'
        BY <1>1, <1>3, <3>2, <3>3
      <4> QED BY <4>1, <4>2, <4>3
    <3>6. InChunk(c)' /\ c \in 1..Len(resp'.sizes) + 1
      BY <1>2, <1>3, <3>4, <3>5 DEF InChunk
    <3>7. OnChunk'
      BY <1>3, <2>1, <3>1, <3>6 DEF OnChunk
    <3> QED BY <1>2, <1>3, <2>3, <3>7 DEF OnPlace, Retrieving
  <2> QED BY <2>2, <2>3
<1>9. stale' => (code' < req' /\ pc' \notin {"first", "status", "header"})
  BY <1>2, <1>3 DEF ResponseInv
<1> QED BY <1>2, <1>3, <1>5, <1>6, <1>8, <1>9, GoesOn

(* The chunk ends.                                                         *)
LEMMA CopyEndsChunk ==
  ASSUME ResponseInv, pc = "copy", readLen <= Len(data), count + readLen < Room,
         is_chunked, Copy(readLen), retrieve_len' = retrieve_len - readLen,
         readLen' = 0, Go("end", Rest(data, readLen)),
         UNCHANGED <<request, peer, wire, is_chunked, response_content_len, code, is_more>>
  PROVE  ResponseInv'
<1>1. /\ ClientTypes /\ InHand /\ Len(data) \in Nat /\ Len(delivered) \in Nat
      /\ count \in Nat /\ Room \in Nat /\ readLen = retrieve_len /\ readLen \in Nat
      /\ (count = 0 \/ Len(buffer) = count) /\ Len(data) <= Chunk /\ Chunk \in Nat
  <2>1. ClientTypes /\ InHand
    BY DEF ResponseInv
  <2> QED BY <2>1, ClientSizes DEF ClientTypes, InHand, Retrieving
<1>2. /\ stale' = stale /\ Tame' = Tame /\ req' = req /\ sent' = sent /\ resp' = resp
      /\ Overflows' = Overflows /\ Total' = Total /\ Total \in Nat
  BY <1>1, SameResponse
<1>3. PICK n \in 0..Len(data) : n = readLen
  BY <1>1
<1>4. /\ buffer' = Copied(n) /\ count' = count + n /\ retrieve_len' = 0
      /\ pc' = "end" /\ data' = Rest(data, n) /\ UNCHANGED <<result, delivered>>
  <2>1. retrieve_len' = 0
    BY <1>1
  <2> QED BY <1>3, <2>1 DEF Copy, Go
<1>5. buffer' \in Seq(Tokens) /\ Len(buffer') = count' /\ count' \in 0..Room - 1
  <2>1. Len(Copied(n)) = count + n /\ Copied(n) \in Seq(Tokens)
    BY <1>1, CopiedIs
  <2>2. count' \in 0..Room - 1
    BY <1>1, <1>3, <1>4
  <2> QED BY <1>4, <2>1, <2>2
<1>6. /\ data' \in Seq(Tokens) /\ Len(data') = Len(data) - n
      /\ \A j, l \in Nat : At(j) /\ l = j + n => At(l)'
  BY <1>1, <1>4, Dropped
<1>7. ClientTypes'
  BY <1>1, <1>4, <1>5, <1>6 DEF ClientTypes, ClientPlaces, Retrieving, request
<1>8. InHand'
  <2>1. Len(data') <= Chunk
    BY <1>1, <1>6
  <2> QED BY <1>4, <1>5, <2>1 DEF InHand, Retrieving
<1>9. ASSUME Tame PROVE OnPlace'
  <2>1. resp.framing = "chunked"
    <3>1. Answering
      BY <1>9, PartAtHand
    <3> QED BY <3>1 DEF Answering, Framed
  <2>2. /\ delivered = <<>>
        /\ \E c \in 1..Len(resp.sizes), k \in Nat :
             /\ readLen \in 0..resp.sizes[c] /\ count + readLen = Upto(resp.sizes, c)
             /\ k = Before(resp, c + 1) - 1 - readLen /\ At(k)
    BY <1>9, <2>1, PartAtHand
  <2>3. PICK c \in 1..Len(resp.sizes), k \in Nat :
             /\ readLen \in 0..resp.sizes[c] /\ count + readLen = Upto(resp.sizes, c)
             /\ k = Before(resp, c + 1) - 1 - readLen /\ At(k)
    BY <2>2
  <2>4. Len(resp.sizes) \in Nat /\ Before(resp, c + 1) \in Int
    <3>1. resp \in Answers
      BY <1>1 DEF ClientTypes
    <3>2. Len(resp.sizes) \in Nat
      BY <3>1, BeforeIs
    <3>3. c \in 1..Len(resp.sizes) + 1
      BY <3>2
    <3>4. /\ Before(resp, c) \in Nat /\ resp.sizes[c] \in Nat
          /\ Before(resp, c + 1) = Before(resp, c) + resp.sizes[c] + 3
      BY <3>1, <3>3, BeforeIs
    <3> QED BY <3>2, <3>4, SMTT(60)
  <2>5. Answering' /\ Piece'
    <3>1. Answering /\ \A i \in 1..count + n : Copied(n)[i] = Byte(req, Len(delivered) + i)
      BY <1>1, <1>3, <1>9, PartAtHand
    <3> QED BY <1>2, <1>4, <3>1 DEF Answering, Framed, Piece
  <2>6. At(Before(resp, c + 1) - 1)'
    <3>1. PICK l \in Nat : l = k + n
      BY <1>1
    <3>2. At(l)'
      BY <1>6, <2>3, <3>1
    <3>3. Before(resp, c + 1)' = Before(resp, c + 1)
      BY <1>2
    <3>4. Before(resp, c + 1)' - 1 = l
      BY <1>1, <1>3, <2>3, <2>4, <3>1, <3>3, SMTT(60)
    <3> QED BY <3>2, <3>4 DEF At
  <2>7. c \in 1..Len(resp.sizes) + 1 /\ c <= Len(resp.sizes)
        /\ count' = Upto(resp.sizes, c)
    BY <1>3, <1>4, <2>3, <2>4
  <2>8. InChunk(c)' /\ c \in 1..Len(resp'.sizes) + 1
    BY <1>2, <1>4, <2>6, <2>7 DEF InChunk
  <2>9. OnChunk'
    BY <1>4, <2>2, <2>5, <2>8 DEF OnChunk
  <2> QED BY <1>2, <1>4, <2>1, <2>9 DEF OnPlace, Retrieving
<1>10. stale' => (code' < req' /\ pc' \notin {"first", "status", "header"})
  BY <1>2, <1>4 DEF ResponseInv
<1> QED BY <1>2, <1>4, <1>7, <1>8, <1>9, <1>10, GoesOn


(* The body ends.                                                          *)
LEMMA CopyEnds ==
  ASSUME ResponseInv, pc = "copy", readLen <= Len(data), count + readLen < Room,
         is_chunked = FALSE, Copy(readLen), retrieve_len' = retrieve_len - readLen,
         readLen' = 0, is_more' = FALSE,
         pc' = "done", result' = "ok", data' = <<>>, delivered' = delivered \o buffer',
         UNCHANGED <<request, peer, wire, is_chunked, response_content_len, code>>
  PROVE  ResponseInv'
<1>1. /\ ClientTypes /\ InHand /\ Len(data) \in Nat /\ Len(delivered) \in Nat
      /\ count \in Nat /\ Room \in Nat /\ readLen = retrieve_len /\ readLen \in Nat
      /\ (count = 0 \/ Len(buffer) = count) /\ delivered \in Seq(Tokens)
  <2>1. ClientTypes /\ InHand
    BY DEF ResponseInv
  <2> QED BY <2>1, ClientSizes DEF ClientTypes, InHand, Retrieving
<1>2. /\ stale' = stale /\ Tame' = Tame /\ req' = req /\ sent' = sent /\ resp' = resp
      /\ Overflows' = Overflows /\ Total' = Total /\ Total \in Nat
      /\ resp \in Answers /\ req \in Nat
  BY <1>1, SameResponse
<1>3. PICK n \in 0..Len(data) : n = readLen
  BY <1>1
<1>4. /\ buffer' = Copied(n) /\ count' = count + n /\ retrieve_len' = 0
  <2>1. retrieve_len' = 0
    BY <1>1
  <2> QED BY <1>3, <2>1 DEF Copy
<1>5. buffer' \in Seq(Tokens) /\ Len(buffer') = count + n /\ count' \in 0..Room - 1
  <2>1. Len(Copied(n)) = count + n /\ Copied(n) \in Seq(Tokens)
    BY <1>1, CopiedIs
  <2>2. count' \in 0..Room - 1
    BY <1>1, <1>3, <1>4
  <2> QED BY <1>4, <2>1, <2>2
<1>6. ClientTypes'
  <2>1. delivered' \in Seq(Tokens) /\ <<>> \in Seq(Tokens)
    BY <1>1, <1>5
  <2>2. is_chunked' \in BOOLEAN /\ is_more' \in BOOLEAN
    OBVIOUS
  <2>3. UNCHANGED <<request, peer, wire, response_content_len, code>>
    OBVIOUS
  <2>4. pc' = "done" /\ result' = "ok" /\ data' = <<>> /\ readLen' = 0
    OBVIOUS
  <2> QED BY ONLY <1>1, <1>4, <1>5, <2>1, <2>2, <2>3, <2>4
          DEF ClientTypes, ClientPlaces, request
<1>7. InHand'
  BY ClientSizes DEF InHand, Retrieving
<1>8. ASSUME Tame PROVE Given' /\ delivered' = Body(req, resp) /\ code = req
  <2>1. Answering /\ Given
        /\ \A i \in 1..count + n : Copied(n)[i] = Byte(req, Len(delivered) + i)
    BY <1>1, <1>3, <1>8, PartAtHand
  <2>2. resp.framing # "chunked"
    BY <2>1 DEF Answering, Framed
  <2>3. Len(delivered) + count + readLen = Total
    BY <1>8, <2>2, PartAtHand
  <2>4. Len(delivered) + Len(buffer') = Total
    BY <1>1, <1>3, <1>5, <2>3
  <2>5. /\ Len(delivered) + Len(buffer') <= Total
        /\ \A i \in 1..Len(buffer') : buffer'[i] = Byte(req, Len(delivered) + i)
    BY <1>2, <1>4, <1>5, <2>1, <2>4
  <2>6. Given' /\ Len(delivered') = Len(delivered) + Len(buffer')
    BY <1>1, <1>5, <2>1, <2>5, GivenOn
  <2>7. /\ delivered' \in Seq(Tokens) /\ Len(delivered') = Sum(resp.sizes)
        /\ \A i \in 1..Len(delivered') : delivered'[i] = Byte(req, i)
    BY <1>1, <1>2, <1>5, <2>4, <2>6 DEF Given, Total
  <2>8. delivered' = Body(req, resp)
    BY <1>2, <2>7, WholeBody
  <2> QED BY <2>1, <2>6, <2>8 DEF Answering
<1>9. Tame' => OnPlace'
  BY <1>2, <1>8 DEF OnPlace, OnDone, Retrieving
<1>10. OkMeansWhole'
  <2>1. Body(req, resp)' = Body(req, resp) /\ code' = code
    BY <1>2
  <2> QED BY <1>2, <1>8, <2>1 DEF OkMeansWhole, Tame
<1>11. ErrorsHaveAReason'
  BY DEF ErrorsHaveAReason
<1>12. stale' => (code' < req' /\ pc' \notin {"first", "status", "header"})
  BY <1>2 DEF ResponseInv
<1> QED BY <1>6, <1>7, <1>9, <1>10, <1>11, <1>12 DEF ResponseInv

LEMMA CopyPartStep ==
  ASSUME ResponseInv, CopyPart
  PROVE  ResponseInv'
<1>1. /\ pc = "copy" /\ Len(data) \in Nat /\ readLen \in Nat /\ count \in Nat
      /\ Room \in Nat /\ UNCHANGED <<request, peer, wire, is_chunked,
                                     response_content_len, code>>
  BY ClientSizes DEF CopyPart, ResponseInv, ClientTypes
<1>2. Min({Len(data), readLen}) = IF Len(data) <= readLen THEN Len(data) ELSE readLen
  BY <1>1, Least2
<1>3. PICK n \in 0..Len(data) :
        n = Min({Len(data), readLen}) /\ n <= readLen /\ (n = Len(data) \/ n = readLen)
  BY <1>1, <1>2
<1>4. IF count + n < Room
        THEN /\ Copy(n)
             /\ retrieve_len' = retrieve_len - n
             /\ readLen' = readLen - n
             /\ IF readLen' > 0
                  THEN Go("body", <<>>) /\ UNCHANGED is_more
                ELSE IF is_chunked
                  THEN Go("end", Rest(data, n)) /\ UNCHANGED is_more
                ELSE /\ is_more' = FALSE
                     /\ pc' = "done" /\ result' = "ok" /\ data' = <<>>
                     /\ delivered' = delivered \o buffer'
        ELSE /\ buffer' = Copied(Room - count)
             /\ retrieve_len' = retrieve_len - (Room - count)
             /\ Return("more", buffer') /\ UNCHANGED is_more
  BY <1>3 DEF CopyPart
<1>5. CASE ~(count + n < Room)
  <2>1. count + n >= Room
    BY <1>1, <1>5
  <2>2. /\ buffer' = Copied(Room - count)
        /\ retrieve_len' = retrieve_len - (Room - count)
        /\ Return("more", buffer') /\ UNCHANGED is_more
    BY <1>4, <1>5
  <2> QED BY <1>1, <1>3, <2>1, <2>2, CopyFills
<1>6. CASE count + n < Room /\ n < readLen
  <2>1. n = Len(data) /\ Len(data) < readLen /\ readLen - n > 0
    BY <1>1, <1>3, <1>6
  <2>2. /\ count + Len(data) < Room /\ Copy(Len(data))
        /\ retrieve_len' = retrieve_len - Len(data) /\ readLen' = readLen - Len(data)
        /\ Go("body", <<>>) /\ UNCHANGED is_more
    BY <1>4, <1>6, <2>1
  <2> QED BY <1>1, <2>1, <2>2, CopyGoesOn
<1>7. CASE count + n < Room /\ ~(n < readLen)
  <2>1. n = readLen /\ readLen <= Len(data) /\ readLen - n = 0
    BY <1>1, <1>3, <1>7
  <2>2. /\ count + readLen < Room /\ Copy(readLen)
        /\ retrieve_len' = retrieve_len - readLen /\ readLen' = 0
    BY <1>4, <1>7, <2>1
  <2>3. CASE is_chunked
    <3>1. Go("end", Rest(data, readLen)) /\ UNCHANGED is_more
      BY <1>4, <1>7, <2>1, <2>2, <2>3
    <3> QED BY <1>1, <2>1, <2>2, <2>3, <3>1, CopyEndsChunk
  <2>4. CASE ~is_chunked
    <3>1. /\ is_more' = FALSE /\ pc' = "done" /\ result' = "ok" /\ data' = <<>>
          /\ delivered' = delivered \o buffer'
      BY <1>4, <1>7, <2>1, <2>2, <2>4
    <3>2. is_chunked = FALSE
      BY <2>4 DEF ResponseInv, ClientTypes
    <3> QED BY <1>1, <2>1, <2>2, <3>1, <3>2, CopyEnds
  <2> QED BY <2>3, <2>4
<1> QED BY <1>5, <1>6, <1>7

LEMMA BodyReceiveStep ==
  ASSUME ResponseInv, BodyReceive
  PROVE  ResponseInv'
<1>1. /\ ClientTypes /\ InHand /\ pc = "body" /\ Len(buffer) = count /\ data = <<>>
      /\ Len(data) = 0 /\ Len(delivered) \in Nat /\ count \in Nat /\ count < Room
      /\ Room \in Nat /\ Chunk \in Nat /\ readLen \in Nat /\ readLen = retrieve_len
  <2>1. ClientTypes /\ InHand /\ pc = "body"
    BY DEF ResponseInv, BodyReceive
  <2> QED BY <2>1, ClientSizes DEF ClientTypes, InHand
<1>2. UNCHANGED <<request, peer, client, buffer>>
  BY DEF BodyReceive
<1>3. /\ stale' = stale /\ Tame' = Tame /\ req' = req /\ sent' = sent /\ resp' = resp
      /\ Overflows' = Overflows /\ Total' = Total /\ Total \in Nat
      /\ HeaderLen(resp) \in {5, 7} /\ resp \in Answers
  BY <1>1, <1>2, SameResponse
<1>4. PICK k \in 0..Chunk, r \in {"ok", "conn"} :
        /\ httpc_recv(1, Min({Chunk, Room - count, readLen}), k, r)
        /\ IF r = "conn" THEN Return(r, <<>>)
           ELSE /\ Go(IF k = 0 THEN "body" ELSE "copy", Came(k))
                /\ UNCHANGED <<count, readLen>>
  BY DEF BodyReceive
<1>5. /\ k \in Nat /\ k <= Chunk /\ k <= Room - count
      /\ wire' \in Seq(Tokens) /\ Came(k) \in Seq(Tokens) /\ Len(Came(k)) = k
      /\ (r = "conn" => peer = "reset")
      /\ (data' = Came(k) => \A j \in Nat : At(j) => At(j)')
  <2>1. /\ Min({Chunk, Room - count, readLen}) \in {Chunk, Room - count, readLen}
        /\ Min({Chunk, Room - count, readLen}) <= Room - count
    <3>1. Chunk \in Int /\ Room - count \in Int /\ readLen \in Int
      BY <1>1
    <3> QED BY <3>1, Least3
  <2>2. PICK x \in Int : x = Min({Chunk, Room - count, readLen}) /\ x <= Room - count
    BY <1>1, <2>1
  <2>3. httpc_recv(1, x, k, r)
    BY <1>4, <2>2
  <2>4. ClientTypes /\ data = <<>>
    BY <1>1
  <2>5. /\ k <= x
        /\ wire' \in Seq(Tokens) /\ Came(k) \in Seq(Tokens) /\ Len(Came(k)) = k
        /\ (r = "conn" => peer = "reset")
        /\ (data' = Came(k) => \A j \in Nat : At(j) => At(j)')
    BY <1>2, <2>3, <2>4, ReceivedFirst
  <2>6. k \in Nat /\ k <= Chunk /\ k <= Room - count
    BY <1>1, <2>2, <2>5
  <2> QED BY <2>5, <2>6
<1>6. Len(<<>>) = 0 /\ 0 <= Chunk /\ <<>> \in Seq(Tokens)
  BY <1>1
<1>7. CASE r = "conn"
  <2>1. /\ pc' = "done" /\ result' = r /\ delivered' = delivered /\ data' = <<>>
        /\ UNCHANGED <<count, readLen>>
    BY <1>4, <1>7 DEF Return
  <2>2. ClientTypes'
    BY <1>1, <1>2, <1>5, <1>6, <1>7, <2>1 DEF ClientTypes, ClientPlaces, request, client
  <2>3. Len(data') <= Chunk
    BY <1>6, <2>1
  <2>4. ErrorsHaveAReason'
    BY <1>2, <1>5, <1>7 DEF ErrorsHaveAReason
  <2>5. code' = code
    BY <1>2 DEF client
  <2> QED BY <1>1, <1>2, <1>7, <2>1, <2>2, <2>3, <2>4, <2>5, Refused
<1>8. CASE r = "ok"
  <2>1. /\ pc' = (IF k = 0 THEN "body" ELSE "copy") /\ data' = Came(k)
        /\ UNCHANGED <<count, readLen, result, delivered>>
    BY <1>4, <1>8 DEF Go
  <2>2. ClientTypes'
    BY <1>1, <1>2, <1>5, <2>1 DEF ClientTypes, ClientPlaces, Retrieving, request, client
  <2>3. InHand'
    <3>1. Len(data') <= Chunk /\ readLen' = retrieve_len' /\ Len(buffer') = count'
      BY <1>1, <1>2, <1>5, <2>1 DEF client
    <3>2. k = 0 => data' = <<>>
      BY <1>5, <2>1
    <3> QED BY <2>1, <3>1, <3>2 DEF InHand, Retrieving
  <2>4. ASSUME Tame PROVE OnPlace'
    <3>1. Answering' /\ Given' /\ Piece'
      <4>1. Answering /\ Given /\ Piece
        BY <1>1, <2>4, PartAtHand
      <4> QED BY <1>2, <1>3, <2>1, <4>1 DEF Answering, Framed, Given, Piece, client
    <3>2. CASE resp.framing # "chunked"
      <4>1. OnBody /\ resp.framing = "length"
        BY <1>1, <2>4, <3>2, PartAtHand
      <4>2. PICK j \in Nat : j = HeaderLen(resp) + Len(delivered) + count
        BY <1>1, <1>3
      <4>3. At(j)'
        BY <1>5, <2>1, <4>1, <4>2 DEF OnBody
      <4>4. HeaderLen(resp)' + Len(delivered)' + count' = j
        BY <1>3, <2>1, <4>2
      <4>5. At(HeaderLen(resp) + Len(delivered) + count)'
        BY <4>3, <4>4 DEF At
      <4>6. count' + Len(data') <= Room
        BY <1>1, <1>5, <2>1
      <4>7. readLen' = Total' - Len(delivered)' - count'
        BY <1>1, <1>3, <2>1, <4>1 DEF OnBody
      <4>8. OnBody'
        BY <1>3, <2>1, <3>1, <4>1, <4>5, <4>6, <4>7 DEF OnBody
      <4> QED BY <1>3, <2>1, <3>2, <4>8 DEF OnPlace, Retrieving
    <3>3. CASE resp.framing = "chunked"
      <4>1. OnChunk
        BY <1>1, <2>4, <3>3 DEF ResponseInv, OnPlace, Retrieving
      <4>2. PICK c \in 1..Len(resp.sizes) + 1 : InChunk(c)
        BY <4>1 DEF OnChunk
      <4>3. /\ c <= Len(resp.sizes) /\ readLen <= resp.sizes[c]
            /\ count = Upto(resp.sizes, c) - readLen
            /\ At(Before(resp, c + 1) - 1 - readLen)
        BY <1>1, <4>2 DEF InChunk
      <4>4. PICK j \in Nat : j = Before(resp, c + 1) - 1 - readLen
        <5>1. Len(resp.sizes) \in Nat
          BY <1>3, BeforeIs
        <5>2. c \in 1..Len(resp.sizes) /\ c \in 1..Len(resp.sizes) + 1
          BY <4>3, <5>1
        <5>3. /\ Before(resp, c) \in Nat /\ resp.sizes[c] \in Nat
              /\ Before(resp, c + 1) = Before(resp, c) + resp.sizes[c] + 3
          BY <1>3, <5>2, BeforeIs
        <5>4. readLen <= resp.sizes[c]
          BY <4>3
        <5>5. readLen \in Nat
          BY <1>1
        <5>6. Before(resp, c + 1) - 1 - readLen \in Nat
          BY ONLY <5>3, <5>4, <5>5, Behind
        <5> QED BY <5>6
      <4>5. At(j)'
        BY <1>5, <2>1, <4>3, <4>4
      <4>6. Before(resp, c + 1)' - 1 - readLen' = j
        BY <1>3, <2>1, <4>4
      <4>7. At(Before(resp, c + 1) - 1 - readLen)'
        BY <4>5, <4>6 DEF At
      <4>8. InChunk(c)'
        BY <1>3, <2>1, <4>2, <4>3, <4>7 DEF InChunk
      <4>9. OnChunk'
        BY <1>3, <2>1, <3>1, <4>1, <4>2, <4>8 DEF OnChunk
      <4> QED BY <1>3, <2>1, <3>3, <4>9 DEF OnPlace, Retrieving
    <3> QED BY <3>2, <3>3
  <2>5. stale' => (code' < req' /\ pc' \notin {"first", "status", "header"})
    BY <1>2, <1>3, <2>1 DEF ResponseInv, client
  <2>6. pc' # "done"
    BY <2>1
  <2> QED BY <1>3, <2>2, <2>3, <2>4, <2>5, <2>6, GoesOn
<1> QED BY <1>7, <1>8


LEMMA RestIs ==
  ASSUME NEW d \in Seq(Tokens), NEW n \in 0..Len(d)
  PROVE  Rest(d, n) \in Seq(Tokens) /\ Len(Rest(d, n)) = Len(d) - n
BY DEF Rest

LEMMA ChunkEndStep ==
  ASSUME ResponseInv, ChunkEnd
  PROVE  ResponseInv'
<1>1. /\ ClientTypes /\ InHand /\ pc = "end" /\ Len(buffer) = count
      /\ Len(data) \in Nat /\ Len(data) <= Chunk /\ Chunk \in Nat \ {0}
  <2>1. ClientTypes /\ InHand /\ pc = "end"
    BY DEF ResponseInv, ChunkEnd
  <2> QED BY <2>1, ClientSizes DEF ClientTypes, InHand
<1>2. UNCHANGED <<request, peer, client, buffer>>
  BY DEF ChunkEnd
<1>3. /\ stale' = stale /\ Tame' = Tame /\ req' = req /\ sent' = sent /\ resp' = resp
      /\ Overflows' = Overflows /\ Total' = Total /\ Cut' = Cut /\ sent \in Nat
      /\ resp \in Answers /\ req \in Nat /\ Len(Stream(req, resp)) \in Nat
      /\ sent <= Len(Stream(req, resp))
      /\ StreamTold(Stream(req, resp), req, resp)
  BY <1>1, <1>2, SameResponse
<1>4. PICK k \in 0..Chunk, r \in {"ok", "conn"} :
        /\ IF data = <<>> THEN httpc_recv(1, Chunk, k, r)
           ELSE k = 0 /\ r = "ok" /\ UNCHANGED wire
        /\ LET d == data \o Came(k)
           IN IF r = "conn" THEN Return(r, <<>>)
              ELSE IF d # <<>> /\ d[1] = Crlf
                THEN Go("size", Rest(d, 1)) /\ UNCHANGED <<count, readLen>>
              ELSE Return("prtcl", <<>>)
  BY DEF ChunkEnd
<1> DEFINE d == data \o Came(k)
<1>5. /\ d \in Seq(Tokens) /\ Len(d) \in Nat /\ Len(d) <= Chunk /\ wire' \in Seq(Tokens)
      /\ r = "conn" => peer = "reset"
      /\ r = "ok" /\ d = <<>> => peer = "closed" /\ wire = <<>> /\ data = <<>>
      /\ \A j \in Nat : At(j) => Holds(Stream(req, resp), sent, j, d, wire', peer)
  <2>1. CASE data = <<>>
    <3>1. httpc_recv(1, Chunk, k, r) /\ Chunk \in Int
      BY <1>1, <1>4, <2>1
    <3>2. ClientTypes
      BY <1>1
    <3>3. /\ wire' = SubSeq(wire, k + 1, Len(wire)) /\ k \in 0..Len(wire)
          /\ (r = "conn" => peer = "reset")
          /\ (r = "ok" /\ ~(k >= 1) => peer = "closed" /\ k = Len(wire))
      BY <3>1 DEF httpc_recv
    <3>4. wire \in Seq(Tokens) /\ Len(wire) \in Nat /\ data \in Seq(Tokens)
      BY <3>2 DEF ClientTypes
    <3>5. Came(k) \in Seq(Tokens) /\ Len(Came(k)) = k /\ wire' \in Seq(Tokens)
          /\ d = Came(k)
      BY <2>1, <3>3, <3>4 DEF Came
    <3>6. ASSUME NEW j \in Nat, At(j)
          PROVE  Holds(Stream(req, resp), sent, j, d, wire', peer)
      <4>1. Holds(Stream(req, resp), sent, j, data, wire, peer)
        BY <3>6 DEF At
      <4>2. Holds(Stream(req, resp), sent, j, data \o SubSeq(wire, 1, k),
                  SubSeq(wire, k + 1, Len(wire)), peer)
        BY <1>3, <3>3, <3>4, <4>1, HoldsTaken
      <4> QED BY <3>3, <4>2 DEF Came
    <3>7. r = "ok" /\ d = <<>> => peer = "closed" /\ wire = <<>>
      <4>1. ASSUME r = "ok", d = <<>> PROVE peer = "closed" /\ wire = <<>>
        <5>1. k = 0
          BY <3>5, <4>1
        <5>2. peer = "closed" /\ Len(wire) = 0
          BY <3>3, <4>1, <5>1
        <5> QED BY <3>4, <5>2
      <4> QED BY <4>1
    <3>8. d \in Seq(Tokens) /\ Len(d) = k /\ k \in Nat /\ k <= Chunk
      BY <1>1, <3>5
    <3> HIDE DEF At, Holds, d
    <3> QED BY <2>1, <3>3, <3>5, <3>6, <3>7, <3>8
  <2>2. CASE data # <<>>
    <3>1. k = 0 /\ r = "ok" /\ wire' = wire /\ data \in Seq(Tokens) /\ wire \in Seq(Tokens)
      BY <1>1, <1>4, <2>2 DEF ClientTypes
    <3>2. d = data
      BY <3>1 DEF Came
    <3> HIDE DEF d
    <3> QED BY <1>1, <2>2, <3>1, <3>2 DEF At
  <2> QED BY <2>1, <2>2
<1>6. /\ r = "conn" => Return(r, <<>>)
      /\ r = "ok" /\ d # <<>> /\ d[1] = Crlf =>
           Go("size", Rest(d, 1)) /\ UNCHANGED <<count, readLen>>
      /\ r = "ok" /\ ~(d # <<>> /\ d[1] = Crlf) => Return("prtcl", <<>>)
  BY <1>4
<1> HIDE DEF d
<1>7. ASSUME Tame
      PROVE  /\ resp.framing = "chunked" /\ OnChunk
             /\ \E c \in 1..Len(resp.sizes), j \in Nat :
                  /\ count = Upto(resp.sizes, c) /\ c + 1 \in 1..Len(resp.sizes) + 1
                  /\ c + 1 - 1 = c
                  /\ j = Before(resp, c + 1) - 1 /\ At(j)
                  /\ Stream(req, resp)[j + 1] = Crlf /\ j < Len(Stream(req, resp))
  <2>1. resp.framing = "chunked" /\ OnChunk
    BY <1>1, <1>7 DEF ResponseInv, OnPlace, OnBody, Retrieving
  <2>2. PICK c \in 1..Len(resp.sizes) + 1 : InChunk(c)
    BY <2>1 DEF OnChunk
  <2>3. c <= Len(resp.sizes) /\ count = Upto(resp.sizes, c) /\ At(Before(resp, c + 1) - 1)
    BY <1>1, <2>2 DEF InChunk
  <2>4. Len(resp.sizes) \in Nat
    BY <1>3, BeforeIs
  <2>5. c \in 1..Len(resp.sizes) /\ c + 1 \in 1..Len(resp.sizes) + 1
        /\ c \in 1..Len(resp.sizes) + 1 /\ c + 1 - 1 = c
        /\ Len(resp.sizes) + 1 \in 1..Len(resp.sizes) + 1
    BY <2>3, <2>4
  <2>6. /\ Before(resp, c) \in Nat /\ resp.sizes[c] \in Nat
        /\ Before(resp, c + 1) = Before(resp, c) + resp.sizes[c] + 3
        /\ Before(resp, c + 1) <= Before(resp, Len(resp.sizes) + 1)
        /\ Before(resp, Len(resp.sizes) + 1) \in Nat
    BY <1>3, <2>5, BeforeIs
  <2>7. /\ Stream(req, resp)[Before(resp, c) + 2 + resp.sizes[c] + 1] = Crlf
        /\ Len(Stream(req, resp)) = Before(resp, Len(resp.sizes) + 1) + 3
    BY <1>3, <2>1, <2>5 DEF StreamTold
  <2>8. PICK j \in Nat : j = Before(resp, c + 1) - 1
    BY <2>6, SMTT(30)
  <2>9. j + 1 = Before(resp, c) + 2 + resp.sizes[c] + 1 /\ j < Len(Stream(req, resp))
    <3> DEFINE b == Before(resp, c)
               s == resp.sizes[c]
               e == Before(resp, c + 1)
               z == Before(resp, Len(resp.sizes) + 1)
               t == Len(Stream(req, resp))
    <3>1. /\ b \in Nat /\ s \in Nat /\ e = b + s + 3 /\ e <= z /\ z \in Nat
          /\ t = z + 3 /\ j = e - 1
      BY ONLY <2>6, <2>7, <2>8
    <3> HIDE DEF b, s, e, z, t
    <3>2. j + 1 = b + 2 + s + 1 /\ j < t
      BY ONLY <3>1
    <3> QED BY <3>2 DEF b, s, t
  <2>10. At(j) /\ Stream(req, resp)[j + 1] = Crlf
    BY <2>3, <2>7, <2>8, <2>9
  <2> QED BY <2>1, <2>3, <2>5, <2>8, <2>9, <2>10
<1>8. ASSUME Return("conn", <<>>) \/ Return("prtcl", <<>>),
             ErrorsHaveAReason'
      PROVE  ResponseInv'
  <2>1. /\ pc' = "done" /\ result' \in {"conn", "prtcl"} /\ delivered' = delivered
        /\ data' = <<>> /\ UNCHANGED <<count, readLen>>
    BY <1>8 DEF Return
  <2>2. ClientTypes'
    <3>1. <<>> \in Seq(Tokens)
      OBVIOUS
    <3> QED BY <1>1, <1>2, <1>5, <2>1, <3>1 DEF ClientTypes, ClientPlaces, request, client
  <2>3. Len(data') <= Chunk
    BY <2>1, ClientSizes
  <2>4. code' = code
    BY <1>2 DEF client
  <2> QED BY <1>1, <1>2, <1>8, <2>1, <2>2, <2>3, <2>4, Refused
<1>9. CASE r = "conn"
  <2>1. ErrorsHaveAReason'
    BY <1>2, <1>5, <1>9 DEF ErrorsHaveAReason
  <2> QED BY <1>6, <1>8, <1>9, <2>1
<1>10. CASE r = "ok" /\ ~(d # <<>> /\ d[1] = Crlf)
  <2>1. Return("prtcl", <<>>)
    BY <1>6, <1>10
  <2>2. Tame => resp.framing = "chunked" /\ Cut
    <3> SUFFICES ASSUME Tame PROVE resp.framing = "chunked" /\ Cut
      OBVIOUS
    <3>1. PICK c, j \in Nat :
            At(j) /\ Stream(req, resp)[j + 1] = Crlf /\ j < Len(Stream(req, resp))
      BY <1>7
    <3>2. Holds(Stream(req, resp), sent, j, d, wire', peer)
      BY <1>5, <3>1
    <3>3. d = <<>>
      <4> SUFFICES ASSUME d # <<>> PROVE FALSE
        OBVIOUS
      <4>1. 1 \in 1..Len(d)
        BY <1>5
      <4>2. d[1] = Stream(req, resp)[j + 1]
        BY <3>2, <4>1 DEF Holds
      <4> QED BY <1>10, <3>1, <4>2
    <3>4. peer # "reset" /\ Len(wire) = 0 /\ Len(data) = 0
      BY <1>5, <1>10, <3>3
    <3>5. sent = j
      BY <3>1, <3>4 DEF At, Holds
    <3>6. sent < Len(Stream(req, resp))
      BY <3>1, <3>5
    <3> QED BY <1>7, <3>6 DEF Cut
  <2>3. stale => code # req
    BY <1>1 DEF ResponseInv, ClientTypes
  <2>4. ErrorsHaveAReason'
    <3>1. result' = "prtcl" /\ code' = code
      BY <1>2, <2>1 DEF Return, client
    <3> QED BY <1>3, <2>2, <2>3, <3>1 DEF ErrorsHaveAReason, Tame
  <2> QED BY <1>8, <1>10, <2>1, <2>4
<1>11. CASE r = "ok" /\ d # <<>> /\ d[1] = Crlf
  <2>1. /\ pc' = "size" /\ data' = Rest(d, 1)
        /\ UNCHANGED <<count, readLen, result, delivered>>
    BY <1>6, <1>11 DEF Go
  <2>2. 1 \in 0..Len(d)
    BY <1>5, <1>11
  <2>3. data' \in Seq(Tokens) /\ Len(data') = Len(d) - 1
    <3>1. d \in Seq(Tokens) /\ 1 \in 0..Len(d)
      BY <1>5, <2>2
    <3>2. Rest(d, 1) \in Seq(Tokens) /\ Len(Rest(d, 1)) = Len(d) - 1
      BY <3>1, RestIs
    <3> QED BY <2>1, <3>2
  <2>4. ClientTypes'
    BY <1>1, <1>2, <1>5, <2>1, <2>3
       DEF ClientTypes, ClientPlaces, Retrieving, request, client
  <2>5. InHand'
    <3>1. Len(data') <= Chunk /\ Len(buffer') = count'
      BY <1>1, <1>2, <1>5, <2>1, <2>3
    <3> QED BY <2>1, <3>1 DEF InHand, Retrieving
  <2>6. ASSUME Tame PROVE OnPlace'
    <3>1. PICK c \in 1..Len(resp.sizes), j \in Nat :
            /\ count = Upto(resp.sizes, c) /\ c + 1 \in 1..Len(resp.sizes) + 1
            /\ c + 1 - 1 = c /\ j = Before(resp, c + 1) - 1 /\ At(j)
      BY <1>7, <2>6
    <3>2. Holds(Stream(req, resp), sent, j, d, wire', peer)
      BY <1>5, <3>1
    <3>3. PICK l \in Nat : l = j + 1
      OBVIOUS
    <3>4. Holds(Stream(req, resp), sent, l, data', wire', peer)
      BY <1>3, <1>5, <2>1, <2>2, <3>2, <3>3, HoldsDropped
    <3>5. At(l)'
      BY <1>2, <1>3, <3>4 DEF At
    <3>6. Before(resp, c + 1) \in Nat
      BY <1>3, <3>1, BeforeIs
    <3>7. Before(resp, c + 1)' = l
      BY <1>3, <3>1, <3>3, <3>6, SMTT(30)
    <3>8. PICK b \in 1..Len(resp.sizes) + 1 : b = c + 1 /\ b - 1 = c
      BY <3>1
    <3>9. At(Before(resp, b))'
      BY <3>5, <3>7, <3>8 DEF At
    <3>10. InChunk(b)' /\ b \in 1..Len(resp'.sizes) + 1
      BY <1>3, <2>1, <3>1, <3>8, <3>9 DEF InChunk
    <3>11. Answering' /\ Piece' /\ delivered' = <<>>
      BY <1>2, <1>3, <1>7, <2>1, <2>6 DEF OnChunk, Answering, Framed, Piece, client
    <3>12. OnChunk'
      BY <2>1, <3>10, <3>11 DEF OnChunk
    <3> QED BY <1>3, <1>7, <2>1, <2>6, <3>12 DEF OnPlace, Retrieving
  <2>7. stale' => (code' < req' /\ pc' \notin {"first", "status", "header"})
    BY <1>2, <1>3, <2>1 DEF ResponseInv, client
  <2> QED BY <1>3, <2>1, <2>4, <2>5, <2>6, <2>7, GoesOn
<1> QED BY <1>9, <1>10, <1>11


(* What is lost by a reset, and what the caller does.                      *)
LEMMA ResetStep ==
  ASSUME ResponseInv, Reset
  PROVE  ResponseInv'
<1>1. /\ ClientTypes /\ InHand /\ pc \in {"first", "header", "wait", "size", "body", "end"}
      /\ peer' = "reset" /\ wire' = <<>>
      /\ UNCHANGED <<request, client, buffer, pc, local, result, delivered>>
  BY DEF ResponseInv, Reset
<1>2. /\ stale' = stale /\ Tame' = Tame /\ req' = req /\ sent' = sent /\ resp' = resp
      /\ Total' = Total /\ sent \in Nat /\ resp \in Answers
      /\ Stream(req, resp)' = Stream(req, resp) /\ HeaderLen(resp) \in {5, 7}
  BY <1>1, SameResponse
<1>3. ASSUME NEW j \in Nat, At(j) PROVE At(j)'
  <2>1. Holds(Stream(req, resp), sent, j, data, wire, peer)
    BY <1>3 DEF At
  <2>2. data \in Seq(Tokens) /\ wire \in Seq(Tokens)
    BY <1>1 DEF ClientTypes
  <2>3. Holds(Stream(req, resp), sent, j, data, <<>>, "reset")
    BY <1>2, <2>1, <2>2, HoldsReset
  <2> QED BY <1>1, <1>2, <2>3 DEF At, local
<1>4. ClientTypes'
  BY <1>1 DEF ClientTypes, request, client, local
<1>5. InHand'
  BY <1>1 DEF InHand, client, local
<1>6. ASSUME Tame PROVE OnPlace'
  <2>1. CASE pc = "first"
    <3>1. OnFirst'
      BY <1>1, <1>2, <1>3, <1>6, <2>1 DEF ResponseInv, OnPlace, OnFirst, client
    <3> QED BY <1>1, <2>1, <3>1 DEF OnPlace, Retrieving
  <2>2. CASE pc = "header"
    <3>1. OnHeader
      BY <1>6, <2>2 DEF ResponseInv, OnPlace
    <3>2. PICK k \in {2, 4, 6} : InHeader(k)
      BY <3>1 DEF OnHeader
    <3>3. InHeader(k)'
      BY <1>1, <1>2, <1>3, <3>2 DEF InHeader, Framed, client
    <3>4. OnHeader'
      BY <1>1, <1>2, <3>1, <3>3 DEF OnHeader, client
    <3> QED BY <1>1, <2>2, <3>4 DEF OnPlace, Retrieving
  <2>3. CASE pc \in {"wait", "size", "body", "end"} /\ resp.framing # "chunked"
    <3>1. OnBody
      BY <1>6, <2>3 DEF ResponseInv, OnPlace, Retrieving
    <3>2. PICK j \in Nat : j = HeaderLen(resp) + Len(delivered) + count
      BY <1>1, <1>2, ClientSizes DEF ClientTypes
    <3>3. At(j)'
      BY <1>3, <3>1, <3>2 DEF OnBody
    <3>4. HeaderLen(resp)' + Len(delivered)' + count' = j
      BY <1>1, <1>2, <3>2 DEF local
    <3>5. At(HeaderLen(resp) + Len(delivered) + count)'
      BY <3>3, <3>4 DEF At
    <3>6. OnBody'
      BY <1>1, <1>2, <3>1, <3>5
         DEF OnBody, Answering, Framed, Given, Piece, client, local
    <3> QED BY <1>1, <1>2, <2>3, <3>6 DEF OnPlace, Retrieving
  <2>4. CASE pc \in {"wait", "size", "body", "end"} /\ resp.framing = "chunked"
    <3>1. OnChunk
      BY <1>6, <2>4 DEF ResponseInv, OnPlace, Retrieving
    <3>2. PICK c \in 1..Len(resp.sizes) + 1 : InChunk(c)
      BY <3>1 DEF OnChunk
    <3>3. Len(resp.sizes) \in Nat
      BY <1>2, BeforeIs
    <3>4. pc = "size" => At(Before(resp, c))'
      <4>1. ASSUME pc = "size" PROVE At(Before(resp, c))'
        <5>1. PICK j \in Nat : j = Before(resp, c)
          BY <1>2, BeforeIs
        <5>2. At(j)'
          BY <1>3, <3>2, <4>1, <5>1 DEF InChunk
        <5>3. Before(resp, c)' = j
          BY <1>2, <5>1
        <5> QED BY <5>2, <5>3 DEF At
      <4> QED BY <4>1
    <3>5. ASSUME pc # "size"
          PROVE  /\ c \in 1..Len(resp.sizes) /\ resp.sizes[c] \in Nat
                 /\ Before(resp, c) \in Nat
                 /\ Before(resp, c + 1) = Before(resp, c) + resp.sizes[c] + 3
      <4>1. c \in 1..Len(resp.sizes)
        BY <3>2, <3>3, <3>5 DEF InChunk
      <4> QED BY <1>2, <4>1, BeforeIs
    <3>6. pc = "body" => At(Before(resp, c + 1) - 1 - readLen)'
      <4>1. ASSUME pc = "body" PROVE At(Before(resp, c + 1) - 1 - readLen)'
        <5>1. /\ readLen <= resp.sizes[c] /\ readLen \in Nat
              /\ At(Before(resp, c + 1) - 1 - readLen)
          BY <1>1, <3>2, <4>1 DEF InChunk, ClientTypes
        <5>2. readLen <= resp.sizes[c]
          BY <5>1
        <5>3. PICK j \in Nat : j = Before(resp, c + 1) - 1 - readLen
          <6>1. readLen \in Nat
            BY <5>1
          <6> QED BY <3>5, <4>1, <5>2, <6>1, SMTT(30)
        <5>4. At(j)'
          BY <1>3, <5>1, <5>3
        <5>5. Before(resp, c + 1)' - 1 - readLen' = j
          BY <1>1, <1>2, <5>3 DEF local
        <5> QED BY <5>4, <5>5 DEF At
      <4> QED BY <4>1
    <3>7. pc = "end" => At(Before(resp, c + 1) - 1)'
      <4>1. ASSUME pc = "end" PROVE At(Before(resp, c + 1) - 1)'
        <5>1. At(Before(resp, c + 1) - 1)
          BY <3>2, <4>1 DEF InChunk
        <5>2. PICK j \in Nat : j = Before(resp, c + 1) - 1
          BY <3>5, <4>1
        <5>3. At(j)'
          BY <1>3, <5>1, <5>2
        <5>4. Before(resp, c + 1)' - 1 = j
          BY <1>2, <5>2
        <5> QED BY <5>3, <5>4 DEF At
      <4> QED BY <4>1
    <3>8. InChunk(c)' /\ c \in 1..Len(resp'.sizes) + 1
      BY <1>1, <1>2, <2>4, <3>2, <3>4, <3>6, <3>7 DEF InChunk, local
    <3>9. OnChunk'
      BY <1>1, <1>2, <3>1, <3>8 DEF OnChunk, Answering, Framed, Piece, client, local
    <3> QED BY <1>1, <1>2, <2>4, <3>9 DEF OnPlace, Retrieving
  <2> QED BY <1>1, <2>1, <2>2, <2>3, <2>4
<1>7. stale' => (code' < req' /\ pc' \notin {"first", "status", "header"})
  BY <1>1, <1>2 DEF ResponseInv, client
<1>8. pc' # "done"
  BY <1>1
<1> QED BY <1>2, <1>4, <1>5, <1>6, <1>7, <1>8, GoesOn

LEMMA AgainStep ==
  ASSUME ResponseInv, Again
  PROVE  ResponseInv'
<1>1. /\ ClientTypes /\ InHand /\ pc = "done" /\ result = "more" /\ code = req
      /\ pc' = Begin(is_more) /\ data = <<>>
      /\ UNCHANGED <<request, peer, wire, client, buffer, local, result, delivered>>
  BY DEF ResponseInv, InHand, Again
<1>2. /\ stale' = stale /\ Tame' = Tame /\ req' = req /\ sent' = sent /\ resp' = resp
      /\ Total' = Total /\ Stream(req, resp)' = Stream(req, resp)
  BY <1>1, SameResponse
<1>3. pc' \in {"first", "continue"}
  BY <1>1 DEF Begin
<1>4. ~stale
  BY <1>1 DEF ResponseInv, ClientTypes
<1>5. ClientTypes'
  BY <1>1, <1>3 DEF ClientTypes, ClientPlaces, request, client, local
<1>6. InHand'
  BY <1>1, <1>3 DEF InHand, Retrieving, local
<1>7. ASSUME Tame PROVE OnPlace'
  <2>1. OnContinue
    BY <1>1, <1>7 DEF ResponseInv, OnPlace
  <2>2. pc' = "continue"
    BY <1>1, <2>1 DEF OnContinue, Answering, Begin
  <2>3. OnContinue'
    BY <1>1, <1>2, <2>1 DEF OnContinue, Answering, Framed, Given, At, HeaderLen,
                            client, local
  <2> QED BY <2>2, <2>3 DEF OnPlace, Retrieving
<1> QED BY <1>2, <1>3, <1>4, <1>5, <1>6, <1>7, GoesOn

(* The caller has done with the client.                                    *)
LEMMA CloseSteps ==
  ASSUME ResponseInv, httpc_close \/ ota_http_deinit_params
  PROVE  ResponseInv'
<1>1. /\ ClientTypes /\ InHand /\ pc = "done" /\ pc' = "idle" /\ data = <<>>
      /\ UNCHANGED <<req, resp, sent, stale, peer, wire, client, buffer, local, result,
                     delivered>>
  BY DEF ResponseInv, InHand, httpc_close, ota_http_deinit_params
<1>2. Tame' = Tame /\ Total' = Total
  BY <1>1 DEF Tame, Overflows, Total
<1>3. ClientTypes'
  BY <1>1 DEF ClientTypes, ClientPlaces, client, local
<1>4. InHand'
  BY <1>1 DEF InHand, Retrieving, local
<1>5. ASSUME Tame PROVE OnPlace'
  <2>1. OnDone
    BY <1>1, <1>5 DEF ResponseInv, OnPlace
  <2>2. OnDone'
    BY <1>1, <1>2, <2>1 DEF OnDone, Given
  <2> QED BY <1>1, <2>2 DEF OnPlace, Retrieving
<1>6. stale' => (code' < req' /\ pc' \notin {"first", "status", "header"})
  BY <1>1 DEF ResponseInv, client
<1> QED BY <1>1, <1>2, <1>3, <1>4, <1>5, <1>6, GoesOn

(* A request.                                                              *)
LEMMA Asked ==
  ASSUME ClientTypes, NEW u, NEW new \in BOOLEAN, Ask(u, new)
  PROVE  /\ req' \in Nat /\ code' \in 0..req' /\ code' < req'
         /\ delivered' = <<>> /\ data' = <<>> /\ count' = 0 /\ readLen' = 0
         /\ is_more' \in BOOLEAN /\ is_chunked' \in BOOLEAN /\ stale' \in BOOLEAN
         /\ retrieve_len' \in Nat /\ response_content_len' \in Int
         /\ buffer' \in Seq(Tokens)
         /\ stale' => is_more'
         /\ ~stale' => ~is_more'
<1>1. /\ req' = req + 1 /\ delivered' = <<>> /\ data' = <<>> /\ count' = 0 /\ readLen' = 0
      /\ req \in Nat /\ code \in 0..req /\ is_more \in BOOLEAN /\ is_chunked \in BOOLEAN
      /\ retrieve_len \in Nat /\ response_content_len \in Int /\ buffer \in Seq(Tokens)
      /\ stale' = (is_more /\ ~new)
  BY DEF Ask, ClientTypes
<1>2. CASE new
  <2>1. /\ is_more' = FALSE /\ is_chunked' = FALSE /\ code' = 0 /\ stale' = FALSE
        /\ retrieve_len' = 0 /\ response_content_len' = 0 /\ buffer' = <<>>
    BY <1>1, <1>2 DEF Ask
  <2>2. buffer' \in Seq(Tokens)
    BY <2>1
  <2>3. /\ is_more' \in BOOLEAN /\ is_chunked' \in BOOLEAN /\ stale' \in BOOLEAN
        /\ ~stale' /\ ~is_more'
    BY ONLY <2>1, Zenon
  <2>4. /\ req' \in Nat /\ code' \in 0..req' /\ code' < req' /\ retrieve_len' \in Nat
        /\ response_content_len' \in Int /\ count' = 0 /\ readLen' = 0
        /\ delivered' = <<>> /\ data' = <<>>
    BY ONLY <1>1, <2>1
  <2> QED BY ONLY <2>2, <2>3, <2>4, Zenon
<1>3. CASE ~new
  <2>1. UNCHANGED <<client, buffer>>
    BY <1>3 DEF Ask
  <2>2. is_more' = is_more /\ is_chunked' = is_chunked
        /\ (stale' => is_more') /\ (~stale' => ~is_more') /\ stale' \in BOOLEAN
    BY <1>1, <1>3, <2>1, Zenon DEF client
  <2> QED BY <1>1, <2>1, <2>2 DEF client
<1> QED BY <1>2, <1>3

LEMMA RequestMade ==
  ASSUME ResponseInv, NEW u, NEW new \in BOOLEAN, NEW a \in Responses, Request(u, new, a)
  PROVE  ResponseInv'
<1>1. /\ req' \in Nat /\ code' \in 0..req' /\ code' < req'
      /\ delivered' = <<>> /\ data' = <<>> /\ count' = 0 /\ readLen' = 0
      /\ is_more' \in BOOLEAN /\ is_chunked' \in BOOLEAN /\ stale' \in BOOLEAN
      /\ retrieve_len' \in Nat /\ response_content_len' \in Int
      /\ buffer' \in Seq(Tokens) /\ (stale' => is_more') /\ (~stale' => ~is_more')
  BY Asked DEF ResponseInv, Request
<1>2. a \in Answers
  BY ClientSizes
<1>3. PICK s \in Seq(Tokens) : s = Stream(req', a)
  BY <1>1, <1>2, StreamIs DEF StreamTold
<1>4. PICK t \in 0..Len(s) :
        /\ sent' = t /\ wire' = SubSeq(s, 1, t)
        /\ peer' \in IF t = Len(s) THEN {"open", "closed"} ELSE {"closed"}
  BY <1>3 DEF Request
<1>5. resp' = a /\ pc' = Begin(is_more') /\ result' = "ok"
  BY DEF Request
<1>6. pc' = (IF is_more' THEN "continue" ELSE "first")
  BY <1>5 DEF Begin
<1>7. wire' \in Seq(Tokens) /\ Len(wire') = t /\ t \in Nat /\ \A i \in 1..t : wire'[i] = s[i]
  BY <1>4
<1>8. peer' \in {"open", "closed", "reset"}
  BY <1>4
<1>9. /\ <<>> \in Seq(Tokens) /\ Len(<<>>) = 0 /\ 0 <= Chunk /\ 0 \in 0..Room - 1
      /\ sent' \in 0..Len(Stream(req', resp'))
  BY <1>3, <1>4, <1>5, ClientSizes
<1>10. ClientTypes'
  <2>1. pc' \in ClientPlaces
    BY <1>6 DEF ClientPlaces
  <2> QED BY ONLY <1>1, <1>2, <1>5, <1>7, <1>8, <1>9, <2>1 DEF ClientTypes
<1>11. InHand'
  BY <1>1, <1>6, <1>9 DEF InHand, Retrieving
<1>12. ASSUME Tame' PROVE OnPlace'
  <2>1. pc' = "first"
    BY <1>1, <1>6, <1>12 DEF Tame
  <2>2. At(0)'
    <3>1. Holds(s, t, 0, <<>>, wire', peer')
      BY <1>7, <1>9 DEF Holds
    <3> QED BY <1>1, <1>3, <1>4, <1>5, <3>1 DEF At
  <2>3. OnFirst'
    BY <1>1, <2>2 DEF OnFirst
  <2> QED BY <2>1, <2>3 DEF OnPlace, Retrieving
<1>13. stale' => (code' < req' /\ pc' \notin {"first", "status", "header"})
  BY <1>1, <1>6
<1>14. pc' # "done"
  BY <1>6
<1> QED BY <1>10, <1>11, <1>12, <1>13, <1>14, GoesOn

LEMMA NoResponseIs ==
  ASSUME NEW r \in Nat
  PROVE  NoResponse \in Answers /\ 0 \in 0..Len(Stream(r, NoResponse))
<1>1. NoResponse \in Answers
  BY DEF NoResponse, Answers
<1>2. Stream(r, NoResponse) \in Seq(Tokens)
  BY <1>1, StreamIs DEF StreamTold
<1> QED BY <1>1, <1>2

LEMMA RequestFailed ==
  ASSUME ResponseInv, NEW u, NEW new \in BOOLEAN, RequestFails(u, new)
  PROVE  ResponseInv'
<1>1. /\ req' \in Nat /\ code' \in 0..req' /\ code' < req'
      /\ delivered' = <<>> /\ data' = <<>> /\ count' = 0 /\ readLen' = 0
      /\ is_more' \in BOOLEAN /\ is_chunked' \in BOOLEAN /\ stale' \in BOOLEAN
      /\ retrieve_len' \in Nat /\ response_content_len' \in Int
      /\ buffer' \in Seq(Tokens)
  BY Asked DEF ResponseInv, RequestFails
<1>2. /\ resp' = NoResponse /\ sent' = 0 /\ wire' = <<>> /\ peer' = "reset"
      /\ pc' = "done" /\ result' = "conn"
  BY DEF RequestFails
<1>3. /\ <<>> \in Seq(Tokens) /\ Len(<<>>) = 0 /\ 0 <= Chunk /\ 0 \in 0..Room - 1
      /\ resp' \in Answers /\ sent' \in 0..Len(Stream(req', resp'))
  BY <1>1, <1>2, NoResponseIs, ClientSizes
<1>4. ClientTypes'
  <2>1. pc' \in ClientPlaces
    BY <1>2 DEF ClientPlaces
  <2> QED BY ONLY <1>1, <1>2, <1>3, <2>1 DEF ClientTypes
<1>5. InHand'
  BY <1>1, <1>2, <1>3 DEF InHand, Retrieving
<1>6. OnPlace' /\ OkMeansWhole' /\ ErrorsHaveAReason'
  BY <1>2 DEF OnPlace, OnDone, Retrieving, OkMeansWhole, ErrorsHaveAReason
<1>7. stale' => (code' < req' /\ pc' \notin {"first", "status", "header"})
  BY <1>1, <1>2
<1> QED BY <1>4, <1>5, <1>6, <1>7 DEF ResponseInv

-----------------------------------------------------------------------------
LEMMA InitResponse == Init => ResponseInv
<1> SUFFICES ASSUME Init PROVE ResponseInv
  OBVIOUS
<1>1. /\ req = 0 /\ resp = NoResponse /\ sent = 0 /\ peer = "closed" /\ wire = <<>>
      /\ is_more = FALSE /\ is_chunked = FALSE /\ stale = FALSE
      /\ retrieve_len = 0 /\ response_content_len = 0 /\ code = 0
      /\ buffer = <<>> /\ pc = "idle" /\ data = <<>> /\ count = 0 /\ readLen = 0
      /\ result = "ok" /\ delivered = <<>>
  BY DEF Init
<1>2. /\ <<>> \in Seq(Tokens) /\ Len(<<>>) = 0 /\ 0 <= Chunk /\ 0 \in 0..Room - 1
      /\ resp \in Answers /\ sent \in 0..Len(Stream(req, resp))
  BY <1>1, NoResponseIs, ClientSizes
<1>3. ClientTypes
  <2>1. is_more \in BOOLEAN /\ is_chunked \in BOOLEAN /\ stale \in BOOLEAN
    BY ONLY <1>1, Zenon
  <2>2. /\ req \in Nat /\ retrieve_len \in Nat /\ readLen \in Nat
        /\ response_content_len \in Int /\ code \in 0..req /\ count \in 0..Room - 1
    BY ONLY <1>1, <1>2
  <2>3. /\ wire \in Seq(Tokens) /\ data \in Seq(Tokens) /\ buffer \in Seq(Tokens)
        /\ delivered \in Seq(Tokens) /\ peer \in {"open", "closed", "reset"}
        /\ pc \in ClientPlaces /\ result \in {"ok", "more", "conn", "prtcl", "xx"}
    BY ONLY <1>1, <1>2 DEF ClientPlaces
  <2> QED BY <1>2, <2>1, <2>2, <2>3 DEF ClientTypes
<1>4. InHand
  BY <1>1, <1>2 DEF InHand, Retrieving
<1>5. OnPlace
  BY <1>1 DEF OnPlace, OnDone, Retrieving
<1> QED BY <1>1, <1>3, <1>4, <1>5 DEF ResponseInv, OkMeansWhole, ErrorsHaveAReason

LEMMA StepResponse == ResponseInv /\ [Next]_vars => ResponseInv'
<1> SUFFICES ASSUME ResponseInv, [Next]_vars PROVE ResponseInv'
  OBVIOUS
<1>1. ASSUME NEW u \in {"common", "ota"}, NEW new \in BOOLEAN, RequestFails(u, new)
      PROVE  ResponseInv'
  BY <1>1, RequestFailed
<1>2. ASSUME NEW u \in {"common", "ota"}, NEW new \in BOOLEAN, NEW a \in Responses,
             Request(u, new, a)
      PROVE  ResponseInv'
  BY <1>2, RequestMade
<1>3. CASE Reset
  BY <1>3, ResetStep
<1>4. CASE Receive
  <2>1. CASE First \/ Continue \/ Status
    BY <2>1, FirstStep, ContinueStep, StatusStep
  <2>2. CASE HeaderReceive \/ HeaderEnd \/ HeaderLine
    BY <2>2, HeaderReceiveStep, HeaderEndStep, HeaderLineStep
  <2>3. CASE RawCopy \/ RawReceive \/ SizePoll \/ SizeRead
    BY <2>3, RawCopyStep, RawReceiveStep, SizePollStep, SizeReadStep
  <2>4. CASE CopyPart \/ BodyReceive \/ ChunkEnd
    BY <2>4, CopyPartStep, BodyReceiveStep, ChunkEndStep
  <2> QED BY <1>4, <2>1, <2>2, <2>3, <2>4 DEF Receive
<1>5. CASE Again \/ httpc_close \/ ota_http_deinit_params
  BY <1>5, AgainStep, CloseSteps, SMTT(30)
<1>6. CASE UNCHANGED vars
  BY <1>6 DEF vars, request, client, local, ResponseInv, ClientTypes, InHand, Tame,
              Overflows, Total, OnPlace, OnFirst, OnHeader, InHeader, OnContinue, OnBody,
              OnChunk, InChunk, OnDone, Answering, Framed, Given, Piece, At,
              OkMeansWhole, ErrorsHaveAReason, Cut
<1> QED BY <1>1, <1>2, <1>3, <1>4, <1>5, <1>6 DEF Next

LEMMA ResponseAlways == Spec => []ResponseInv
<1>1. Init => ResponseInv
  BY InitResponse
<1>2. ResponseInv /\ [Next]_vars => ResponseInv'
  BY StepResponse
<1> QED BY <1>1, <1>2, PTL DEF Spec

LEMMA BeginningOfTheBody == ResponseInv => PiecesAreTheBody
<1> SUFFICES ASSUME ResponseInv, ~stale, ~Overflows, sent # 0,
                    ~(resp.framing = "chunked" /\ Total = 0)
             PROVE  /\ IsPrefix(delivered, Body(req, resp))
                    /\ pc = "done" /\ result = "more" => Len(buffer) = Room
  BY DEF PiecesAreTheBody
<1>1. Tame /\ ClientTypes
  BY DEF Tame, ResponseInv
<1>2. Given /\ (pc = "done" /\ result = "more" => Len(buffer) = Room)
  BY <1>1, GivenSoFar DEF ResponseInv, OnPlace, OnDone
<1>3. /\ Body(req, resp) \in Seq(Tokens) /\ Len(Body(req, resp)) = Total
      /\ \A i \in 1..Total : Body(req, resp)[i] = Byte(req, i)
  BY <1>1, BodyIs DEF ClientTypes, Total
<1>4. delivered \in Seq(Tokens) /\ Len(delivered) <= Len(Body(req, resp))
      /\ \A i \in 1..Len(delivered) : delivered[i] = Body(req, resp)[i]
  BY <1>1, <1>2, <1>3, SMTT(30) DEF Given, ClientTypes
<1> DEFINE b == Body(req, resp)
           d == delivered
<1>5. IsPrefix(d, b)
  <2> HIDE DEF b, d
  <2>1. d \in Seq(Tokens) /\ b \in Seq(Tokens) /\ Len(d) <= Len(b)
        /\ \A i \in 1..Len(d) : d[i] = b[i]
    BY <1>3, <1>4 DEF b, d
  <2>2. SubSeq(b, 1, Len(d)) = d
    BY <2>1
  <2> QED BY <2>1, <2>2 DEF IsPrefix
<1> QED BY <1>2, <1>5

(* PiecesAreTheBody: wherever the network cuts a response, what the caller *)
(* of httpc_recv_response is handed is the beginning of its body, and a    *)
(* piece that says there is more fills the buffer.                         *)
THEOREM PiecesAreTheBeginning == Spec => []PiecesAreTheBody
BY ResponseAlways, BeginningOfTheBody, PTL

(* OkMeansWhole: a response that ends well was read whole.                 *)
THEOREM SuccessIsWhole == Spec => []OkMeansWhole
<1>1. ResponseInv => OkMeansWhole
  BY DEF ResponseInv
<1> QED BY <1>1, ResponseAlways, PTL

(* ErrorsHaveAReason: no response is refused for how the network cut it,   *)
(* but for a first line that did not come whole.                           *)
THEOREM RefusalsHaveAReason == Spec => []ErrorsHaveAReason
<1>1. ResponseInv => ErrorsHaveAReason
  BY DEF ResponseInv
<1> QED BY <1>1, ResponseAlways, PTL

-----------------------------------------------------------------------------
(***************************************************************************)
(* The loop of the update over the client.  Between two of its steps the   *)
(* client keeps what ResponseInv says; what the loop adds is that its own  *)
(* count goes along: what it took the pieces to be is where the client     *)
(* stands in the body.                                                     *)
(***************************************************************************)
GoneWell == pc = "done" /\ result \in {"ok", "more"} /\ code = req

(* With a length: the loop has fed as many bytes as its client had handed  *)
(* over, whole pieces all of them; a first pass is told by 0.              *)
CountKept ==
  /\ fed \in 0..Total /\ total_recv_len = fed /\ fed % Room = 0
  /\ fed > 0 => rsp_content_len = Total
  /\ last_retrieve_len = IF fed = 0 THEN 0 ELSE Total - fed
  /\ pc # "done" => Len(delivered) = fed
  /\ GoneWell =>
       /\ Len(delivered) = fed + Len(buffer)
       /\ \A i \in 1..Len(buffer) : buffer[i] = delivered[fed + i]
       /\ result = "ok" => retrieve_len = 0 /\ Len(buffer) < Room

(* Without one, each pass counts one byte too few.                         *)
NoLength ==
  retrieve_len = 0 /\ last_retrieve_len = 0
    /\ total_recv_len \in Int /\ total_recv_len <= 0

Empty == buffer = <<>> /\ delivered = <<>>

Updating ==
  /\ ~stale
  /\ code = req => sent # 0
  /\ pc # "idle" => received = -1 /\ (pc # "done" \/ code = req => connected)
  /\ GoneWell => Framed
  /\ pc # "idle" /\ resp.framing = "length" => CountKept
  /\ pc # "idle" /\ resp.framing = "close" => NoLength
  /\ resp.framing = "chunked" /\ Total = 0 => Empty

UpdateInv ==
  /\ user = "ota" /\ ~Overflows => Updating
  /\ ReceivedIsAll

(* What a step of a receive tells the loop.                                *)
Told ==
  /\ UNCHANGED request /\ pc' # "idle"
  /\ pc' # "done" => delivered' = delivered
  /\ code' = req => sent # 0
  /\ resp.framing = "close" => retrieve_len' = retrieve_len
  /\ resp.framing = "chunked" /\ Total = 0 =>
       /\ buffer' \in {buffer, <<>>}
       /\ delivered' \in {delivered, delivered \o buffer'}
  /\ GoneWell' =>
       /\ Framed'
       /\ resp.framing = "length" =>
            /\ delivered' = delivered \o buffer'
            /\ result' = "ok" => retrieve_len' = 0 /\ Len(buffer') < Room

LEMMA ToldBeforeHeader ==
  ASSUME ResponseInv, Tame, code = req => sent # 0, First \/ Continue \/ Status
  PROVE  Told
<1>1. ClientTypes /\ InHand /\ OnPlace
  BY DEF ResponseInv
<1>2. CASE First
  <2>1. /\ UNCHANGED <<request, peer, client, buffer>> /\ pc = "first"
        /\ pc' \in {"status", "done"} /\ (pc' # "done" => delivered' = delivered)
        /\ delivered' \in {delivered, delivered \o buffer}
    BY <1>2 DEF First, Return, Go
  <2>2. code < req /\ code' = code /\ req' = req /\ code \in Nat /\ req \in Nat
    BY <1>1, <2>1 DEF OnPlace, OnFirst, client, request, ClientTypes
  <2>3. code' # req /\ ~GoneWell'
    BY <2>2 DEF GoneWell
  <2> QED BY <2>1, <2>3 DEF Told, client
<1>3. CASE Continue
  <2>1. /\ UNCHANGED <<request, peer, wire, client>> /\ delivered' = delivered
        /\ buffer' = <<>> /\ pc' \in {"raw", "size", "copy"}
    BY <1>3 DEF Continue, Go, Begins
  <2> QED BY <2>1 DEF Told, client, GoneWell
<1>4. CASE Status
  <2>1. /\ UNCHANGED <<request, retrieve_len, buffer>> /\ delivered' = delivered
        /\ pc = "status" /\ pc' \in {"header", "done"}
        /\ pc' = "done" => result' = "prtcl"
        /\ code' = code \/ Len(data) >= 2
    BY <1>4 DEF Status, Go, Return
  <2>2. ASSUME Len(data) >= 2 PROVE sent # 0
    <3>1. At(0) /\ Len(wire) \in Nat /\ Len(data) \in Nat /\ sent \in Int
      BY <1>1, <2>1, SameResponse DEF OnPlace, OnFirst, ClientTypes
    <3> QED BY <2>2, <3>1 DEF At, Holds
  <2>3. code' = req => sent # 0
    BY <2>1, <2>2
  <2>4. ~GoneWell'
    BY <2>1 DEF GoneWell
  <2> QED BY <2>1, <2>3, <2>4 DEF Told
<1> QED BY <1>2, <1>3, <1>4

LEMMA ToldByHeader ==
  ASSUME ResponseInv, ResponseInv', Tame, code = req => sent # 0,
         HeaderReceive \/ HeaderEnd \/ HeaderLine
  PROVE  Told
<1>1. /\ UNCHANGED <<request, buffer, code>> /\ delivered' = delivered
      /\ pc' \in {"header", "done", "raw", "size", "copy"}
      /\ pc' = "done" => result' \in {"conn", "xx"}
  <2>1. CASE HeaderReceive
    BY <2>1 DEF HeaderReceive, Go, Return, client
  <2>2. CASE HeaderEnd
    BY <2>2 DEF HeaderEnd, Go, Begins
  <2>3. CASE HeaderLine
    BY <2>3 DEF HeaderLine, Go, Return
  <2> QED BY <2>1, <2>2, <2>3
<1>2. ASSUME resp.framing = "close" PROVE retrieve_len' = retrieve_len
  <2>1. CASE HeaderReceive \/ HeaderEnd
    BY <2>1 DEF HeaderReceive, HeaderEnd, client
  <2>2. CASE HeaderLine
    <3>1. \/ retrieve_len' = retrieve_len
          \/ pc' = "header" /\ retrieve_len' = response_content_len'
      BY <2>2 DEF HeaderLine, Go
    <3>2. ASSUME pc' = "header" PROVE response_content_len' = -1
      <4>1. resp' = resp /\ Tame'
        BY <1>1, SameResponse DEF ResponseInv
      <4>2. OnHeader'
        BY <3>2, <4>1 DEF ResponseInv, OnPlace
      <4>3. PICK k \in {2, 4, 6} : InHeader(k)'
        BY <4>2 DEF OnHeader
      <4> QED BY <1>2, <4>1, <4>3 DEF InHeader, Framed
    <3>3. retrieve_len' \in Nat
      BY DEF ResponseInv, ClientTypes
    <3> QED BY <3>1, <3>2, <3>3
  <2> QED BY <2>1, <2>2
<1>3. ~GoneWell'
  BY <1>1 DEF GoneWell
<1> QED BY <1>1, <1>2, <1>3 DEF Told

LEMMA ToldWithoutLength ==
  ASSUME ResponseInv, Tame, code = req => sent # 0, RawCopy \/ RawReceive
  PROVE  Told
<1>1. pc \in {"raw", "wait"}
  BY DEF RawCopy, RawReceive
<1>2. resp.framing # "chunked"
  BY <1>1 DEF ResponseInv, OnPlace, Retrieving, OnChunk
<1>3. OnBody
  BY <1>1, <1>2 DEF ResponseInv, OnPlace, Retrieving
<1>4. resp.framing = "close" /\ Framed
  BY <1>1, <1>3 DEF OnBody, Answering
<1>5. /\ UNCHANGED <<request, is_chunked, retrieve_len, response_content_len, code>>
      /\ pc' \in {"raw", "wait", "done"} /\ (pc' # "done" => delivered' = delivered)
  BY DEF RawCopy, RawReceive, Go, Return, client
<1>6. Framed'
  <2>1. Total' = Total /\ resp' = resp
    BY <1>5, SameResponse DEF ResponseInv
  <2> QED BY <1>4, <1>5, <2>1 DEF Framed
<1> QED BY <1>2, <1>4, <1>5, <1>6 DEF Told

(* The lines of chunks are met in a chunked body only.                     *)
LEMMA ToldOfChunks ==
  ASSUME ResponseInv, Tame, code = req => sent # 0,
         SizePoll \/ SizeRead \/ ChunkEnd \/ BodyReceive
  PROVE  Told
<1>1. pc \in {"size", "end", "body"}
  BY DEF SizePoll, SizeRead, ChunkEnd, BodyReceive
<1>2. CASE SizePoll \/ ChunkEnd \/ BodyReceive
  <2>1. /\ UNCHANGED <<request, client, buffer>> /\ delivered' = delivered
        /\ pc' \in {"size", "body", "copy", "done"}
        /\ pc' = "done" => result' \in {"conn", "prtcl"}
    <3>1. CASE SizePoll
      BY <3>1 DEF SizePoll, Go
    <3>2. CASE ChunkEnd
      BY <3>2 DEF ChunkEnd, Go, Return
    <3>3. CASE BodyReceive
      BY <3>3 DEF BodyReceive, Go, Return
    <3> QED BY <1>2, <3>1, <3>2, <3>3
  <2>2. ~GoneWell'
    BY <2>1 DEF GoneWell
  <2> QED BY <2>1, <2>2 DEF Told, client
<1>3. CASE SizeRead
  <2>1. /\ UNCHANGED <<request, is_chunked, code, buffer>> /\ pc = "size"
        /\ pc' \in {"copy", "done"} /\ (pc' # "done" => delivered' = delivered)
        /\ delivered' \in {delivered, delivered \o buffer}
    BY <1>3 DEF SizeRead, Go, Return
  <2>2. resp.framing = "chunked"
    BY <2>1 DEF ResponseInv, OnPlace, Retrieving, OnBody
  <2>3. OnChunk
    BY <2>1, <2>2 DEF ResponseInv, OnPlace, Retrieving
  <2>4. is_chunked' /\ resp' = resp
    BY <2>1, <2>2, <2>3 DEF OnChunk, Answering, Framed, request
  <2>5. Framed'
    BY <2>2, <2>4 DEF Framed
  <2> QED BY <2>1, <2>2, <2>5 DEF Told
<1> QED BY <1>2, <1>3

LEMMA ToldOfPart ==
  ASSUME ResponseInv, Tame, code = req => sent # 0, CopyPart
  PROVE  Told
<1>1. /\ pc = "copy" /\ ClientTypes /\ InHand /\ readLen = retrieve_len
      /\ UNCHANGED <<request, peer, wire, is_chunked, response_content_len, code>>
      /\ (count = 0 \/ Len(buffer) = count)
  BY DEF CopyPart, ResponseInv, InHand, Retrieving
<1>2. /\ Len(data) \in Nat /\ readLen \in Nat /\ count \in Nat /\ Room \in Nat
      /\ is_chunked \in BOOLEAN
  BY <1>1, ClientSizes DEF ClientTypes
<1>3. PICK n \in 0..Len(data) : n = Min({Len(data), readLen}) /\ n <= readLen
  <2>1. Min({Len(data), readLen}) = IF Len(data) <= readLen THEN Len(data) ELSE readLen
    BY <1>2, Least2
  <2> QED BY <1>2, <2>1
<1>4. /\ pc' \in {"body", "end", "done"} /\ (pc' # "done" => delivered' = delivered)
      /\ pc' = "done" =>
           /\ delivered' = delivered \o buffer'
           /\ \/ result' = "more"
              \/ /\ result' = "ok" /\ buffer' = Copied(n) /\ count + n < Room
                 /\ ~(readLen - n > 0) /\ retrieve_len' = retrieve_len - n
  BY <1>3 DEF CopyPart, Copy, Go, Return
<1>5. ASSUME pc' = "done", result' = "ok"
      PROVE  retrieve_len' = 0 /\ Len(buffer') < Room
  <2>1. /\ buffer' = Copied(n) /\ count + n < Room /\ retrieve_len' = retrieve_len - n
        /\ ~(readLen - n > 0)
    BY <1>4, <1>5
  <2>2. Len(Copied(n)) = count + n
    BY <1>1, CopiedIs
  <2> QED BY <1>1, <1>2, <1>3, <2>1, <2>2
<1>6. resp.framing # "close" /\ ~(resp.framing = "chunked" /\ Total = 0)
  <2>1. CASE resp.framing = "chunked"
    <3>1. OnChunk
      BY <1>1, <2>1 DEF ResponseInv, OnPlace, Retrieving
    <3>2. PICK c \in 1..Len(resp.sizes) + 1 : InChunk(c)
      BY <3>1 DEF OnChunk
    <3>3. resp \in Answers /\ Len(resp.sizes) \in Nat
      BY <1>1, SizesAre DEF ClientTypes
    <3>4. c \in 1..Len(resp.sizes)
      BY <1>1, <3>2, <3>3 DEF InChunk
    <3>5. /\ resp.sizes[c] \in Nat \ {0} /\ Upto(resp.sizes, c - 1) \in 0..Total
          /\ Upto(resp.sizes, c) = Upto(resp.sizes, c - 1) + resp.sizes[c]
          /\ Upto(resp.sizes, c) \in 0..Total /\ Total \in Nat
      <4>1. /\ resp.sizes[c] \in Nat \ {0} /\ c \in 0..Len(resp.sizes)
            /\ Upto(resp.sizes, c) = Upto(resp.sizes, c - 1) + resp.sizes[c]
            /\ c - 1 \in 0..Len(resp.sizes) /\ Sum(resp.sizes) \in Nat
        BY <3>3, <3>4, BeforeIs
      <4>2. /\ Upto(resp.sizes, c) \in 0..Sum(resp.sizes)
            /\ Upto(resp.sizes, c - 1) \in 0..Sum(resp.sizes)
        BY <3>3, <4>1, BeforeIs
      <4> QED BY <4>1, <4>2 DEF Total
    <3> QED BY <2>1, <3>5
  <2>2. CASE resp.framing # "chunked"
    <3>1. OnBody
      BY <1>1, <2>2 DEF ResponseInv, OnPlace, Retrieving
    <3> QED BY <1>1, <2>2, <3>1 DEF OnBody
  <2> QED BY <2>1, <2>2
<1>7. Framed'
  <2>1. Total' = Total /\ resp' = resp
    BY <1>1, SameResponse
  <2>2. Framed
    BY <1>1 DEF ResponseInv, OnPlace, Retrieving, OnBody, OnChunk, Answering
  <2> QED BY <1>1, <2>1, <2>2 DEF Framed
<1>8. code' = req => sent # 0
  <2>1. code' = code
    BY DEF CopyPart
  <2> QED BY <2>1
<1> QED BY <1>1, <1>4, <1>5, <1>6, <1>7, <1>8 DEF Told, GoneWell

LEMMA ReceiveTells ==
  ASSUME ResponseInv, ResponseInv', Tame, code = req => sent # 0, Receive
  PROVE  Told
BY ToldBeforeHeader, ToldByHeader, ToldWithoutLength, ToldOfChunks, ToldOfPart
   DEF Receive

LEMMA NoRemainder == 0 % Room = 0
<1>1. Room \in Nat \ {0}
  BY ClientSizes
<1> QED BY <1>1

LEMMA Counting ==
  ASSUME ResponseInv, user = "ota", ~Overflows, Updating
  PROVE  /\ Tame /\ ClientTypes /\ Total \in Nat /\ resp \in Answers /\ req \in Nat
         /\ Room \in Nat \ {0} /\ Chunk \in Nat \ {0}
BY ClientSizes, SizesAre DEF ResponseInv, ClientTypes, Updating, Tame, Total

(* A receive leaves the loop alone.                                        *)
LEMMA ReceiveCounts ==
  ASSUME ResponseInv, ResponseInv', user = "ota", ~Overflows, Updating, Receive,
         UNCHANGED loop, pc \notin {"idle", "done"}
  PROVE  Updating'
<1>1. /\ Tame /\ ClientTypes /\ Total \in Nat /\ resp \in Answers /\ req \in Nat
      /\ buffer \in Seq(Tokens) /\ delivered \in Seq(Tokens)
      /\ buffer' \in Seq(Tokens) /\ delivered' \in Seq(Tokens)
  BY Counting DEF ResponseInv, ClientTypes
<1>2. Told
  BY <1>1, ReceiveTells DEF Updating
<1>3. /\ req' = req /\ resp' = resp /\ sent' = sent /\ stale' = stale /\ Total' = Total
      /\ connected' = connected /\ pc' # "idle"
  BY <1>1, <1>2, SameResponse DEF Told, request
<1>4. /\ rsp_content_len' = rsp_content_len /\ last_retrieve_len' = last_retrieve_len
      /\ total_recv_len' = total_recv_len /\ received' = received /\ fed' = fed
  BY DEF loop
<1>5. ASSUME resp.framing = "length" PROVE CountKept'
  <2>1. /\ fed \in 0..Total /\ total_recv_len = fed /\ fed % Room = 0
        /\ fed > 0 => rsp_content_len = Total
        /\ last_retrieve_len = IF fed = 0 THEN 0 ELSE Total - fed
        /\ Len(delivered) = fed
    BY <1>5 DEF Updating, CountKept
  <2>2. pc' # "done" => Len(delivered') = fed
    BY <1>2, <2>1 DEF Told
  <2>3. ASSUME GoneWell'
        PROVE  /\ Len(delivered') = fed + Len(buffer')
               /\ \A i \in 1..Len(buffer') : buffer'[i] = delivered'[fed + i]
               /\ result' = "ok" => retrieve_len' = 0 /\ Len(buffer') < Room
    <3>1. delivered' = delivered \o buffer'
          /\ (result' = "ok" => retrieve_len' = 0 /\ Len(buffer') < Room)
      BY <1>2, <1>5, <2>3 DEF Told
    <3>2. IsJoin(delivered', delivered, buffer')
      BY <1>1, <3>1, TokensJoin, Zenon
    <3> QED BY <2>1, <3>1, <3>2 DEF IsJoin
  <2> QED BY <1>3, <1>4, <2>1, <2>2, <2>3 DEF CountKept
<1>6. resp.framing = "close" => NoLength'
  BY <1>2, <1>4 DEF Updating, NoLength, Told
<1>7. ASSUME resp.framing = "chunked", Total = 0 PROVE Empty'
  <2>1. buffer = <<>> /\ delivered = <<>>
    BY <1>7 DEF Updating, Empty
  <2>2. buffer' = <<>> /\ delivered' \in {<<>>, <<>> \o <<>>}
    BY <1>2, <1>7, <2>1 DEF Told
  <2>3. <<>> \o <<>> = <<>>
    OBVIOUS
  <2> QED BY <2>2, <2>3 DEF Empty
<1>8. ~stale' /\ (code' = req' => sent' # 0) /\ (GoneWell' => Framed')
  BY <1>2, <1>3 DEF Updating, Told
<1>9. received' = -1 /\ connected'
  <2>1. received = -1 /\ connected
    BY DEF Updating
  <2> QED BY <1>3, <1>4, <2>1
<1> QED BY <1>3, <1>5, <1>6, <1>7, <1>8, <1>9 DEF Updating

(* What a pass counts, of a response with a length: the piece, or, when    *)
(* nothing was left for it, the whole file.                                *)
LEMMA PassCounts ==
  ASSUME ResponseInv, user = "ota", ~Overflows, Updating, GoneWell,
         resp.framing = "length", Pass
  PROVE  /\ Len(buffer) \in 0..Total - fed /\ fed \in 0..Total /\ Total \in Nat
         /\ \A i \in 1..Len(buffer) : buffer[i] = Byte(req, fed + i)
         /\ result = "more" => Len(buffer) = Room
         /\ result = "ok" => /\ Len(buffer) < Room /\ fed + Len(buffer) = Total
                             /\ delivered = Body(req, resp)
         /\ rsp_content_len' = Total
         /\ last_retrieve_len' = Total - fed - Len(buffer)
         /\ cur_data_len' = IF fed = Total THEN Total ELSE Len(buffer)
         /\ total_recv_len' = fed + cur_data_len'
         /\ fed' = IF fed = Total THEN Total ELSE fed + Len(buffer)
         /\ fed % Room = 0
<1> DEFINE n == Len(buffer)
<1>1. /\ Tame /\ ClientTypes /\ Total \in Nat /\ resp \in Answers /\ req \in Nat
      /\ buffer \in Seq(Tokens) /\ delivered \in Seq(Tokens) /\ retrieve_len \in Nat
      /\ Room \in Nat \ {0}
  BY Counting DEF ClientTypes
<1>2. pc = "done" /\ result \in {"ok", "more"} /\ code = req /\ sent # 0
      /\ response_content_len = Total
  BY DEF GoneWell, Updating, Framed
<1>3. /\ fed \in 0..Total /\ total_recv_len = fed /\ fed % Room = 0
      /\ fed > 0 => rsp_content_len = Total
      /\ last_retrieve_len = IF fed = 0 THEN 0 ELSE Total - fed
      /\ Len(delivered) = fed + n
      /\ \A i \in 1..n : buffer[i] = delivered[fed + i]
      /\ result = "ok" => retrieve_len = 0 /\ n < Room
  BY <1>2 DEF Updating, CountKept
<1>4. /\ Len(delivered) <= Total
      /\ \A i \in 1..Len(delivered) : delivered[i] = Byte(req, i)
      /\ result = "more" => n = Room
  BY <1>1, <1>2 DEF ResponseInv, OnPlace, OnDone, Given
<1>5. result = "more" => retrieve_len = Total - Len(delivered)
  BY <1>1, <1>2 DEF ResponseInv, OnPlace, OnContinue
<1>6. ASSUME result = "ok" PROVE delivered = Body(req, resp) /\ Len(delivered) = Total
  <2>1. delivered = Body(req, resp)
    BY <1>1, <1>2, <1>6 DEF ResponseInv, OkMeansWhole, Updating
  <2>2. Len(Body(req, resp)) = Total
    BY <1>1, BodyIs DEF Total
  <2> QED BY <2>1, <2>2
<1>7. n \in Nat
  BY <1>1
<1> HIDE DEF n
<1>8. retrieve_len = Total - fed - n /\ n \in 0..Total - fed
  BY <1>1, <1>2, <1>3, <1>4, <1>5, <1>6, <1>7
<1>9. \A i \in 1..n : buffer[i] = Byte(req, fed + i)
  BY <1>1, <1>3, <1>4, <1>7, SMTT(60)
<1>10. /\ rsp_content_len' = IF last_retrieve_len = 0 THEN response_content_len
                             ELSE rsp_content_len
       /\ cur_data_len' = (IF last_retrieve_len = 0 THEN rsp_content_len'
                           ELSE last_retrieve_len) - retrieve_len
       /\ total_recv_len' = total_recv_len + cur_data_len'
       /\ last_retrieve_len' = retrieve_len
       /\ fed' = Min({fed + cur_data_len', Total})
  BY DEF Pass
<1>11. last_retrieve_len = 0 <=> fed \in {0, Total}
  BY <1>1, <1>3
<1>12. rsp_content_len' = Total
  BY <1>1, <1>2, <1>3, <1>10, <1>11
<1>13. cur_data_len' = IF fed = Total THEN Total ELSE n
  <2>1. CASE fed = Total
    <3>1. n = 0 /\ retrieve_len = 0
      <4>1. Total - fed = 0
        BY <1>1, <2>1
      <4> QED BY <1>7, <1>8, <4>1
    <3> QED BY <1>1, <1>10, <1>11, <1>12, <2>1, <3>1
  <2>2. CASE fed # Total /\ fed = 0
    BY <1>1, <1>7, <1>8, <1>10, <1>11, <1>12, <2>2
  <2>3. CASE fed # Total /\ fed # 0
    BY <1>1, <1>3, <1>7, <1>8, <1>10, <1>11, <2>3
  <2> QED BY <2>1, <2>2, <2>3
<1>14. fed' = IF fed = Total THEN Total ELSE fed + n
  <2>1. fed + cur_data_len' \in Int /\ fed \in Nat /\ fed <= Total
    BY <1>1, <1>3, <1>7, <1>13
  <2>2. fed' = IF fed + cur_data_len' <= Total THEN fed + cur_data_len' ELSE Total
    BY <1>1, <1>10, <2>1, Least2, SMTT(30)
  <2>3. CASE fed = Total
    BY <1>1, <1>13, <2>2, <2>3
  <2>4. CASE fed # Total
    <3>1. cur_data_len' = n /\ fed + n <= Total
      BY <1>1, <1>7, <1>8, <1>13, <2>1, <2>4
    <3> QED BY <2>2, <2>4, <3>1
  <2> QED BY <2>3, <2>4
<1> QED BY <1>1, <1>3, <1>4, <1>6, <1>7, <1>8, <1>9, <1>10, <1>12, <1>13, <1>14 DEF n

LEMMA AgainCounts ==
  ASSUME ResponseInv, user = "ota", ~Overflows, Updating, Again, Pass, received' = received
  PROVE  Updating'
<1>1. /\ Tame /\ ClientTypes /\ Total \in Nat /\ resp \in Answers /\ req \in Nat
      /\ Room \in Nat \ {0}
  BY Counting
<1>2. /\ pc = "done" /\ result = "more" /\ code = req /\ GoneWell /\ connected
      /\ pc' \in {"first", "continue"}
      /\ UNCHANGED <<request, peer, wire, client, buffer, local, result, delivered>>
  BY DEF Again, GoneWell, Begin
<1>3. /\ req' = req /\ resp' = resp /\ sent' = sent /\ stale' = stale /\ Total' = Total
      /\ connected' = connected /\ code' = code
  BY <1>1, <1>2, SameResponse DEF request, client
<1>4. resp.framing # "chunked" /\ Framed
  BY <1>1, <1>2 DEF ResponseInv, OnPlace, OnContinue, Answering
<1>5. ASSUME resp.framing = "length" PROVE CountKept'
  <2>1. /\ Len(buffer) = Room /\ Len(buffer) \in 0..Total - fed /\ fed \in 0..Total
        /\ rsp_content_len' = Total
        /\ last_retrieve_len' = Total - fed - Len(buffer)
        /\ cur_data_len' = IF fed = Total THEN Total ELSE Len(buffer)
        /\ total_recv_len' = fed + cur_data_len'
        /\ fed' = IF fed = Total THEN Total ELSE fed + Len(buffer)
        /\ fed % Room = 0
    BY <1>2, <1>5, PassCounts
  <2>2. Room <= Total - fed
    BY <1>1, <2>1
  <2>3. fed # Total
    BY <1>1, <2>1, <2>2
  <2>4. /\ fed' = fed + Room /\ total_recv_len' = fed' /\ fed' \in 1..Total
        /\ last_retrieve_len' = Total - fed'
    BY <1>1, <2>1, <2>2, <2>3
  <2>5. fed' % Room = 0
    <3>1. (fed + Room) % Room = IF 0 + Room < Room THEN 0 + Room ELSE 0 + Room - Room
      <4>1. /\ 0 <= (fed % Room) + Room /\ (fed % Room) + Room < 2 * Room
            /\ fed \in Nat /\ Room \in Int
        BY <1>1, <2>1
      <4>2. (fed + Room) % Room = IF (fed % Room) + Room < Room THEN (fed % Room) + Room
                                  ELSE (fed % Room) + Room - Room
        BY <1>1, <4>1, Further, Zenon
      <4> QED BY <2>1, <4>2
    <3> QED BY <1>1, <2>4, <3>1
  <2>6. Len(delivered') = fed'
    <3>1. Len(delivered) = fed + Len(buffer)
      BY <1>2, <1>5 DEF Updating, CountKept
    <3> QED BY <1>2, <2>1, <2>4, <3>1
  <2>7. ~GoneWell' /\ fed' # 0
    BY <1>2, <2>4 DEF GoneWell
  <2> QED BY <1>1, <1>3, <2>1, <2>4, <2>5, <2>6, <2>7 DEF CountKept
<1>6. ASSUME resp.framing = "close" PROVE NoLength'
  <2>1. /\ retrieve_len = 0 /\ last_retrieve_len = 0 /\ total_recv_len \in Int
        /\ total_recv_len <= 0 /\ response_content_len = -1
    BY <1>2, <1>4, <1>6 DEF Updating, NoLength, Framed
  <2>2. last_retrieve_len' = 0 /\ total_recv_len' = total_recv_len + (-1 - 0)
    BY <2>1 DEF Pass
  <2>3. retrieve_len' = 0
    BY <1>2, <2>1 DEF client
  <2> QED BY <2>1, <2>2, <2>3 DEF NoLength
<1>7. ~stale' /\ (code' = req' => sent' # 0) /\ ~GoneWell'
  BY <1>2, <1>3 DEF Updating, GoneWell
<1>8. received' = -1 /\ connected'
  BY <1>2, <1>3 DEF Updating
<1> QED BY <1>2, <1>3, <1>4, <1>5, <1>6, <1>7, <1>8 DEF Updating

(* The download returns.                                                   *)
LEMMA LastCounts ==
  ASSUME ResponseInv, user = "ota", ~Overflows, Updating, GoneWell, result = "ok", Pass,
         received' = IF rsp_content_len' = total_recv_len' THEN total_recv_len' ELSE -1
  PROVE  /\ received' > 0 => delivered = Body(req, resp)
         /\ resp.framing = "length" => received' = Total \/ Total % Room = 0
<1>1. /\ Tame /\ ClientTypes /\ Total \in Nat /\ resp \in Answers /\ req \in Nat
      /\ Room \in Nat \ {0} /\ pc = "done" /\ Framed /\ sent # 0
  BY Counting DEF GoneWell, Updating
<1>2. CASE resp.framing = "length"
  <2>1. /\ Len(buffer) \in 0..Total - fed /\ fed \in 0..Total
        /\ fed + Len(buffer) = Total /\ delivered = Body(req, resp)
        /\ rsp_content_len' = Total
        /\ cur_data_len' = IF fed = Total THEN Total ELSE Len(buffer)
        /\ total_recv_len' = fed + cur_data_len'
        /\ fed % Room = 0
    BY <1>2, PassCounts
  <2>2. CASE fed = Total
    BY <2>1, <2>2
  <2>3. CASE fed # Total
    BY <2>1, <2>3
  <2> QED BY <2>1, <2>2, <2>3
<1>3. CASE resp.framing = "close"
  <2>1. /\ retrieve_len = 0 /\ last_retrieve_len = 0 /\ total_recv_len \in Int
        /\ total_recv_len <= 0 /\ response_content_len = -1
    BY <1>1, <1>3 DEF Updating, NoLength, Framed
  <2>2. total_recv_len' = total_recv_len + (-1 - 0)
    BY <2>1 DEF Pass
  <2>3. ~(received' > 0)
    BY <2>1, <2>2
  <2> QED BY <1>3, <2>3
<1>4. CASE resp.framing = "chunked"
  <2>1. CASE Total = 0
    <3>1. delivered = <<>> /\ delivered \in Seq(Tokens)
      BY <1>1, <1>4, <2>1 DEF Updating, Empty, ClientTypes
    <3>2. Len(delivered) = 0 /\ Sum(resp.sizes) = 0
      BY <2>1, <3>1 DEF Total
    <3>3. \A i \in 1..Len(delivered) : delivered[i] = Byte(req, i)
      BY <3>2
    <3>4. delivered = Body(req, resp)
      BY <1>1, <3>1, <3>2, <3>3, WholeBody
    <3> QED BY <1>4, <3>4
  <2>2. CASE Total # 0
    BY <1>1, <1>4, <2>2 DEF ResponseInv, OkMeansWhole, Tame
  <2> QED BY <2>1, <2>2
<1> QED BY <1>1, <1>2, <1>3, <1>4 DEF Answers

LEMMA EndCounts ==
  ASSUME ResponseInv, user = "ota", ~Overflows, Updating, ota_http_deinit_params,
         \/ GoesWell /\ LastPass
         \/ ~GoesWell /\ UNCHANGED loop
  PROVE  Updating' /\ ReceivedIsAll'
<1>1. /\ Tame /\ ClientTypes /\ Total \in Nat /\ resp \in Answers /\ req \in Nat
  BY Counting
<1>2. /\ pc = "done" /\ pc' = "idle" /\ ~(connected /\ result = "more" /\ code = req)
      /\ UNCHANGED <<req, user, resp, sent, stale, client, buffer, result, delivered>>
  BY DEF ota_http_deinit_params
<1>3. /\ Total' = Total /\ Overflows' = Overflows /\ code' = code
      /\ Body(req, resp)' = Body(req, resp) /\ (Sourced' <=> resp.framing = "length")
  BY <1>2 DEF Total, Overflows, client, Sourced
<1>4. Updating'
  BY <1>2, <1>3 DEF Updating, GoneWell, Empty
<1>5. CASE GoesWell /\ LastPass
  <2>1. GoneWell /\ result = "ok"
    BY <1>2, <1>5 DEF GoesWell, GoneWell
  <2>2. Pass /\ received' = IF rsp_content_len' = total_recv_len' THEN total_recv_len'
                            ELSE -1
    BY <1>5 DEF LastPass
  <2>3. /\ received' > 0 => delivered = Body(req, resp)
        /\ resp.framing = "length" => received' = Total \/ Total % Room = 0
    BY <2>1, <2>2, LastCounts
  <2> QED BY <1>2, <1>3, <1>4, <2>3 DEF ReceivedIsAll
<1>6. CASE ~GoesWell /\ UNCHANGED loop
  <2>1. received = -1 /\ received' = received
    BY <1>2, <1>6 DEF Updating, loop
  <2>2. ~(received' > 0)
    BY <2>1
  <2>3. ~(result = "ok" /\ code = req)
    BY <1>2, <1>6 DEF GoesWell, Updating
  <2> QED BY <1>2, <1>3, <1>4, <2>2, <2>3 DEF ReceivedIsAll
<1> QED BY <1>5, <1>6

(* A request.  An update makes a client of its own, so that nothing is     *)
(* left of an earlier response.                                            *)
LEMMA UpdateAsks ==
  ASSUME ResponseInv, ResponseInv', NEW u, NEW new \in BOOLEAN, Ask(u, new), Locals,
         user' = "ota", resp' \in Answers, pc' # "idle",
         pc' # "done" => connected'
  PROVE  Updating'
<1>1. u = "ota" /\ new
  BY DEF Ask
<1>2. /\ code' < req' /\ req' \in Nat /\ code' \in 0..req'
      /\ delivered' = <<>> /\ buffer' = <<>> /\ retrieve_len' = 0
      /\ stale' = FALSE
  BY <1>1, Asked DEF Ask, ResponseInv
<1>3. code' # req' /\ ~GoneWell'
  BY <1>2 DEF GoneWell
<1>4. /\ rsp_content_len' = 0 /\ last_retrieve_len' = 0 /\ total_recv_len' = 0
      /\ received' = -1 /\ fed' = 0
  BY DEF Locals
<1>5. Total' \in Nat
  <2>1. Sum(resp'.sizes) \in Nat
    BY SizesAre
  <2> QED BY <2>1 DEF Total
<1>6. CountKept'
  <2>1. Len(delivered') = 0
    BY <1>2
  <2>2. fed' % Room = 0
    BY <1>4, NoRemainder
  <2>3. fed' \in 0..Total' /\ ~(fed' > 0)
    BY <1>4, <1>5
  <2> QED BY <1>3, <1>4, <2>1, <2>2, <2>3 DEF CountKept
<1>7. NoLength' /\ Empty'
  BY <1>2, <1>4 DEF NoLength, Empty
<1> QED BY <1>2, <1>3, <1>4, <1>6, <1>7 DEF Updating

LEMMA InitUpdate == UpdateInit => UpdateInv
<1> SUFFICES ASSUME UpdateInit PROVE UpdateInv
  OBVIOUS
<1>1. user = "common"
  BY DEF UpdateInit, Init
<1> QED BY <1>1 DEF UpdateInv, ReceivedIsAll

LEMMA UpdateIsNext == [UpdateNext]_uvars => [Next]_vars
<1> SUFFICES ASSUME [UpdateNext]_uvars PROVE [Next]_vars
  OBVIOUS
<1>1. CASE UNCHANGED uvars
  BY <1>1 DEF uvars
<1>2. CASE UpdateNext
  BY <1>2 DEF UpdateNext, Next
<1> QED BY <1>1, <1>2

LEMMA Receiving ==
  ASSUME Receive
  PROVE  pc \notin {"idle", "done"} /\ pc' # "idle" /\ UNCHANGED request
<1>1. CASE First \/ Continue \/ Status \/ HeaderReceive \/ HeaderEnd \/ HeaderLine
  BY <1>1 DEF First, Continue, Status, HeaderReceive, HeaderEnd, HeaderLine,
              Return, Go, Begins
<1>2. CASE RawCopy \/ RawReceive \/ SizePoll \/ SizeRead
  BY <1>2 DEF RawCopy, RawReceive, SizePoll, SizeRead, Return, Go
<1>3. CASE CopyPart
  BY <1>3 DEF CopyPart, Return, Go
<1>4. CASE BodyReceive \/ ChunkEnd
  BY <1>4 DEF BodyReceive, ChunkEnd, Return, Go
<1> QED BY <1>1, <1>2, <1>3, <1>4 DEF Receive

LEMMA StepUpdate ==
  ResponseInv /\ ResponseInv' /\ UpdateInv /\ [UpdateNext]_uvars => UpdateInv'
<1> SUFFICES ASSUME ResponseInv, ResponseInv', UpdateInv, [UpdateNext]_uvars
             PROVE  UpdateInv'
  OBVIOUS
<1>1. ASSUME NEW u \in {"common", "ota"}, NEW new \in BOOLEAN,
             RequestFails(u, new) \/ \E a \in Responses : Request(u, new, a), Locals
      PROVE  UpdateInv'
  <2>1. Ask(u, new) /\ pc' # "idle"
    BY <1>1 DEF RequestFails, Request, Begin
  <2>2. pc' # "done" => connected'
    BY <1>1 DEF RequestFails, Request, httpc_connect
  <2>3. resp' \in Answers
    BY DEF ResponseInv, ClientTypes
  <2>4. user' = "ota" => Updating'
    BY <1>1, <2>1, <2>2, <2>3, UpdateAsks
  <2> QED BY <2>1, <2>4 DEF UpdateInv, ReceivedIsAll
<1>2. CASE (Reset \/ Receive \/ httpc_close) /\ UNCHANGED loop
  <2>1. CASE Receive
    <3>1. pc \notin {"idle", "done"} /\ user' = user /\ pc' # "idle"
          /\ resp' = resp
      BY <2>1, Receiving DEF request
    <3>2. Overflows' = Overflows
      BY <3>1 DEF Overflows, Total
    <3>3. user = "ota" /\ ~Overflows => Updating'
      BY <1>2, <2>1, <3>1, ReceiveCounts DEF UpdateInv
    <3> QED BY <3>1, <3>2, <3>3 DEF UpdateInv, ReceivedIsAll
  <2>2. CASE Reset
    <3>1. /\ pc' = pc /\ pc # "idle"
          /\ UNCHANGED <<request, client, buffer, pc, local, result, delivered, loop>>
      BY <1>2, <2>2 DEF Reset
    <3> QED BY <3>1 DEF UpdateInv, ReceivedIsAll, Updating, CountKept, NoLength, Empty,
                        GoneWell, Framed, Overflows, Total, request, client, local, loop
  <2>3. CASE httpc_close
    <3>1. user' = user /\ user = "common"
      BY <2>3 DEF httpc_close
    <3> QED BY <3>1 DEF UpdateInv, ReceivedIsAll
  <2> QED BY <1>2, <2>1, <2>2, <2>3
<1>3. CASE Again /\ Pass /\ UNCHANGED received
  <2>1. user' = user /\ resp' = resp /\ pc' # "idle" /\ user = "ota"
    BY <1>3 DEF Again, Begin, request
  <2>2. Overflows' = Overflows
    BY <2>1 DEF Overflows, Total
  <2>3. ~Overflows => Updating'
    BY <1>3, <2>1, AgainCounts DEF UpdateInv
  <2> QED BY <2>1, <2>2, <2>3 DEF UpdateInv, ReceivedIsAll
<1>4. CASE /\ ota_http_deinit_params
           /\ \/ GoesWell /\ LastPass
              \/ ~GoesWell /\ UNCHANGED loop
  <2>1. /\ user' = user /\ resp' = resp /\ user = "ota"
        /\ Overflows' = Overflows
    BY <1>4 DEF ota_http_deinit_params, Overflows, Total
  <2>2. ~Overflows => Updating' /\ ReceivedIsAll'
    BY <1>4, <2>1, EndCounts DEF UpdateInv
  <2>3. Overflows => ReceivedIsAll'
    BY <2>1 DEF ReceivedIsAll, Sourced, Overflows
  <2> QED BY <2>1, <2>2, <2>3 DEF UpdateInv
<1>5. CASE UNCHANGED uvars
  BY <1>5 DEF uvars, vars, UpdateInv, ReceivedIsAll, Updating, CountKept, NoLength, Empty,
              GoneWell, Framed, Overflows, Total, Sourced, request, client, local, loop
<1>6. CASE UpdateNext
  <2>1. CASE /\ \E u \in {"common", "ota"}, new \in BOOLEAN :
                  RequestFails(u, new) \/ \E a \in Responses : Request(u, new, a)
             /\ Locals
    <3>1. PICK u \in {"common", "ota"}, new \in BOOLEAN :
                  RequestFails(u, new) \/ \E a \in Responses : Request(u, new, a)
      BY <2>1
    <3> QED BY <1>1, <2>1, <3>1
  <2> QED BY <1>2, <1>3, <1>4, <1>6, <2>1 DEF UpdateNext
<1> QED BY <1>5, <1>6

(* The loop adds nothing to the client and keeps it from nothing: what is  *)
(* proved of Httpc alone holds of the client under the update.             *)
THEOREM LoopRunsTheClient == UpdateSpec => Spec
<1>1. UpdateInit => Init
  BY DEF UpdateInit
<1> QED BY <1>1, UpdateIsNext, PTL DEF UpdateSpec, Spec

LEMMA UpdateAlways == UpdateSpec => [](ResponseInv /\ UpdateInv)
<1>1. UpdateInit => ResponseInv /\ UpdateInv
  BY InitResponse, InitUpdate DEF UpdateInit
<1>2. ResponseInv /\ UpdateInv /\ [UpdateNext]_uvars => (ResponseInv /\ UpdateInv)'
  BY UpdateIsNext, StepResponse, StepUpdate
<1> QED BY <1>1, <1>2, PTL DEF UpdateSpec

(* ReceivedIsAll: what the update takes for a download is all of the file, *)
(* and it takes every file with a length but one that fills its last piece *)
(* (ota_test.c:573, 594).                                                  *)
THEOREM DownloadsAreWhole == UpdateSpec => []ReceivedIsAll
<1>1. UpdateInv => ReceivedIsAll
  BY DEF UpdateInv
<1> QED BY <1>1, UpdateAlways, PTL

(* PiecesAreInPlace: each pass gives ota_write_flash_dual the bytes of the *)
(* file that follow those before, as many as the buffer holds              *)
(* (ota_test.c:579, 584).                                                  *)
THEOREM PiecesAreWritten == UpdateSpec => PiecesAreInPlace
<1>1. ResponseInv /\ UpdateInv /\ [UpdateNext]_uvars =>
        [(Sourced /\ GoesWell /\ pc' # pc /\ fed < Total) =>
           /\ cur_data_len' = Len(buffer)
           /\ \A i \in 1..Len(buffer) : buffer[i] = Byte(req, fed + i)]_uvars
  <2> SUFFICES ASSUME ResponseInv, UpdateInv, UpdateNext, Sourced, GoesWell,
                      pc' # pc, fed < Total
               PROVE  /\ cur_data_len' = Len(buffer)
                      /\ \A i \in 1..Len(buffer) : buffer[i] = Byte(req, fed + i)
    OBVIOUS
  <2>1. pc = "done" /\ user = "ota" /\ resp.framing = "length" /\ GoneWell
    BY DEF Sourced, GoesWell, GoneWell
  <2>2. ~Overflows
    BY <2>1 DEF Overflows
  <2>3. Pass
    <3>1. \A u, new : ~Ask(u, new)
      BY <2>1 DEF Ask
    <3>2. ~Reset /\ ~Receive /\ ~httpc_close
      BY <2>1, Receiving DEF Reset, httpc_close
    <3> QED BY <3>1, <3>2 DEF UpdateNext, RequestFails, Request, LastPass
  <2>4. Updating
    BY <2>1, <2>2 DEF UpdateInv
  <2> QED BY <2>1, <2>2, <2>3, <2>4, PassCounts
<1> QED BY <1>1, UpdateAlways, PTL DEF UpdateSpec, PiecesAreInPlace

-----------------------------------------------------------------------------
(* The loop keeps the contract with the update.                            *)
LEMMA PassIsTake ==
  ASSUME ResponseInv, Sourced, Updating, GoneWell, Pass,
         \/ Again
         \/ ota_http_deinit_params /\ result = "ok"
  PROVE  Source!Take
<1> DEFINE n == Len(buffer)
<1>1. user = "ota" /\ resp.framing = "length" /\ ~Overflows
  BY DEF Sourced, Overflows
<1>2. /\ n \in 0..Total - fed /\ fed \in 0..Total /\ Total \in Nat
      /\ result = "more" => n = Room
      /\ result = "ok" => n < Room /\ fed + n = Total
      /\ cur_data_len' = IF fed = Total THEN Total ELSE n
      /\ total_recv_len' = fed + cur_data_len'
      /\ fed' = IF fed = Total THEN Total ELSE fed + n
  BY <1>1, PassCounts
<1>3. Room \in Nat \ {0}
  BY ClientSizes
<1>4. pc = "done" /\ code = req /\ result \in {"ok", "more"} /\ total_recv_len = fed
  BY <1>1 DEF GoneWell, Updating, CountKept
<1>5. /\ user' = user /\ resp' = resp /\ result' = result /\ code' = code /\ req' = req
      /\ \/ result = "more" /\ pc' # "idle"
         \/ result = "ok" /\ pc' = "idle"
  BY DEF Again, ota_http_deinit_params, request, client, Begin
<1>6. Total' = Total /\ Sourced' /\ Sourced
  BY <1>5 DEF Total, Sourced
<1> HIDE DEF n
<1>7. Source!NextLen = cur_data_len'
  <2>1. CASE fed = Total
    BY <1>2, <1>6, <2>1 DEF Source!NextLen
  <2>2. CASE fed # Total /\ result = "more"
    <3>1. n = Room /\ Room <= Total - fed
      BY <1>2, <1>3, <2>2
    <3> QED BY <1>2, <1>3, <1>6, <2>2, <3>1 DEF Source!NextLen, Source!Shorter
  <2>3. CASE fed # Total /\ result = "ok"
    <3>1. n < Room /\ n = Total - fed
      BY <1>2, <2>3
    <3> QED BY <1>2, <1>3, <1>6, <2>3, <3>1 DEF Source!NextLen, Source!Shorter
  <2> QED BY <1>4, <2>1, <2>2, <2>3
<1>8. fed' = Source!Shorter(fed + cur_data_len', Total)
  <2>1. CASE fed = Total
    BY <1>2, <2>1 DEF Source!Shorter
  <2>2. CASE fed # Total
    BY <1>2, <2>2 DEF Source!Shorter
  <2> QED BY <2>1, <2>2
<1>9. Source!Count
  BY <1>2, <1>4, <1>6, <1>7, <1>8 DEF Source!Count
<1>10. CASE result = "more"
  <2>1. fed # Total /\ cur_data_len' = Room /\ fed < Total
    <3>1. n = Room /\ Room <= Total - fed
      BY <1>2, <1>3, <1>10
    <3> QED BY <1>2, <1>3, <3>1
  <2>2. pc' # "idle"
    BY <1>5, <1>10
  <2> QED BY <1>6, <1>7, <1>9, <2>1, <2>2 DEF Source!Take
<1>11. CASE result = "ok"
  <2>1. ~(cur_data_len' = Room /\ fed < Total)
    BY <1>2, <1>3, <1>11
  <2>2. pc' = "idle" /\ result' = "ok" /\ code' = req'
    BY <1>4, <1>5, <1>11
  <2> QED BY <1>6, <1>7, <1>9, <2>1, <2>2 DEF Source!Take
<1> QED BY <1>4, <1>10, <1>11

(* ImplementsSource: the pieces that the loop tells from what is left of   *)
(* the response (ota_test.c:573-581) come in order, each full but the      *)
(* last, whatever the sizes of the buffers and wherever the network cuts   *)
(* the response.                                                           *)
THEOREM LoopKeepsTheContract == UpdateSpec => ImplementsSource
<1>1. UpdateInit => Source!SInit
  <2> SUFFICES ASSUME UpdateInit PROVE Source!SInit
    OBVIOUS
  <2>1. ~Sourced
    BY DEF UpdateInit, Init, Sourced
  <2> QED BY <2>1 DEF Source!SInit
<1>2. ResponseInv /\ UpdateInv /\ ResponseInv' /\ [UpdateNext]_uvars
        => [Source!SNext]_(Source!svars)
  <2> SUFFICES ASSUME ResponseInv, UpdateInv, ResponseInv', [UpdateNext]_uvars
               PROVE  Source!SNext \/ UNCHANGED Source!svars
    OBVIOUS
  <2>1. Total' \in Nat
    <3>1. resp' \in Answers
      BY DEF ResponseInv, ClientTypes
    <3>2. Sum(resp'.sizes) \in Nat
      BY <3>1, SizesAre
    <3> QED BY <3>2 DEF Total
  <2>2. ASSUME NEW u \in {"common", "ota"}, NEW new \in BOOLEAN,
               RequestFails(u, new) \/ \E a \in Responses : Request(u, new, a), Locals
        PROVE  Source!SNext
    <3>1. pc = "idle" /\ pc' # "idle"
      BY <2>2 DEF RequestFails, Request, Ask, Begin
    <3>2. total_recv_len' = 0 /\ fed' = 0
      BY <2>2 DEF Locals
    <3>3. CASE Sourced'
      <4>1. Source!Ask
        BY <2>1, <3>1, <3>2, <3>3 DEF Source!Ask
      <4> QED BY <4>1 DEF Source!SNext
    <3>4. CASE ~Sourced'
      <4>1. Source!Forget
        BY <3>4 DEF Source!Forget
      <4> QED BY <4>1 DEF Source!SNext
    <3> QED BY <3>3, <3>4
  <2>3. CASE (Reset \/ Receive \/ httpc_close) /\ UNCHANGED loop
    <3>1. /\ user' = user /\ resp' = resp
          /\ \/ user = "common"
             \/ pc # "idle" /\ pc' # "idle"
      <4>1. CASE Reset
        BY <4>1 DEF Reset, request
      <4>2. CASE Receive
        BY <4>2, Receiving DEF request
      <4>3. CASE httpc_close
        BY <4>3 DEF httpc_close
      <4> QED BY <2>3, <4>1, <4>2, <4>3
    <3>2. fed' = fed /\ total_recv_len' = total_recv_len
      BY <2>3 DEF loop
    <3>3. Total' = Total /\ (Sourced' <=> Sourced) /\ (Sourced => user = "ota")
      BY <3>1 DEF Total, Sourced
    <3>4. CASE ~Sourced
      BY <3>3, <3>4 DEF Source!svars
    <3>5. CASE Sourced
      BY <3>1, <3>2, <3>3, <3>5 DEF Source!svars
    <3> QED BY <3>4, <3>5
  <2>4. ASSUME user = "ota", user' = user, resp' = resp, ~Sourced
        PROVE  UNCHANGED Source!svars
    BY <2>4 DEF Sourced, Source!svars
  <2>5. Sourced => user = "ota" /\ Updating
    BY DEF UpdateInv, Sourced, Overflows
  <2>6. CASE Again /\ Pass /\ UNCHANGED received
    <3>1. user = "ota" /\ user' = user /\ resp' = resp /\ GoneWell
      BY <2>6 DEF Again, GoneWell, request
    <3>2. CASE Sourced
      BY <2>5, <2>6, <3>1, <3>2, PassIsTake DEF Source!SNext
    <3> QED BY <2>4, <3>1, <3>2
  <2>7. CASE ota_http_deinit_params /\ GoesWell /\ LastPass
    <3>1. user = "ota" /\ user' = user /\ resp' = resp /\ GoneWell /\ result = "ok"
      BY <2>7 DEF ota_http_deinit_params, GoesWell, GoneWell
    <3>2. CASE Sourced
      BY <2>5, <2>7, <3>1, <3>2, PassIsTake DEF LastPass, Source!SNext
    <3> QED BY <2>4, <3>1, <3>2
  <2>8. CASE ota_http_deinit_params /\ ~GoesWell /\ UNCHANGED loop
    <3>1. /\ user = "ota" /\ user' = user /\ resp' = resp /\ pc = "done" /\ pc' = "idle"
          /\ result' = result /\ code' = code /\ req' = req
          /\ ~(connected /\ result = "more" /\ code = req)
      BY <2>8 DEF ota_http_deinit_params, client
    <3>2. fed' = fed /\ total_recv_len' = total_recv_len
      BY <2>8 DEF loop
    <3>3. Total' = Total /\ (Sourced' <=> Sourced)
      BY <3>1 DEF Total, Sourced
    <3>4. CASE Sourced
      <4>1. ~(result = "ok" /\ code = req)
        BY <2>5, <2>8, <3>1, <3>4 DEF GoesWell, Updating
      <4>2. Source!Break
        BY <3>1, <3>2, <3>3, <3>4, <4>1 DEF Source!Break
      <4> QED BY <4>2 DEF Source!SNext
    <3> QED BY <2>4, <3>1, <3>4
  <2>9. CASE UNCHANGED uvars
    BY <2>9 DEF uvars, vars, loop, request, client, Sourced, Total, Source!svars
  <2>10. CASE UpdateNext
    <3>1. CASE /\ \E u \in {"common", "ota"}, new \in BOOLEAN :
                    RequestFails(u, new) \/ \E a \in Responses : Request(u, new, a)
               /\ Locals
      BY <2>2, <3>1
    <3> QED BY <2>3, <2>6, <2>7, <2>8, <2>10, <3>1 DEF UpdateNext
  <2> QED BY <2>9, <2>10
<1> QED BY <1>1, <1>2, UpdateAlways, PTL DEF UpdateSpec, ImplementsSource, Source!SSpec
=============================================================================
