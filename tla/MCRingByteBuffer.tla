-------------------------- MODULE MCRingByteBuffer --------------------------
(* The byte ring for TLC: three slots, so that the indices wrap at every    *)
(* offset of a buffer of one to three bytes.                                *)
EXTENDS RingByteBuffer
MCBytes == {0, 1}
=============================================================================
