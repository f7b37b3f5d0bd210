---------------------------- MODULE MCRingBuffer ----------------------------
(* The macro ring for TLC, with counters of a few bits instead of 16.       *)
EXTENDS RingBuffer
MCItems == {"a", "b"}
=============================================================================
