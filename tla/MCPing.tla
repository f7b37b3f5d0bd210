------------------------------- MODULE MCPing -------------------------------
(* Three pings, so that an old thread, a new one and a stop can meet and   *)
(* the damage be seen by a third; pings for ever, for one and two requests. *)
EXTENDS Ping
MCCounts == {0, 1, 2}
=============================================================================
