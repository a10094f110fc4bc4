---------------------------- MODULE MCSocketReader ----------------------------
(* A 4-word socket buffer fed from a 4-word producer buffer with 3-word     *)
(* packets, so that the pointers wrap at 2N within a few packets.          *)
EXTENDS SocketReader

MCN         == 4
MCPN        == 4
MCSize      == 3
MCThreshold == 2
MCMaxSend   == 8
=============================================================================
