---------------------------- MODULE MCPullTransfer ----------------------------
(* One hop with a 4-word buffer and a 3-word header: a 7-word FORWARD      *)
(* packet (larger than the buffer, so it is advertised in pieces and its  *)
(* pulls wrap), a header-only INLINE_FORWARD packet, and a 6-word        *)
(* multicast packet for which this chip is a destination (its three data  *)
(* words are written locally, in pieces and across the buffer's end).    *)
EXTENDS PullTransfer

MCN == 4
MCH == 3
MCPackets == << [kind |-> "FORWARD", words |-> 7],
                [kind |-> "INLINE_FORWARD", words |-> 3],
                [kind |-> "MCAST", words |-> 6] >>
=============================================================================
