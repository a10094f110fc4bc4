------------------------------ MODULE Handshake ------------------------------
(***************************************************************************)
(* The link handshake (tt_fabric.h, wait_all_src_dest_ready) between the  *)
(* two ends of an ethernet link. Each side writes the ready marker 0xAA   *)
(* into the peer's sync_in until its own sync_out reads 0xAA (dest       *)
(* ready), and once its own sync_in reads 0xAA it echoes it into the     *)
(* peer's sync_out (src ready). It returns when both hold. Ethernet       *)
(* writes land later and in any order; every write carries 0xAA, so a    *)
(* pending write is just the register it targets. Sides in TimeoutSides  *)
(* are called with timeout_cycles > 0: once that many cycles have passed, *)
(* the pass that is running returns false after its body.                *)
(***************************************************************************)
EXTENDS Naturals, TLC

CONSTANTS
    Sides,      \* the two ends of the link
    Peer,       \* Peer[s]: the other end
    TimeoutSides \* the sides called with timeout_cycles > 0

Regs == {"sync_in", "sync_out"}

VARIABLES
    pc,         \* "init" (not launched), "loop", "ready" / "failed" (returned)
    srcReady,   \* the local src_ready
    destReady,  \* the local dest_ready
    reg,        \* reg[s][r]: TRUE when router_state->r of side s holds 0xAA
    inFlight,   \* inFlight[s]: registers of side s with a 0xAA write on the way
    late        \* late[s]: get_timestamp_32b() - start_timestamp > timeout_cycles

vars == <<pc, srcReady, destReady, reg, inFlight, late>>

TypeOK ==
    /\ pc \in [Sides -> {"init", "loop", "ready", "failed"}]
    /\ srcReady \in [Sides -> BOOLEAN] /\ destReady \in [Sides -> BOOLEAN]
    /\ reg \in [Sides -> [Regs -> BOOLEAN]]
    /\ inFlight \in [Sides -> SUBSET Regs]
    /\ late \in [Sides -> BOOLEAN]

(* The router state is zeroed before the kernels start. *)
Init ==
    /\ pc = [s \in Sides |-> "init"]
    /\ srcReady = [s \in Sides |-> FALSE] /\ destReady = [s \in Sides |-> FALSE]
    /\ reg = [s \in Sides |-> [r \in Regs |-> FALSE]]
    /\ inFlight = [s \in Sides |-> {}]
    /\ late = [s \in Sides |-> FALSE]

(* Entry to wait_all_src_dest_ready: start_timestamp taken, scratch[0] = *)
(* 0xAA, both flags false.                                               *)
Start(s) ==
    /\ pc[s] = "init"
    /\ pc' = [pc EXCEPT ![s] = "loop"]
    /\ UNCHANGED <<srcReady, destReady, reg, inFlight, late>>

(* Mutant: the timeout_cycles > 0 test dropped, so a router called with *)
(* timeout 0 gives up on its first late pass.                           *)
ElapseAnySide(s) ==
    /\ pc[s] = "loop" /\ ~late[s]
    /\ late' = [late EXCEPT ![s] = TRUE]
    /\ UNCHANGED <<pc, srcReady, destReady, reg, inFlight>>

(* The cycle counter passes start_timestamp + timeout_cycles. The 32-bit *)
(* difference is taken unsigned, so a wrap of the counter does not hide  *)
(* it within the 2^32 cycles a wait may take.                             *)
Elapse(s) ==
    /\ s \in TimeoutSides /\ pc[s] = "loop" /\ ~late[s]
    /\ late' = [late EXCEPT ![s] = TRUE]
    /\ UNCHANGED <<pc, srcReady, destReady, reg, inFlight>>

(* The end of a pass: the timeout check comes after the body, before the *)
(* loop condition, so a late pass returns false even when it has just    *)
(* set both flags.                                                        *)
Exit(s, src2, dst2) ==
    IF late[s] THEN "failed" ELSE IF src2 /\ dst2 THEN "ready" ELSE "loop"

(* Mutant: the marker sent from scratch_addr to the peer's scratch word. *)
PingRegScratch == "scratch"

(* eth_send_packet(0, scratch_addr, sync_in_addr, 1): the target of the   *)
(* marker is the peer's sync_in.                                          *)
PingReg == "sync_in"

(* Mutant: the echo of sync_in into the peer's sync_out is never sent. *)
SendEchoDropped(s, sends) == sends

(* eth_send_packet of the echo: the peer's sync_out is to become 0xAA. *)
SendEcho(s, sends) == sends \cup {"sync_out"}

(* Mutant: dest_ready tested on sync_in instead of sync_out. *)
DestReadyOnSyncIn(s) == reg[s]["sync_in"]

(* The test router_state->sync_out == 0xAA. *)
DestReadyTest(s) == reg[s]["sync_out"]

(* One pass of the while loop, and its exit when both flags hold. *)
Loop(s) ==
    /\ pc[s] = "loop"
    /\ LET dr    == DestReadyTest(s)
           sr    == ~srcReady[s] /\ reg[s]["sync_in"]
           ping  == IF dr THEN {} ELSE {PingReg}
           sends == IF sr THEN SendEcho(s, ping) ELSE ping
           src2  == srcReady[s] \/ sr
           dst2  == destReady[s] \/ dr
       IN  /\ destReady' = [destReady EXCEPT ![s] = dst2]
           /\ srcReady' = [srcReady EXCEPT ![s] = src2]
           /\ inFlight' = [inFlight EXCEPT ![Peer[s]] = @ \cup sends]
           /\ pc' = [pc EXCEPT ![s] = Exit(s, src2, dst2)]
    /\ UNCHANGED <<reg, late>>

(* An ethernet write lands in side s's register r. *)
Land(s, r) ==
    /\ r \in inFlight[s]
    /\ reg' = [reg EXCEPT ![s][r] = TRUE]
    /\ inFlight' = [inFlight EXCEPT ![s] = @ \ {r}]
    /\ UNCHANGED <<pc, srcReady, destReady, late>>

Next ==
    \E s \in Sides :
        \/ Start(s) \/ Elapse(s) \/ Loop(s)
        \/ \E r \in Regs : Land(s, r)

(* A launched router polls until it returns, ethernet writes are        *)
(* delivered and the cycle counter advances. Nothing makes a router      *)
(* launch: the peer of a link may never come up, which is the case the   *)
(* timeout is for.                                                        *)
Fairness ==
    \A s \in Sides :
        /\ WF_vars(Loop(s)) /\ WF_vars(Elapse(s))
        /\ \A r \in Regs : WF_vars(Land(s, r))

Spec == Init /\ [][Next]_vars /\ Fairness

-----------------------------------------------------------------------------
(* The handshake as HandshakeMeet sees it: a side has arrived once       *)
(* launched, and has seen its peer once its src_ready is set.            *)
Meet == INSTANCE HandshakeMeet WITH
            out <- [s \in Sides |-> IF pc[s] = "init" THEN "none"
                                    ELSE IF pc[s] = "loop" THEN "waiting" ELSE pc[s]],
            seen <- srcReady

(* Every behaviour of wait_all_src_dest_ready on both ends of each link  *)
(* is one of HandshakeMeet: in particular a side returns true only after *)
(* the peer has launched and taken in this side's marker, and it can     *)
(* only have set src_ready from a marker the launched peer sent.         *)
MeetRefinement == Meet!Spec

(* On a link whose ends both wait without timeout, once both routers     *)
(* have launched both return true: neither is left waiting for a marker  *)
(* or an echo the other has stopped sending.                             *)
LinkReadyOnceBothLaunched ==
    \A s \in Sides \ TimeoutSides :
        Peer[s] \notin TimeoutSides =>
            ((pc[s] # "init" /\ pc[Peer[s]] # "init") ~> pc[s] = "ready")

(* On any link, once a side without timeout has launched and its peer   *)
(* has set src_ready (taken in this side's marker and echoed it), the    *)
(* side returns true, even if the peer then gives up. With the converse *)
(* in MeetRefinement (true only after the peer has seen this side), this *)
(* says where the no-timeout end of a mixed link hangs: exactly when the *)
(* peer timed out before this side's marker landed in its sync_in.       *)
PeerSeenLeadsToReady ==
    \A s \in Sides \ TimeoutSides :
        (pc[s] # "init" /\ srcReady[Peer[s]]) ~> pc[s] = "ready"

====
