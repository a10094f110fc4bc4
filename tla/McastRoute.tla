----------------------------- MODULE McastRoute -----------------------------
(***************************************************************************)
(* The path of one multicast write along a row of chips 0 .. L-1 (east is *)
(* +1). The worker builds the header (fabric_async_write_multicast_add_   *)
(* header: FORWARD | MCAST_DATA, four hop depths, destination device).    *)
(* At every chip the producer that receives it decides, in               *)
(* advance_next_packet, whether the chip is a unicast destination, a     *)
(* multicast destination (write locally and forward), or not a           *)
(* destination (forward), decrementing the hop count of its own          *)
(* mcast_direction in update_mcast_hops. The payload and the buffers are *)
(* left out: PullTransfer models how a packet crosses a hop.             *)
(***************************************************************************)
EXTENDS Integers, FiniteSets

CONSTANTS
    L,          \* chips in the row
    MaxDepth    \* largest hop depth a header carries

ASSUME L \in Nat \ {0, 1} /\ MaxDepth \in Nat

Chips == 0 .. L - 1
Dir4  == 0 .. 3        \* mcast_direction: 0 east, 1 west, 2 north, 3 south
Depth == 0 .. MaxDepth
Proc  == {"idle", "none", "MCAST_DEST", "UCAST_DEST", "NOT_DEST", "done"}

Fields == [mcast : [Dir4 -> Depth], active : BOOLEAN, data : BOOLEAN, dst : Chips]

(* The checksum is abstracted to what it is used for: it records the      *)
(* fields it was computed over, and a header validates when they are the  *)
(* fields it carries (a collision of the real checksum is left out).      *)
Header == [mcast : [Dir4 -> Depth], active : BOOLEAN, data : BOOLEAN, dst : Chips,
           csum : Fields]

NoFields == [mcast |-> [d \in Dir4 |-> 0], active |-> FALSE, data |-> FALSE, dst |-> 0]

HeaderFields(h) == [mcast |-> h.mcast, active |-> h.active, data |-> h.data, dst |-> h.dst]

(* tt_fabric_add_header_checksum. *)
AddHeaderChecksum(h) == [h EXCEPT !.csum = HeaderFields(h)]

(* tt_fabric_is_header_valid: the recomputed checksum matches. *)
HeaderValid(h) == h.csum = HeaderFields(h)

(* fvc_producer_state::init: the producer of the port that faces west     *)
(* multicasts east, the one facing east multicasts west. A packet moving *)
(* east enters through the west port.                                    *)
McastDirection(step) == IF step = 1 THEN 0 ELSE 1

(* The hop update of one direction, flags included, checksum untouched.  *)
DecrementHops(h, md, nc) ==
    [h EXCEPT !.mcast[md] = nc, !.active = (nc # 0), !.data = (nc # 0) /\ @]

(* Mutant: the ACTIVE test made on the count before it is decremented. *)
UpdateMcastHopsPreDecrement(h, md) ==
    LET hc == h.mcast[md]
        nc == IF hc # 0 THEN hc - 1 ELSE 0
        h2 == [DecrementHops(h, md, nc) EXCEPT !.active = (hc # 0), !.data = (hc # 0) /\ h.data]
    IN  IF hc # 0 THEN AddHeaderChecksum(h2) ELSE h2

(* Mutant: the count decremented without the hop_count != 0 guard. *)
UpdateMcastHopsNoGuard(h, md) ==
    LET h2 == DecrementHops(h, md, h.mcast[md] - 1)
    IN  IF h2.active THEN AddHeaderChecksum(h2) ELSE h2

(* Mutant: the checksum computed before the hop count is decremented. *)
UpdateMcastHopsStaleChecksum(h, md) ==
    LET nc == IF h.mcast[md] # 0 THEN h.mcast[md] - 1 ELSE 0
        h2 == DecrementHops(h, md, nc)
    IN  IF nc # 0 THEN [h2 EXCEPT !.csum = HeaderFields([h EXCEPT !.active = TRUE])] ELSE h2

(* Mutant: the new checksum kept in current_packet_header only, not      *)
(* copied to the header in the buffer the next hop pulls.                 *)
UpdateMcastHopsNoChecksumCopy(h, md) ==
    DecrementHops(h, md, IF h.mcast[md] # 0 THEN h.mcast[md] - 1 ELSE 0)

(* update_mcast_hops: decrement the hop count of this router's direction  *)
(* unless it is already 0; at 0 clear MCAST_ACTIVE and MCAST_DATA (the    *)
(* last hop is a plain unicast write) and leave the checksum as it was;   *)
(* otherwise set MCAST_ACTIVE, recompute the checksum and copy it to the  *)
(* header in the buffer. The model's header is the buffer's copy, which   *)
(* the next hop pulls.                                                    *)
UpdateMcastHops(h, md) ==
    LET nc == IF h.mcast[md] # 0 THEN h.mcast[md] - 1 ELSE 0
        h2 == DecrementHops(h, md, nc)
    IN  IF nc # 0 THEN AddHeaderChecksum(h2) ELSE h2

(* The processing flags advance_next_packet derives from a valid header   *)
(* at chip c, with the header after any hop update.                       *)
Classify(h, c, md) ==
    IF h.dst = c
       THEN LET h2 == IF h.data THEN UpdateMcastHops(h, md) ELSE h
            IN  [hdr |-> h2, proc |-> IF h2.active THEN "MCAST_DEST" ELSE "UCAST_DEST"]
    ELSE IF h.active
       THEN LET h2 == UpdateMcastHops(h, md)
            IN  [hdr |-> h2, proc |-> IF h2.active THEN "MCAST_DEST" ELSE "UCAST_DEST"]
    ELSE [hdr |-> h, proc |-> "NOT_DEST"]

VARIABLES
    at,         \* the chip whose producer holds the packet
    step,       \* +1 moving east, -1 moving west
    hdr,        \* current_packet_header (routing flags, mcast parameters)
    proc,       \* packet_processing_flags, "none" before advance_next_packet
    delivered,  \* chips that wrote the payload locally
    sent,       \* ghost: the header as the worker built it
    corrupted,  \* packet_corrupted of the producer holding the packet
    faulted     \* ghost: the link damaged this packet's header

vars == <<at, step, hdr, proc, delivered, sent, corrupted, faulted>>

TypeOK ==
    /\ at \in Chips /\ step \in {-1, 1} /\ hdr \in Header /\ sent \in Header
    /\ proc \in Proc /\ delivered \subseteq Chips /\ corrupted \in BOOLEAN
    /\ faulted \in BOOLEAN

(* A worker at one end of the row sends a multicast write whose group   *)
(* lies inside the row: the header fabric_async_write_multicast_add_    *)
(* header builds, arriving at the neighbouring chip.                     *)
Send ==
    \E src \in {0, L - 1}, dst \in Chips, d \in [Dir4 -> 0 .. MaxDepth] :
        LET s == IF src = 0 THEN 1 ELSE -1
            h == AddHeaderChecksum([mcast |-> d, active |-> FALSE, data |-> TRUE, dst |-> dst,
                                    csum |-> NoFields])
        IN  /\ dst # src
            /\ dst + s * (d[McastDirection(s)] - 1) \in Chips
            /\ at' = src + s /\ step' = s /\ hdr' = h /\ sent' = h
            /\ proc' = "none" /\ delivered' = {} /\ corrupted' = FALSE /\ faulted' = FALSE

(* No packet has been sent yet. *)
NoHeader == AddHeaderChecksum([mcast |-> [d \in Dir4 |-> 0], active |-> FALSE, data |-> FALSE,
                               dst |-> 0, csum |-> NoFields])

Init ==
    /\ at = 0 /\ step = 1 /\ hdr = NoHeader /\ sent = NoHeader /\ proc = "idle"
    /\ delivered = {} /\ corrupted = FALSE /\ faulted = FALSE

(* advance_next_packet on a valid header: classify it, updating the hops. *)
AdvanceNextPacket ==
    /\ proc = "none"
    /\ HeaderValid(hdr)
    /\ LET r == Classify(hdr, at, McastDirection(step))
       IN  hdr' = r.hdr /\ proc' = r.proc
    /\ UNCHANGED <<at, step, delivered, sent, corrupted, faulted>>

(* advance_next_packet on a header whose checksum does not match: set     *)
(* packet_corrupted and leave curr_packet_valid false. Nothing reads the  *)
(* flag; the producer parses the same header again on its next pass.      *)
AdvanceCorrupted ==
    /\ proc = "none"
    /\ ~HeaderValid(hdr)
    /\ corrupted' = TRUE
    /\ UNCHANGED <<at, step, hdr, proc, delivered, sent, faulted>>

(* process_mcast_packet: write the payload locally and send the pull      *)
(* request for it to the router in mcast_direction, whose producer takes  *)
(* the header as updated in the buffer.                                   *)
ProcessMcastPacket ==
    /\ proc = "MCAST_DEST"
    /\ delivered' = delivered \cup {at}
    /\ at + step \in Chips
    /\ at' = at + step /\ proc' = "none"
    /\ UNCHANGED <<step, hdr, sent, corrupted, faulted>>

(* process_inbound_packet, UCAST_DEST ASYNC_WR: write the payload locally; *)
(* the packet ends here.                                                  *)
ProcessUcastDest ==
    /\ proc = "UCAST_DEST"
    /\ delivered' = delivered \cup {at} /\ proc' = "done"
    /\ UNCHANGED <<at, step, hdr, sent, corrupted, faulted>>

(* process_inbound_packet, NOT_DEST: pull_data_from_fvc_buffer forwards   *)
(* the packet to the next router on its route.                            *)
ForwardNotDest ==
    /\ proc = "NOT_DEST"
    /\ at + step \in Chips
    /\ at' = at + step /\ proc' = "none"
    /\ UNCHANGED <<step, hdr, delivered, sent, corrupted, faulted>>

(* Fault model: the link damages the header of a packet on its way to   *)
(* the next producer, changing the hop count of the direction of travel  *)
(* and not the checksum (spec 7, corrupted header). At most once per     *)
(* packet.                                                               *)
LinkFault ==
    /\ proc = "none" /\ ~faulted
    /\ \E k \in Depth \ {hdr.mcast[McastDirection(step)]} :
          hdr' = [hdr EXCEPT !.mcast[McastDirection(step)] = k]
    /\ faulted' = TRUE
    /\ UNCHANGED <<at, step, proc, delivered, sent, corrupted>>

Next ==
    \/ proc \in {"idle", "done"} /\ Send
    \/ AdvanceNextPacket \/ AdvanceCorrupted \/ LinkFault
    \/ ProcessMcastPacket \/ ProcessUcastDest \/ ForwardNotDest

(* Every router's producer polls advance_next_packet and processes the    *)
(* packet it holds on each pass of its loop: weak fairness on each step.  *)
(* No fairness on Send: a worker need not send again.                     *)
Spec ==
    /\ Init /\ [][Next]_vars
    /\ WF_vars(AdvanceNextPacket) /\ WF_vars(ProcessMcastPacket)
    /\ WF_vars(ProcessUcastDest) /\ WF_vars(ForwardNotDest)

-----------------------------------------------------------------------------
(* The reference: a multicast with depth h in its direction of travel     *)
(* writes at its destination and the h - 1 chips after it (spec 4.3 and   *)
(* 8: {east:2} reaches dev 1 and dev 2 but not dev 3); depth 0 is a      *)
(* last-hop delivery at the destination (spec 7).                         *)
McastGroup(h, s) ==
    LET k == h.mcast[McastDirection(s)]
    IN  {h.dst + s * i : i \in 0 .. (IF k = 0 THEN 0 ELSE k - 1)}

(* Once a multicast write has finished, exactly the chips of its group    *)
(* have written the payload, after advance_next_packet and               *)
(* update_mcast_hops ran at every chip along the way.                    *)
DeliveredToGroup == proc = "done" => delivered = McastGroup(sent, step)

(* No router flags an undamaged multicast header as corrupted: wherever  *)
(* update_mcast_hops changes a header that is forwarded, it recomputes    *)
(* the checksum and writes it to the buffer copy the next hop validates.  *)
(* The branch that skips the checksum (hop count 0) must be exactly the   *)
(* one advance_next_packet never forwards.                                *)
NoFalseCorruption == corrupted => faulted

(* Every multicast write the link does not damage ends: it reaches its    *)
(* last hop and is written there, rather than sitting forever in front   *)
(* of a producer that keeps failing its checksum. A damaged one does     *)
(* stall its port: nothing in the code reads packet_corrupted.           *)
MulticastCompletes == proc = "none" ~> (proc = "done" \/ faulted)

====
