---------------------------- MODULE ControlChannel ----------------------------
(***************************************************************************)
(* The fabric control channel (tt_fabric.h: fvcc_outbound_state,          *)
(* fvcc_inbound_state) on a chip B between two neighbours A and C:        *)
(*                                                                         *)
(*   A --eth--> [X inbound] --forward_message--> [Y outbound] --eth--> C   *)
(*   A <--eth-- [X outbound] <--forward_message-- [Y inbound] <--eth-- C   *)
(*                                                                         *)
(* X and Y are the two ethernet router cores of B. Each runs one polling  *)
(* loop that calls the outbound and the inbound fvcc_handler of its link. *)
(* A message not for B is passed by the inbound to the other core's       *)
(* outbound ring with forward_message, which reserves a slot with an      *)
(* atomic increment of the ring's wrptr and spins until the ring has      *)
(* room; the core does nothing else meanwhile. A write response for B is  *)
(* applied locally.                                                        *)
(*                                                                         *)
(* The far chips A and C are the environment: they send into our inbound  *)
(* rings while their own fullness test allows, receive what our outbound  *)
(* sends, and report back remote_rdptr.ptr (received) and ptr_cleared     *)
(* (processed). Ethernet packets on a link arrive in order.               *)
(*                                                                         *)
(* A SOCKET_OPEN for B is handed by the inbound to the gatekeeper's ring  *)
(* ("GK") with the same forward_message. Worker cores of B open sockets   *)
(* (tt_fabric_api.h: fabric_socket_open, send_message_to_gk) by posting  *)
(* into that ring too, and then spin in fabric_socket_connect until the  *)
(* gatekeeper marks the handle ACTIVE. The gatekeeper is not in the      *)
(* source tree; it is modelled from the spec as a consumer that takes    *)
(* the ring's messages in order.                                          *)
(***************************************************************************)
EXTENDS Integers, Sequences

CONSTANTS
    S,          \* FVCC_BUF_SIZE, a power of two
    Dirs,       \* the directions that carry traffic: a subset of {"AC", "CA"}
    K,          \* ghost message ids are taken mod K
    NoMsg,      \* a slot whose flags are 0
    FarKinds,   \* the kinds of message the far chips send: a subset of Kinds
    Workers,    \* the worker cores of B that open sockets
    MaxSockets  \* the socket_handles entries a worker uses

ASSUME S \in {1, 2, 4, 8} /\ Dirs \subseteq {"AC", "CA"} /\ K \in Nat \ {0}
ASSUME MaxSockets \in 1 .. K

Cores   == {"X", "Y"}
Other(c) == IF c = "X" THEN "Y" ELSE "X"
InDir(c) == IF c = "X" THEN "AC" ELSE "CA"  \* traffic entering at core c
OutDir(c) == InDir(Other(c))                 \* traffic leaving at core c
Rings   == Cores \cup {"GK"}     \* the outbound rings and the gatekeeper's
Idx     == 0 .. S - 1
Ptrs    == 0 .. 2 * S - 1
Ids     == 0 .. K - 1
(* Not for B / ASYNC_WR_RESP for B / SOCKET_OPEN for B. *)
Kinds   == {"fwd", "resp", "open"}
Handles == 0 .. MaxSockets - 1
(* A message's dir is where it entered B: a direction, or the worker     *)
(* that sent it to the gatekeeper, whose id is then the handle index.    *)
Msg     == [dir : {"AC", "CA"} \cup Workers, kind : Kinds, id : Ids]

(* Mutant: the increment without the FVCC_PTR_MASK wrap. *)
IncPtrNoMask(p, n) == p + n

(* inc_ptr_with_wrap: + n masked by FVCC_PTR_MASK. *)
IncPtr(p, n) == (p + n) % (2 * S)

(* The distance from r up to w in the 2S range (0 when equal). *)
Distance(w, r) == IF w >= r THEN w - r ELSE w + 2 * S - r

VARIABLES
    ring,       \* [r -> slots] msg_buf of core r's outbound or of the gatekeeper
    ringWr,     \* wrptr of ring r: advanced by the producers' atomics
    ringRd,     \* rdptr of ring r: advanced by advance_fvcc_rdptr / the gatekeeper
    outRd,      \* out_rdptr of core c's outbound
    remPtr,     \* remote_rdptr.ptr: what the far inbound has received
    remCleared, \* remote_rdptr.ptr_cleared: what it has processed
    far,        \* messages in the far chip's inbound ring, not yet processed
    inRing,     \* [c -> slots] fvcc_buf of core c's inbound
    inWr,       \* inbound_wrptr, set by the far chip's pointer update
    inRd,       \* fvc_out_rdptr of core c's inbound
    inCleared,  \* inbound_rdptr.ptr_cleared, as last sent to the far chip
    pc,         \* core c: "idle", or blocked in forward_message ("poll", "write")
    myWr,       \* the slot pointer forward_message reserved
    injected,   \* ghost: [dir -> ids of forwarded messages sent so far, mod K]
    delivered,  \* ghost: [dir -> ids of forwarded messages delivered, mod K]
    socketCount,\* client_interface->socket_count of each worker
    socketState,\* socket_handles[h].socket_state: "NONE", "OPENING", "ACTIVE"
    wpc,        \* worker: "idle", in send_message_to_gk ("poll"), or "connect"
    wWr,        \* client_interface->wrptr.ptr: the worker's reserved pointer
    gkMsg       \* client_interface->gk_message, as the worker last built it

vars == <<ring, ringWr, ringRd, outRd, remPtr, remCleared, far, inRing, inWr, inRd,
          inCleared, pc, myWr, injected, delivered, socketCount, socketState, wpc, wWr, gkMsg>>

coreVars == <<outRd, remPtr, remCleared, far, inRing, inWr, inRd, inCleared, pc, myWr,
              injected, delivered>>
workerVars == <<socketCount, socketState, wpc, wWr, gkMsg>>

TypeOK ==
    /\ ring \in [Rings -> [Idx -> Msg \cup {NoMsg}]]
    /\ inRing \in [Cores -> [Idx -> Msg \cup {NoMsg}]]
    /\ ringWr \in [Rings -> Ptrs] /\ ringRd \in [Rings -> Ptrs]
    /\ \A v \in {outRd, remPtr, remCleared, inWr, inRd, inCleared, myWr} : v \in [Cores -> Ptrs]
    /\ far \in [Cores -> Seq(Msg)]
    /\ pc \in [Cores -> {"idle", "poll", "write"}]
    /\ injected \in [{"AC", "CA"} -> Ids] /\ delivered \in [{"AC", "CA"} -> Ids]
    /\ socketCount \in [Workers -> 0 .. MaxSockets]
    /\ socketState \in [Workers -> [Handles -> {"NONE", "OPENING", "ACTIVE"}]]
    /\ wpc \in [Workers -> {"idle", "poll", "connect"}] /\ wWr \in [Workers -> Ptrs]
    /\ gkMsg \in [Workers -> Msg \cup {NoMsg}]

(* The init functions zero every state; the rings' flags are 0. *)
Init ==
    /\ ring = [r \in Rings |-> [i \in Idx |-> NoMsg]]
    /\ inRing = [c \in Cores |-> [i \in Idx |-> NoMsg]]
    /\ ringWr = [r \in Rings |-> 0] /\ ringRd = [r \in Rings |-> 0]
    /\ outRd = [c \in Cores |-> 0] /\ remPtr = [c \in Cores |-> 0]
    /\ remCleared = [c \in Cores |-> 0] /\ inWr = [c \in Cores |-> 0]
    /\ inRd = [c \in Cores |-> 0] /\ inCleared = [c \in Cores |-> 0]
    /\ far = [c \in Cores |-> <<>>]
    /\ pc = [c \in Cores |-> "idle"] /\ myWr = [c \in Cores |-> 0]
    /\ injected = [d \in {"AC", "CA"} |-> 0] /\ delivered = [d \in {"AC", "CA"} |-> 0]
    /\ socketCount = [w \in Workers |-> 0] /\ wpc = [w \in Workers |-> "idle"]
    /\ socketState = [w \in Workers |-> [h \in Handles |-> "NONE"]]
    /\ wWr = [w \in Workers |-> 0] /\ gkMsg = [w \in Workers |-> NoMsg]

(* Mutant: full only once wrptr is more than FVCC_BUF_SIZE ahead. *)
FvccBufPtrsFullOffByOne(w, r) == Distance(w, r) > S

(* fvcc_buf_ptrs_full(wrptr, rdptr), defined beside req_buf_ptrs_full:    *)
(* the ring is full when wrptr is FVCC_BUF_SIZE ahead of rdptr.           *)
FvccBufPtrsFull(w, r) == Distance(w, r) >= S

(* Mutant: the far ring's room judged from remote_rdptr.ptr (received)  *)
(* instead of ptr_cleared (processed).                                   *)
IsRemoteFvccFullOnPtr(c) == outRd[c] # remPtr[c] /\ Distance(outRd[c], remPtr[c]) >= S

(* is_remote_fvcc_full: out_rdptr is FVCC_BUF_SIZE past ptr_cleared.      *)
IsRemoteFvccFull(c) == outRd[c] # remCleared[c] /\ Distance(outRd[c], remCleared[c]) >= S

(* get_num_msgs_available of core c's inbound. *)
NumMsgsAvailable(c) == Distance(inWr[c], inRd[c])

(* The message at fvc_out_rdptr of core c's inbound. *)
CurrMsg(c) == inRing[c][inRd[c] % S]

(* The slots from rdptr up to (not including) ptr, in ring order. *)
Between(r, p) == {(r + k) % S : k \in 0 .. Distance(p, r) - 1}

(***************************************************************************)
(* Far chips (environment).                                                *)
(***************************************************************************)

(* The far outbound that feeds core c's inbound sends its next message    *)
(* when is_remote_fvcc_full allows, at the index of its out_rdptr, then   *)
(* the pointer sync that sets inbound_wrptr. Forwarded messages carry a   *)
(* ghost id in sending order.                                             *)
FarSend(c, kind) ==
    /\ InDir(c) \in Dirs
    /\ ~(inWr[c] # inCleared[c] /\ Distance(inWr[c], inCleared[c]) >= S)
    /\ LET m == [dir |-> InDir(c), kind |-> kind, id |-> injected[InDir(c)]]
       IN  inRing' = [inRing EXCEPT ![c][inWr[c] % S] = m]
    /\ inWr' = [inWr EXCEPT ![c] = IncPtr(@, 1)]
    /\ injected' = IF kind = "fwd"
                      THEN [injected EXCEPT ![InDir(c)] = (@ + 1) % K]
                      ELSE injected
    /\ UNCHANGED <<ring, ringWr, ringRd, outRd, remPtr, remCleared, far, inRd, inCleared,
                   pc, myWr, delivered>>
    /\ UNCHANGED workerVars

(* The far inbound's update_remote_rdptr_sent: it reports as received     *)
(* everything core c's outbound has sent.                                 *)
FarAckSent(c) ==
    /\ remPtr[c] # outRd[c]
    /\ remPtr' = [remPtr EXCEPT ![c] = outRd[c]]
    /\ UNCHANGED <<ring, ringWr, ringRd, outRd, remCleared, far, inRing, inWr, inRd,
                   inCleared, pc, myWr, injected, delivered>>
    /\ UNCHANGED workerVars

(* The far inbound processes its oldest message (all are forwarded ones) *)
(* and reports ptr_cleared (update_remote_rdptr_cleared).                 *)
FarProcess(c) ==
    /\ far[c] # <<>>
    /\ far' = [far EXCEPT ![c] = Tail(@)]
    /\ remCleared' = [remCleared EXCEPT ![c] = IncPtr(@, 1)]
    /\ delivered' = [delivered EXCEPT ![Head(far[c]).dir] = (@ + 1) % K]
    /\ UNCHANGED <<ring, ringWr, ringRd, outRd, remPtr, inRing, inWr, inRd, inCleared,
                   pc, myWr, injected>>
    /\ UNCHANGED workerVars

(***************************************************************************)
(* Ethernet router cores X and Y.                                          *)
(***************************************************************************)

(* fvcc_outbound_state::fvcc_handler: forward_data_from_fvcc_buffer sends *)
(* the message at out_rdptr unless the remote ring is full or its flags   *)
(* are still 0 (reserved, not yet written), then advance_fvcc_rdptr       *)
(* clears the flags of every slot the far chip has received and moves     *)
(* the ring's rdptr up to remote_rdptr.ptr. The core is not inside        *)
(* forward_message.                                                        *)
OutboundHandler(c) ==
    LET send == /\ ~IsRemoteFvccFull(c)
                /\ ringWr[c] # outRd[c]
                /\ ring[c][outRd[c] % S] # NoMsg
        gone == Between(ringRd[c], remPtr[c])
    IN  /\ pc[c] = "idle"
        /\ send \/ ringRd[c] # remPtr[c]
        /\ far' = IF send THEN [far EXCEPT ![c] = Append(@, ring[c][outRd[c] % S])] ELSE far
        /\ outRd' = IF send THEN [outRd EXCEPT ![c] = IncPtr(@, 1)] ELSE outRd
        /\ ring' = [ring EXCEPT ![c] = [i \in Idx |-> IF i \in gone THEN NoMsg ELSE @[i]]]
        /\ ringRd' = [ringRd EXCEPT ![c] = remPtr[c]]
        /\ UNCHANGED <<ringWr, remPtr, remCleared, inRing, inWr, inRd, inCleared, pc, myWr,
                       injected, delivered>>
        /\ UNCHANGED workerVars

(* The end of process_inbound_packet, after the write barrier:            *)
(* curr_packet_valid = false, fvc_out_rdptr advances, and                 *)
(* update_remote_rdptr_cleared reports it to the far chip.                *)
RetireInbound(c) ==
    /\ inRd' = [inRd EXCEPT ![c] = IncPtr(@, 1)]
    /\ inCleared' = [inCleared EXCEPT ![c] = IncPtr(inRd[c], 1)]

(* fvcc_inbound_state::fvcc_handler on an ASYNC_WR_RESP for this chip:    *)
(* get_curr_packet_valid finds the message, the transaction counter is    *)
(* decremented by a NOC atomic, and the slot is retired.                  *)
InboundLocal(c) ==
    /\ pc[c] = "idle"
    /\ NumMsgsAvailable(c) >= 1 /\ CurrMsg(c) # NoMsg
    /\ CurrMsg(c).kind = "resp"
    /\ RetireInbound(c)
    /\ UNCHANGED <<ring, ringWr, ringRd, outRd, remPtr, remCleared, far, inRing, inWr, pc,
                   myWr, injected, delivered>>
    /\ UNCHANGED workerVars

(* The ring forward_message posts the current message of core c's       *)
(* inbound into: the next hop's outbound (the other core) for a message  *)
(* not for B, gk_fvcc_buf_addr for a SYNC SOCKET_OPEN for B.              *)
Target(c) == IF CurrMsg(c).kind = "open" THEN "GK" ELSE Other(c)

(* fvcc_handler on a message not for this chip, or a socket open for it: *)
(* forward_message reserves a slot of the target ring with an atomic     *)
(* increment of its wrptr (the old value returns) and starts polling its *)
(* rdptr.                                                                 *)
InboundForward(c) ==
    /\ pc[c] = "idle"
    /\ NumMsgsAvailable(c) >= 1 /\ CurrMsg(c) # NoMsg
    /\ CurrMsg(c).kind \in {"fwd", "open"}
    /\ myWr' = [myWr EXCEPT ![c] = ringWr[Target(c)]]
    /\ ringWr' = [ringWr EXCEPT ![Target(c)] = IncPtr(@, 1)]
    /\ pc' = [pc EXCEPT ![c] = "poll"]
    /\ UNCHANGED <<ring, ringRd, outRd, remPtr, remCleared, far, inRing, inWr, inRd, inCleared,
                   injected, delivered>>
    /\ UNCHANGED workerVars

(* A poll of forward_message that finds the ring not full: the header is *)
(* written into the reserved slot, and process_inbound_packet retires    *)
(* the inbound slot. A poll that finds it full changes nothing (and the  *)
(* core goes on spinning).                                                *)
InboundWrite(c) ==
    /\ pc[c] = "poll"
    /\ ~FvccBufPtrsFull(myWr[c], ringRd[Target(c)])
    /\ ring' = [ring EXCEPT ![Target(c)][myWr[c] % S] = CurrMsg(c)]
    /\ RetireInbound(c)
    /\ pc' = [pc EXCEPT ![c] = "idle"]
    /\ UNCHANGED <<ringWr, ringRd, outRd, remPtr, remCleared, far, inRing, inWr, myWr,
                   injected, delivered>>
    /\ UNCHANGED workerVars

(***************************************************************************)
(* Worker cores of B and the gatekeeper.                                   *)
(***************************************************************************)

(* Mutant: the ack offset taken from socket_count after the increment. *)
AckHandleAfterInc(w) == socketCount[w] + 1

(* ack_offset_l = socket_handle = &socket_handles[socket_count], taken   *)
(* before the increment.                                                  *)
AckHandle(w) == socketCount[w]

(* fabric_socket_open up to the atomic of send_message_to_gk: the next    *)
(* handle is marked OPENING, socket_count advances, gk_message is built   *)
(* (SYNC, SOCKET_OPEN, ack_offset = the handle), and the gatekeeper       *)
(* ring's wrptr is incremented with the FVCC_BUF_LOG_SIZE wrap, its old   *)
(* value kept in client_interface->wrptr. The model gives a worker         *)
(* MaxSockets handles; the code does not check socket_count.              *)
SocketOpen(w) ==
    /\ wpc[w] = "idle" /\ socketCount[w] < MaxSockets
    /\ socketState' = [socketState EXCEPT ![w][socketCount[w]] = "OPENING"]
    /\ socketCount' = [socketCount EXCEPT ![w] = @ + 1]
    /\ gkMsg' = [gkMsg EXCEPT ![w] = [dir |-> w, kind |-> "open", id |-> AckHandle(w)]]
    /\ wWr' = [wWr EXCEPT ![w] = ringWr["GK"]]
    /\ ringWr' = [ringWr EXCEPT !["GK"] = IncPtr(@, 1)]
    /\ wpc' = [wpc EXCEPT ![w] = "poll"]
    /\ UNCHANGED <<ring, ringRd, coreVars>>

(* The rest of send_message_to_gk, once a read of the gatekeeper's rdptr *)
(* finds fvcc_buf_ptrs_full false: gk_message is written into slot       *)
(* wrptr & FVCC_SIZE_MASK and the write barrier waits for it. The worker *)
(* then calls fabric_socket_connect on the handle.                       *)
GkWrite(w) ==
    /\ wpc[w] = "poll"
    /\ ~FvccBufPtrsFull(wWr[w], ringRd["GK"])
    /\ ring' = [ring EXCEPT !["GK"][wWr[w] % S] = gkMsg[w]]
    /\ wpc' = [wpc EXCEPT ![w] = "connect"]
    /\ UNCHANGED <<ringWr, ringRd, coreVars, socketCount, socketState, wWr, gkMsg>>

(* fabric_socket_connect returns once the handle it spins on is ACTIVE. *)
Connected(w) ==
    /\ wpc[w] = "connect"
    /\ socketState[w][socketCount[w] - 1] = "ACTIVE"
    /\ wpc' = [wpc EXCEPT ![w] = "idle"]
    /\ UNCHANGED <<ring, ringWr, ringRd, coreVars, socketCount, socketState, wWr, gkMsg>>

(* The gatekeeper takes the valid message at its ring's rdptr, clears its *)
(* flags and advances rdptr; a socket open from a worker of B has its    *)
(* handle (the ack offset) set ACTIVE.                                    *)
GkProcess ==
    LET m == ring["GK"][ringRd["GK"] % S]
    IN  /\ ringWr["GK"] # ringRd["GK"] /\ m # NoMsg
        /\ ring' = [ring EXCEPT !["GK"][ringRd["GK"] % S] = NoMsg]
        /\ ringRd' = [ringRd EXCEPT !["GK"] = IncPtr(@, 1)]
        /\ socketState' = IF m.dir \in Workers /\ m.id \in Handles
                              THEN [socketState EXCEPT ![m.dir][m.id] = "ACTIVE"]
                              ELSE socketState
        /\ UNCHANGED <<ringWr, coreVars, socketCount, wpc, wWr, gkMsg>>

Next ==
    \/ \E c \in Cores :
          \/ \E kind \in FarKinds : FarSend(c, kind)
          \/ FarAckSent(c) \/ FarProcess(c)
          \/ OutboundHandler(c) \/ InboundLocal(c) \/ InboundForward(c) \/ InboundWrite(c)
    \/ \E w \in Workers : SocketOpen(w) \/ GkWrite(w) \/ Connected(w)
    \/ GkProcess

(* The gatekeeper keeps serving its ring; a worker keeps polling and     *)
(* spinning in connect, and a core blocked in forward_message keeps       *)
(* polling the ring it reserved a slot of. The far chips need not send,   *)
(* nor the cores take up new messages.                                    *)
Fairness ==
    /\ WF_vars(GkProcess)
    /\ \A c \in Cores : WF_vars(InboundWrite(c))
    /\ \A w \in Workers : WF_vars(GkWrite(w)) /\ WF_vars(Connected(w))

Spec == Init /\ [][Next]_vars /\ Fairness

-----------------------------------------------------------------------------
(***************************************************************************)
(* Properties.                                                             *)
(***************************************************************************)

(* is_remote_fvcc_full keeps the far inbound ring from being overrun:     *)
(* core c's outbound never has more than FVCC_BUF_SIZE messages sent and  *)
(* not yet processed by the far chip, whose reports arrive late.          *)
RemoteRingNotOverrun == \A c \in Cores : Len(far[c]) <= S

(* forward_message never writes over a message still valid in an        *)
(* outbound ring, one the outbound handler has not yet sent to the far    *)
(* chip: its atomic reservation, its poll of fvcc_buf_ptrs_full and its   *)
(* write race the outbound handler's forward and rdptr advance. A valid   *)
(* slot only keeps its message or is cleared by its consumer. The        *)
(* gatekeeper's ring is left out: with rings small enough for TLC its     *)
(* producers can reach 2 * S reservations and alias (tt_fabric_api.h:312).*)
RingSlotNeverOverwritten ==
    [][\A r \in Cores, i \in Idx :
          ring[r][i] # NoMsg => ring'[r][i] \in {ring[r][i], NoMsg}]_vars

(* A worker that has opened a socket returns from fabric_socket_connect:  *)
(* its SOCKET_OPEN reaches the gatekeeper through the shared ring, and    *)
(* the ack offset it carries is the handle the worker spins on.           *)
EverySocketConnects ==
    \A w \in Workers : wpc[w] = "poll" ~> wpc[w] = "idle"

(* Forwarded control messages reach the far chip of their direction      *)
(* exactly once and in the order they were sent into chip B, across the  *)
(* reservation, the write, the flags test and the flag clearing.         *)
DeliveredInOrder ==
    [][\A c \in Cores :
          Len(far'[c]) > Len(far[c]) =>
              far'[c][Len(far'[c])].id = (delivered[OutDir(c)] + Len(far[c])) % K]_vars

(* No two cores ever wait on each other: it is never the case that the    *)
(* inbound of each core spins in forward_message on the other core's full *)
(* outbound ring, which only that other, spinning core could drain.       *)
NoCircularForwardWait ==
    ~(\A c \in Cores : pc[c] = "poll" /\ FvccBufPtrsFull(myWr[c], ringRd[Other(c)]))

====
