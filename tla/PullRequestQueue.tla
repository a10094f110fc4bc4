--------------------------- MODULE PullRequestQueue ---------------------------
(***************************************************************************)
(* The request queue of a fabric router and the broker that fills it       *)
(* (tt_fabric.h: tt_fabric_send_pull_request and the req_buf_* helpers).   *)
(*                                                                         *)
(* Any number of senders (worker clients through fabric_send_pull_request, *)
(* or the inbound producer of another router) post pull-request            *)
(* descriptors into one router's queue of QSize slots:                     *)
(*   1. an atomic increment of the queue's wrptr returns the sender's slot *)
(*      pointer (the atomic wraps at 2 * QSize, CHAN_REQ_BUF_LOG_SIZE);    *)
(*   2. the sender polls the queue's rdptr until req_buf_ptrs_full is      *)
(*      false for its pointer;                                             *)
(*   3. it writes the descriptor, whose non-zero flags mark the slot valid.*)
(* The router serves the slot at rdptr when fvc_req_valid, acknowledges    *)
(* the pulled words to the sender (words_read), and then retires the slot *)
(* with req_buf_advance_rdptr, which clears the flags and advances rdptr.  *)
(* The router loop that orders these calls is not in the source tree; it   *)
(* is modelled from the spec (section 4.4).                                *)
(*                                                                         *)
(* Descriptors are abstracted to the sender and a ghost ticket number: the *)
(* n-th reservation ever made gets ticket n (mod Cycle), so a descriptor   *)
(* that lands in a slot other than its own lap can be told apart.          *)
(***************************************************************************)
EXTENDS Naturals, FiniteSets

CONSTANTS
    Senders,    \* the cores that post pull requests into this queue
    QSize,      \* CHAN_REQ_BUF_SIZE, a power of two
    NoReq       \* an empty slot: descriptor flags == 0

ASSUME QSize \in {1, 2, 4, 8, 16}
ASSUME Senders # {} /\ IsFiniteSet(Senders)

PtrWrap == 2 * QSize     \* CHAN_REQ_BUF_PTR_MASK + 1
Cycle   == 4 * QSize     \* ghost ticket modulus: twice the pointer range
Slots   == 0 .. QSize - 1
Ptrs    == 0 .. PtrWrap - 1
Tickets == 0 .. Cycle - 1
Req     == [snd : Senders, tkt : Tickets]

VARIABLES
    wrptr,      \* chan_req_buf.wrptr.ptr, advanced by the senders' atomics
    rdptr,      \* chan_req_buf.rdptr.ptr, advanced by the router
    slot,       \* chan_req[i]: a descriptor, or NoReq when its flags are 0
    pc,         \* where each sender is in tt_fabric_send_pull_request
    myWrptr,    \* local_pull_request->wrptr.ptr: the atomic's return value
    myTkt,      \* ghost: ticket of the sender's current reservation
    reserved,   \* ghost: reservations made so far (mod Cycle)
    served,     \* ghost: slots retired so far (mod Cycle)
    headServed, \* the router has served the slot at rdptr, not yet retired it
    flushed     \* local_pull_request words_read >= words_written, per sender

vars == <<wrptr, rdptr, slot, pc, myWrptr, myTkt, reserved, served, headServed, flushed>>

(* The slot index of a pointer: ptr & CHAN_REQ_BUF_SIZE_MASK. *)
SlotOf(p) == p % QSize

(* Mutant: the read pointer masked by the slot mask instead of the 2x one. *)
ReqBufPtrAdvanceSlotMask(p) == (p + 1) % QSize

(* req_buf_ptr_advance: ptr + 1 masked by CHAN_REQ_BUF_PTR_MASK. *)
ReqBufPtrAdvance(p) == (p + 1) % PtrWrap

(* Mutant: the atomic increment issued with a 32-bit wrap. *)
AtomicIncNoWrap(p) == p + 1

(* The NOC atomic increment of wrptr with wrap CHAN_REQ_BUF_LOG_SIZE. *)
AtomicIncWrap(p) == (p + 1) % PtrWrap

ReqBufPtrsEmpty(w, r) == w = r

(* Mutant: an off-by-one full test (distance > size). *)
ReqBufPtrsFullOffByOne(w, r) ==
    LET distance == IF w >= r THEN w - r ELSE w + 2 * QSize - r
    IN  ~ReqBufPtrsEmpty(w, r) /\ distance > QSize

(* req_buf_ptrs_full: the unwrapped distance from rdptr to wrptr. *)
ReqBufPtrsFull(w, r) ==
    LET distance == IF w >= r THEN w - r ELSE w + 2 * QSize - r
    IN  ~ReqBufPtrsEmpty(w, r) /\ distance >= QSize

(* fvc_req_valid: the flags of the slot at rdptr are non-zero. *)
FvcReqValid == slot[SlotOf(rdptr)] # NoReq

TypeOK ==
    /\ wrptr \in Ptrs /\ rdptr \in Ptrs
    /\ slot \in [Slots -> Req \cup {NoReq}]
    /\ pc \in [Senders -> {"idle", "poll", "write", "wait"}]
    /\ myWrptr \in [Senders -> Ptrs]
    /\ myTkt \in [Senders -> Tickets]
    /\ reserved \in Tickets /\ served \in Tickets
    /\ headServed \in BOOLEAN
    /\ flushed \in [Senders -> BOOLEAN]

Init ==
    /\ wrptr = 0 /\ rdptr = 0
    /\ slot = [i \in Slots |-> NoReq]
    /\ pc = [s \in Senders |-> "idle"]
    /\ myWrptr = [s \in Senders |-> 0]
    /\ myTkt = [s \in Senders |-> 0]
    /\ reserved = 0 /\ served = 0
    /\ headServed = FALSE
    /\ flushed = [s \in Senders |-> TRUE]    \* fabric_endpoint_init zeroes both counts

(***************************************************************************)
(* Sender: tt_fabric_send_pull_request, one action per blocking step.      *)
(***************************************************************************)

(* fabric_setup_pull_request: words_written = size_in_words (> 0) and     *)
(* words_read = 0 in the sender's local pull request.                     *)
SetupPullRequest(f, s) == [f EXCEPT ![s] = FALSE]

(* fabric_setup_pull_request, then the atomic increment of the queue's   *)
(* wrptr, flushed, its old value kept.                                    *)
Reserve(s) ==
    /\ pc[s] = "idle"
    /\ myWrptr' = [myWrptr EXCEPT ![s] = wrptr]
    /\ wrptr' = AtomicIncWrap(wrptr)
    /\ myTkt' = [myTkt EXCEPT ![s] = reserved]
    /\ reserved' = (reserved + 1) % Cycle
    /\ pc' = [pc EXCEPT ![s] = "poll"]
    /\ flushed' = SetupPullRequest(flushed, s)
    /\ UNCHANGED <<rdptr, slot, served, headServed>>

(* One read of the queue's rdptr that finds the reserved slot free. A read *)
(* that finds it full changes nothing but the context switch.              *)
Poll(s) ==
    /\ pc[s] = "poll"
    /\ ~ReqBufPtrsFull(myWrptr[s], rdptr)
    /\ pc' = [pc EXCEPT ![s] = "write"]
    /\ UNCHANGED <<wrptr, rdptr, slot, myWrptr, myTkt, reserved, served, headServed, flushed>>

(* noc_async_write_one_packet of the descriptor into slot wrptr & MASK. *)
WriteDescriptor(s) ==
    /\ pc[s] = "write"
    /\ slot' = [slot EXCEPT ![SlotOf(myWrptr[s])] = [snd |-> s, tkt |-> myTkt[s]]]
    /\ pc' = [pc EXCEPT ![s] = "wait"]
    /\ UNCHANGED <<wrptr, rdptr, myWrptr, myTkt, reserved, served, headServed, flushed>>

(***************************************************************************)
(* Router: serve the valid slot at rdptr, acknowledge, then retire it.     *)
(***************************************************************************)

(* The request at rdptr is pulled in full and words_read is acknowledged  *)
(* to the descriptor's ack_addr, raising it to words_written.             *)
ServeRequest ==
    /\ ~headServed
    /\ ~ReqBufPtrsEmpty(wrptr, rdptr)
    /\ FvcReqValid
    /\ flushed' = [flushed EXCEPT ![slot[SlotOf(rdptr)].snd] = TRUE]
    /\ headServed' = TRUE
    /\ UNCHANGED <<wrptr, rdptr, slot, pc, myWrptr, myTkt, reserved, served>>

(* fabric_wait_for_pull_request_flushed: the sender spins until words_read *)
(* reaches words_written, then may post its next request, possibly while  *)
(* its last slot is not yet retired.                                      *)
WaitFlushed(s) ==
    /\ pc[s] = "wait" /\ flushed[s]
    /\ pc' = [pc EXCEPT ![s] = "idle"]
    /\ UNCHANGED <<wrptr, rdptr, slot, myWrptr, myTkt, reserved, served, headServed, flushed>>

(* Mutant: rdptr advanced without clearing the slot's valid flags. *)
ReqBufAdvanceRdptrNoClear ==
    /\ headServed
    /\ rdptr' = ReqBufPtrAdvance(rdptr)
    /\ served' = (served + 1) % Cycle
    /\ headServed' = FALSE
    /\ UNCHANGED <<wrptr, slot, pc, myWrptr, myTkt, reserved, flushed>>

(* req_buf_advance_rdptr: clear the slot's flags, then advance rdptr. *)
ReqBufAdvanceRdptr ==
    /\ headServed
    /\ slot' = [slot EXCEPT ![SlotOf(rdptr)] = NoReq]
    /\ rdptr' = ReqBufPtrAdvance(rdptr)
    /\ served' = (served + 1) % Cycle
    /\ headServed' = FALSE
    /\ UNCHANGED <<wrptr, pc, myWrptr, myTkt, reserved, flushed>>

Next ==
    \/ \E s \in Senders : Reserve(s) \/ Poll(s) \/ WriteDescriptor(s) \/ WaitFlushed(s)
    \/ ServeRequest
    \/ ReqBufAdvanceRdptr

(* The router's polling loop never stops; a sender spinning in the broker *)
(* keeps polling and writing. Senders are not obliged to post requests.    *)
Fairness ==
    /\ WF_vars(ServeRequest)
    /\ WF_vars(ReqBufAdvanceRdptr)
    /\ \A s \in Senders : WF_vars(Poll(s)) /\ WF_vars(WriteDescriptor(s)) /\ WF_vars(WaitFlushed(s))

Spec == Init /\ [][Next]_vars /\ Fairness

-----------------------------------------------------------------------------
(***************************************************************************)
(* Properties.                                                             *)
(***************************************************************************)

(* A valid descriptor is never overwritten by another sender's descriptor: *)
(* the slot a sender writes after its poll of rdptr is one the router has  *)
(* already retired (req_buf_ptrs_full on the atomic's 2*QSize-wrapped      *)
(* pointer, tt_fabric_send_pull_request).                                  *)
SlotNeverOverwritten ==
    [][\A i \in Slots : slot[i] # NoReq => slot'[i] \in {slot[i], NoReq}]_slot

(* The tickets of the requests reserved and not yet served, oldest first: *)
(* the head's ticket is served, or served + 1 once the head is served and *)
(* waits to be retired.                                                   *)
PendingTickets ==
    LET first == (served + IF headServed THEN 1 ELSE 0) % Cycle
        n     == (reserved + Cycle - first) % Cycle
    IN  [k \in 1 .. n |-> (first + k - 1) % Cycle]

(* A sender whose request is outstanding: posted, and not yet seen flushed *)
(* (a sender still spinning after its words_read caught up is served).    *)
Outstanding(s) == pc[s] # "idle" /\ ~(pc[s] = "wait" /\ flushed[s])

(* The sender holding ticket t in its outstanding reservation. *)
Holder(t) == CHOOSE s \in Senders : Outstanding(s) /\ myTkt[s] = t

Fifo == INSTANCE RequestFifo WITH
            queue <- [k \in DOMAIN PendingTickets |-> Holder(PendingTickets[k])],
            busy <- {s \in Senders : Outstanding(s)}

(* The queue, with its racing atomics, polls, late descriptor writes and  *)
(* separate retire step, behaves as a FIFO of requests: the router        *)
(* serves the oldest reservation, found through the descriptor in its    *)
(* slot, and its acknowledgement releases the sender that made it (a     *)
(* sender whose words_read has caught up is no longer waiting on it).     *)
FifoRefinement == Fifo!Spec

(* Every sender that has reserved a slot is eventually served and returns  *)
(* from the broker: no request is lost and no sender polls for ever.       *)
EveryRequestServed ==
    \A s \in Senders : pc[s] = "poll" ~> pc[s] = "idle"

=============================================================================
