------------------------------ MODULE UcastDest ------------------------------
(***************************************************************************)
(* A worker's header builders (tt_fabric_api.h) and the producer of the   *)
(* destination router that executes the packet (tt_fabric.h,              *)
(* fvc_producer_state: get_num_words_available, advance_next_packet,      *)
(* process_inbound_packet on a UCAST_DEST, issue_async_write,             *)
(* flush_async_writes). One packet at a time reaches the producer buffer *)
(* of B words, word by word, as the upstream sender's credits allow.      *)
(* A 64-bit NOC address is xy << 32 | offset; the model keeps the split   *)
(* with AddrBase standing for 2^32.                                       *)
(***************************************************************************)
EXTENDS Integers

CONSTANTS
    B,          \* buffer_size of the producer buffer, in words
    HeaderWords,\* PACKET_HEADER_SIZE_WORDS
    WordBytes,  \* PACKET_WORD_SIZE_BYTES
    AddrBase,   \* 2^32: the weight of the NOC xy in a 64-bit address
    Addrs,      \* 64-bit NOC addresses a worker targets
    Sizes       \* packet_size_bytes a worker sends, header included

Hi(a) == a \div AddrBase          \* addr >> 32
Lo(a) == a % AddrBase             \* (uint32_t)addr
Join(h, l) == h * AddrBase + l    \* ((uint64_t)h << 32) | l

(* (size + PACKET_WORD_SIZE_BYTES - 1) >> 4 *)
SizeInWords(size) == (size + WordBytes - 1) \div WordBytes

Kinds == {"write", "atomic", "write_atomic"}

(* fabric_async_write_add_header. *)
AsyncWriteHeader(w, size) ==
    [flags |-> "FORWARD", size |-> size, cmd |-> {"ASYNC_WR"},
     tl |-> Lo(w), th |-> Hi(w), axy |-> 0, aoff |-> 0]

(* fabric_atomic_inc_add_header: an inline header of PACKET_HEADER_SIZE. *)
AtomicIncHeader(a) ==
    [flags |-> "INLINE_FORWARD", size |-> HeaderWords * WordBytes, cmd |-> {"ATOMIC_INC"},
     tl |-> Lo(a), th |-> Hi(a), axy |-> 0, aoff |-> 0]

(* fabric_async_write_atomic_inc_add_header. *)
AsyncWriteAtomicIncHeader(w, a, size) ==
    [flags |-> "FORWARD", size |-> size, cmd |-> {"ASYNC_WR", "ATOMIC_INC"},
     tl |-> Lo(w), th |-> Hi(a), axy |-> Hi(a), aoff |-> Lo(a)]

VARIABLES
    req,        \* ghost: what the worker asked for [kind, write, atomic, size]
    hdr,        \* the header in the producer buffer / current_packet_header
    toSend,     \* words of the packet the sender has not sent yet
    received,   \* *words_received: words landed, not yet taken in
    inbound,    \* words_inbound
    credits,    \* words the sender may still send (its view of free space)
    outRd,      \* fvc_out_rdptr
    valid,      \* curr_packet_valid
    inProgress, \* packet_in_progress
    remaining,  \* packet_words_remaining
    dest,       \* packet_dest
    cleared,    \* words_cleared
    writes,     \* noc_async_write calls issued: [addr, words]
    atomics     \* noc_fast_atomic_increment calls issued: addresses

vars == <<req, hdr, toSend, received, inbound, credits, outRd, valid, inProgress,
          remaining, dest, cleared, writes, atomics>>

NoHeader == AsyncWriteHeader(0, 0)

Init ==
    /\ req = [kind |-> "none", write |-> 0, atomic |-> 0, size |-> 0] /\ hdr = NoHeader
    /\ toSend = 0 /\ received = 0 /\ inbound = 0 /\ credits = B /\ outRd = 0
    /\ valid = FALSE /\ inProgress = 0 /\ remaining = 0 /\ dest = 0 /\ cleared = 0
    /\ writes = {} /\ atomics = {}

(* A worker builds the next packet once the last one is executed and its  *)
(* words are gone from the producer buffer.                               *)
Build ==
    /\ toSend = 0 /\ ~valid /\ inbound = 0 /\ received = 0
    /\ \E k \in Kinds, w \in Addrs, a \in Addrs, size \in Sizes :
        LET h == CASE k = "write"  -> AsyncWriteHeader(w, size)
                   [] k = "atomic" -> AtomicIncHeader(a)
                   [] OTHER        -> AsyncWriteAtomicIncHeader(w, a, size)
        IN  /\ req' = [kind |-> k, write |-> w, atomic |-> a, size |-> h.size]
            /\ hdr' = h /\ toSend' = SizeInWords(h.size)
            /\ writes' = {} /\ atomics' = {}
    /\ UNCHANGED <<received, inbound, credits, outRd, valid, inProgress, remaining,
                   dest, cleared>>

(* The upstream sender moves one word over the link when it holds credit. *)
SendWord ==
    /\ toSend > 0 /\ credits > 0
    /\ toSend' = toSend - 1 /\ credits' = credits - 1 /\ received' = received + 1
    /\ UNCHANGED <<req, hdr, inbound, outRd, valid, inProgress, remaining, dest,
                   cleared, writes, atomics>>

(* advance_out_rdptr in router mode. *)
AdvOutRd(p, n) == IF p + n >= B THEN p + n - B ELSE p + n

(* issue_async_write on the words counted in inb: a write of what is      *)
(* inbound, owed by the packet and before the buffer wraps.               *)
IssueAsyncWrite(inb, rem, rd, dst, clr) ==
    LET n == IF inb < rem THEN inb ELSE rem
        k == IF n < B - rd THEN n ELSE B - rd
    IN  [n |-> k, inbound |-> inb - k, remaining |-> rem - k, outRd |-> AdvOutRd(rd, k),
         cleared |-> clr + k, dest |-> dst + k * WordBytes,
         write |-> IF k > 0 THEN {[addr |-> dst, words |-> k]} ELSE {}]

(* get_curr_packet_valid: get_num_words_available takes in the words      *)
(* received; once a header's worth is inbound, advance_next_packet sets   *)
(* packet_words_remaining and, for a valid header addressed to this chip  *)
(* without multicast, marks it UCAST_DEST.                                *)
AdvanceNextPacket ==
    /\ ~valid /\ inbound + received >= HeaderWords
    /\ inbound' = inbound + received /\ received' = 0
    /\ valid' = TRUE /\ remaining' = SizeInWords(hdr.size)
    /\ UNCHANGED <<req, hdr, toSend, credits, outRd, inProgress, dest, cleared, writes,
                   atomics>>

(* process_inbound_packet, FORWARD with ASYNC_WR, first call: packet_dest  *)
(* from target_offset_h:target_offset_l, the header words consumed, and   *)
(* issue_async_write<false> on the words already inbound.                 *)
WriteStart ==
    /\ valid /\ hdr.flags = "FORWARD" /\ "ASYNC_WR" \in hdr.cmd /\ inProgress = 0
    /\ LET w == IssueAsyncWrite(inbound - HeaderWords, remaining - HeaderWords,
                                AdvOutRd(outRd, HeaderWords), Join(hdr.th, hdr.tl),
                                HeaderWords)
       IN  /\ inbound' = w.inbound /\ remaining' = w.remaining /\ outRd' = w.outRd
           /\ cleared' = w.cleared /\ dest' = w.dest /\ writes' = writes \cup w.write
    /\ inProgress' = 1
    /\ UNCHANGED <<req, hdr, toSend, received, credits, valid, atomics>>

(* flush_async_writes: the credits of the words cleared go back to the    *)
(* sender (free_receiver_buffer_space).                                   *)
Flush == [credits |-> credits + cleared, cleared |-> 0]

(* A later call with words still owed: flush, then issue_async_write<true>. *)
WriteContinue ==
    /\ valid /\ hdr.flags = "FORWARD" /\ "ASYNC_WR" \in hdr.cmd /\ inProgress = 1
    /\ remaining # 0
    /\ LET w == IssueAsyncWrite(inbound + received, remaining, outRd, dest, 0)
       IN  /\ received' = 0
           /\ inbound' = w.inbound /\ remaining' = w.remaining /\ outRd' = w.outRd
           /\ cleared' = w.cleared /\ dest' = w.dest /\ writes' = writes \cup w.write
    /\ credits' = Flush.credits
    /\ UNCHANGED <<req, hdr, toSend, valid, inProgress, atomics>>

(* The call that finds the packet written: flush, the atomic increment of *)
(* a fused command at noc_xy:l1_offset, and the packet is retired.        *)
WriteFinish ==
    /\ valid /\ hdr.flags = "FORWARD" /\ "ASYNC_WR" \in hdr.cmd /\ inProgress = 1
    /\ remaining = 0
    /\ credits' = Flush.credits /\ cleared' = Flush.cleared
    /\ atomics' = IF "ATOMIC_INC" \in hdr.cmd THEN atomics \cup {Join(hdr.axy, hdr.aoff)}
                                              ELSE atomics
    /\ inProgress' = 0 /\ valid' = FALSE
    /\ UNCHANGED <<req, hdr, toSend, received, inbound, outRd, remaining, dest, writes>>

(* INLINE_FORWARD, not SOCKET_CLOSE: the atomic increment at              *)
(* target_offset_h:target_offset_l; the header words are consumed and     *)
(* their credits returned at once.                                        *)
AtomicInline ==
    /\ valid /\ hdr.flags = "INLINE_FORWARD"
    /\ atomics' = atomics \cup {Join(hdr.th, hdr.tl)}
    /\ remaining' = remaining - HeaderWords /\ outRd' = AdvOutRd(outRd, HeaderWords)
    /\ inbound' = inbound - HeaderWords /\ credits' = credits + HeaderWords
    /\ valid' = FALSE
    /\ UNCHANGED <<req, hdr, toSend, received, inProgress, dest, cleared, writes>>

Next ==
    \/ Build \/ SendWord \/ AdvanceNextPacket
    \/ WriteStart \/ WriteContinue \/ WriteFinish \/ AtomicInline

Spec == Init /\ [][Next]_vars

-----------------------------------------------------------------------------
(* The bytes a worker asked to write: the packet after its header.        *)
DataBytes(r) == SizeInWords(r.size) * WordBytes - HeaderWords * WordBytes

(* Every NOC write the destination router issues for a packet lands      *)
(* inside the range the worker passed as its destination address, for    *)
(* the plain and the fused write builders alike (spec 2: the target       *)
(* offset is the write destination).                                      *)
WritesAtRequestedAddress ==
    \A w \in writes :
        /\ w.addr >= req.write
        /\ w.addr + w.words * WordBytes <= req.write + DataBytes(req)
====
