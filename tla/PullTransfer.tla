------------------------------ MODULE PullTransfer ------------------------------
(***************************************************************************)
(* One hop of the fabric data path (tt_fabric.h): the inbound producer     *)
(* buffer of a router (fvc_producer_state, router mode) relaying packets   *)
(* to the consumer buffer of the next router (fvc_consumer_state) with the *)
(* pull protocol.                                                          *)
(*                                                                         *)
(*  upstream --eth--> producer buffer --pull request--> consumer buffer    *)
(*                                                                         *)
(* The upstream router writes words into the producer's buffer while it    *)
(* has credit (remote words free), and counts them into words_received.    *)
(* The producer parses each header, posts one pull request per packet and  *)
(* raises words_written as more of the packet arrives. The consumer pulls  *)
(* min(written - read, wraps, free space, N/2) words at a time, raises     *)
(* words_read and acknowledges it; the producer returns exactly the words  *)
(* read as credit upstream. Header-only INLINE_FORWARD packets travel in   *)
(* the request descriptor itself and are moved by move_data_to_fvc_buffer.*)
(*                                                                         *)
(* Words are ghost tags: the g-th word of the stream (mod WordCycle) is g, *)
(* and sits at slot g % N of the producer buffer. NOC writes between the   *)
(* two cores are FIFO channels (one source, one destination, one NOC).     *)
(* The request queue between them is PullRequestQueue; here it is a FIFO   *)
(* of the entries this producer posted.                                    *)
(***************************************************************************)
EXTENDS Naturals, Sequences, SequencesExt

CONSTANTS
    N,          \* buffer_size: words in each FVC buffer
    H,          \* PACKET_HEADER_SIZE_WORDS
    Packets,    \* the stream of packets, repeated: <<[kind, words], ...>>
    NoWord      \* contents of a slot never written

Period    == FoldLeft(LAMBDA acc, p : acc + p.words, 0, Packets)
WordCycle == 2 * Period
Words     == 0 .. WordCycle - 1
Pos       == 0 .. N - 1

ASSUME /\ N \in Nat \ {0} /\ H \in 1 .. N
       /\ WordCycle % N = 0
       /\ \A i \in DOMAIN Packets :
            /\ Packets[i].kind \in {"FORWARD", "INLINE_FORWARD", "MCAST"}
            /\ Packets[i].words >= H
            /\ Packets[i].kind = "INLINE_FORWARD" => Packets[i].words = H

(* Start offset of packet i in a period, and the packet a word belongs to *)
(* (tables computed once, since every step consults them).               *)
StartTable == [i \in DOMAIN Packets |->
                 FoldLeft(LAMBDA acc, p : acc + p.words, 0, SubSeq(Packets, 1, i - 1))]
OwnerTable == [o \in 0 .. Period - 1 |->
                 CHOOSE i \in DOMAIN Packets :
                     StartTable[i] <= o /\ o < StartTable[i] + Packets[i].words]
PacketStart(i) == StartTable[i]
PacketOf(g) == OwnerTable[g % Period]
IsHeaderStart(g) == g % Period = PacketStart(PacketOf(g))

Dist(a, b) == (a - b) % WordCycle      \* unwrapped count from b up to a
Wrap(p, n) == (p + n) % N              \* advance_ptr / inc_ptr_with_wrap
NoRead     == [src |-> 0, dst |-> 0, n |-> 0]

VARIABLES
    \* upstream router (its outbound consumer buffer, abstracted)
    upCredit,       \* its receiver_buffer_space: words free in our buffer
    sentG,          \* ghost: next stream word it will send
    \* producer (fvc_producer_state)
    pbuf,           \* the producer buffer's contents
    wordsReceived,  \* words_received stream register
    wordsInbound,   \* words_inbound: received, not yet advertised
    outRd,          \* fvc_out_rdptr
    pktValid,       \* curr_packet_valid
    pktInProgress,  \* packet_in_progress
    pktRemaining,   \* packet_words_remaining
    hdr,            \* ghost: stream index of the current header
    wordsCleared,   \* words_cleared
    lpr,            \* local_pull_request->pull_request: [written, read]
    takenG,         \* ghost: stream words taken out of the producer buffer
    pktDest,        \* packet_dest of a multicast packet, in words past its target
    lwq,            \* its local NOC writes issued and not yet flushed, per word
    \* NOC channels
    toEntry,        \* producer -> consumer request entry writes
    toProd,         \* consumer -> producer words_read acknowledgements
    \* consumer (fvc_consumer_state)
    reqQ,           \* this producer's entries in the consumer's queue
    cbuf,           \* the consumer buffer's contents
    cFree,          \* sender_buffer_space: words free in the consumer buffer
    cPullWr,        \* fvc_pull_wrptr
    cOutRd,         \* fvc_out_rdptr
    cInProgress,    \* packet_in_progress
    cRemaining,     \* packet_words_remaining
    cToForward,     \* total_words_to_forward
    pend,           \* the NOC read in flight: pull_words_in_flight = pend.n
    drainedG        \* ghost: stream words forwarded out of the consumer

upVars   == <<upCredit, sentG>>
mcVars   == <<pktDest, lwq>>
prodVars == <<pbuf, wordsReceived, wordsInbound, outRd, pktValid, pktInProgress,
              pktRemaining, hdr, wordsCleared, lpr, takenG, mcVars>>
consVars == <<reqQ, cbuf, cFree, cPullWr, cOutRd, cInProgress, cRemaining,
              cToForward, pend, drainedG>>
vars == <<upVars, prodVars, toEntry, toProd, consVars>>

LocalWrite == [src : Pos, off : 0 .. Period, base : Words]

Entry == [kind : {"FORWARD", "INLINE_FORWARD"}, written : 0 .. Period,
          read : 0 .. Period, rd : Pos, size : 0 .. Period, hdrG : Words]
Msg   == [t : {"desc"}, e : Entry] \cup [t : {"ww"}, val : 0 .. Period]

TypeOK ==
    /\ upCredit \in 0 .. N /\ sentG \in Words
    /\ pbuf \in [Pos -> Words \cup {NoWord}]
    /\ wordsReceived \in 0 .. N /\ wordsInbound \in 0 .. N /\ outRd \in Pos
    /\ pktValid \in BOOLEAN /\ pktInProgress \in {0, 1}
    /\ pktRemaining \in 0 .. Period /\ hdr \in Words
    /\ wordsCleared \in 0 .. Period
    /\ lpr \in [written : 0 .. Period, read : 0 .. Period] /\ takenG \in Words
    /\ pktDest \in 0 .. Period /\ lwq \in Seq(LocalWrite)
    /\ toEntry \in Seq(Msg) /\ toProd \in Seq(0 .. Period)
    /\ reqQ \in Seq(Entry)
    /\ cbuf \in [Pos -> Words \cup {NoWord}]
    /\ cFree \in 0 .. N /\ cPullWr \in Pos /\ cOutRd \in Pos
    /\ cInProgress \in {0, 1} /\ cRemaining \in 0 .. Period
    /\ cToForward \in 0 .. N /\ drainedG \in Words
    /\ pend \in [src : Pos, dst : Pos, n : 0 .. N]

Init ==
    /\ upCredit = N /\ sentG = 0
    /\ pbuf = [i \in Pos |-> NoWord]
    /\ wordsReceived = 0 /\ wordsInbound = 0 /\ outRd = 0
    /\ pktValid = FALSE /\ pktInProgress = 0 /\ pktRemaining = 0 /\ hdr = 0
    /\ wordsCleared = 0 /\ lpr = [written |-> 0, read |-> 0] /\ takenG = 0
    /\ pktDest = 0 /\ lwq = <<>>
    /\ toEntry = <<>> /\ toProd = <<>>
    /\ reqQ = <<>> /\ cbuf = [i \in Pos |-> NoWord]
    /\ cFree = N /\ cPullWr = 0 /\ cOutRd = 0
    /\ cInProgress = 0 /\ cRemaining = 0 /\ cToForward = 0 /\ drainedG = 0
    /\ pend = NoRead

(***************************************************************************)
(* Upstream router: forward_data_from_fvc_buffer on the far side of the    *)
(* link, one word per step, then its words_sent_remote_update increment.   *)
(***************************************************************************)
Arrive ==
    /\ upCredit > 0
    /\ pbuf' = [pbuf EXCEPT ![sentG % N] = sentG]
    /\ sentG' = (sentG + 1) % WordCycle
    /\ upCredit' = upCredit - 1
    /\ wordsReceived' = wordsReceived + 1
    /\ UNCHANGED <<wordsInbound, outRd, pktValid, pktInProgress, pktRemaining, hdr,
                   wordsCleared, lpr, takenG, mcVars, toEntry, toProd, consVars>>

(***************************************************************************)
(* Producer. Every handler starts with get_num_words_available, which     *)
(* folds words_received into words_inbound (and returns the same count as *)
(* credit to the upstream's own buffer, outside this model).              *)
(***************************************************************************)
Folded == wordsInbound + wordsReceived

(* get_curr_packet_valid with a full header available: advance_next_packet *)
(* copies the header at fvc_out_rdptr and takes packet_words_remaining    *)
(* from it; on a relay hop the packet is NOT_DEST. (A header that fails   *)
(* its checksum would set packet_corrupted; HeaderAtReadPointer states    *)
(* that this never happens to a header of the stream.)                    *)
GetCurrPacketValid ==
    /\ ~pktValid
    /\ Folded >= H
    /\ wordsInbound' = Folded /\ wordsReceived' = 0
    /\ hdr' = pbuf[outRd]
    /\ pktRemaining' = Packets[PacketOf(pbuf[outRd])].words
    /\ pktValid' = TRUE
    /\ UNCHANGED <<upVars, pbuf, outRd, pktInProgress, wordsCleared, lpr, takenG,
                   mcVars, toEntry, toProd, consVars>>

(* get_curr_packet_valid with less than a header available: only the fold. *)
GetCurrPacketValidPartial ==
    /\ ~pktValid
    /\ Folded < H /\ wordsReceived > 0
    /\ wordsInbound' = Folded /\ wordsReceived' = 0
    /\ UNCHANGED <<upVars, pbuf, outRd, pktValid, pktInProgress, pktRemaining, hdr,
                   wordsCleared, lpr, takenG, mcVars, toEntry, toProd, consVars>>

CurKind == Packets[PacketOf(hdr)].kind

(* Mutant: words_available not capped by packet_words_remaining. *)
WordsAvailableUncapped == Folded

(* pull_data_from_fvc_buffer's words_available: the folded count capped by *)
(* what is left of the current packet.                                    *)
WordsAvailable == Min({Folded, pktRemaining})

(* pull_data_from_fvc_buffer, first call for a FORWARD packet: fill in the *)
(* pull request with the words available so far, advertise them and post  *)
(* it to the next hop (tt_fabric_send_pull_request).                      *)
PullStartForward ==
    /\ pktValid /\ pktInProgress = 0 /\ CurKind = "FORWARD"
    /\ LET avail == WordsAvailable
       IN  /\ lpr' = [written |-> avail, read |-> 0]
           /\ wordsCleared' = 0
           /\ pktInProgress' = 1
           /\ pktRemaining' = pktRemaining - avail
           /\ outRd' = Wrap(outRd, avail)
           /\ wordsInbound' = Folded - avail /\ wordsReceived' = 0
           /\ toEntry' = Append(toEntry,
                [t |-> "desc", e |-> [kind |-> "FORWARD", written |-> avail, read |-> 0,
                  rd |-> outRd, size |-> Packets[PacketOf(hdr)].words, hdrG |-> hdr]])
    /\ UNCHANGED <<upVars, pbuf, pktValid, hdr, takenG, mcVars, toProd, consVars>>

(* pull_data_from_fvc_buffer for an INLINE_FORWARD packet: the header is  *)
(* copied into the request itself, posted, and its words are returned as  *)
(* credit at once by flush_async_writes; the packet is done.              *)
PullInline ==
    /\ pktValid /\ pktInProgress = 0 /\ CurKind = "INLINE_FORWARD"
    /\ LET avail == WordsAvailable
       IN  /\ pktRemaining' = pktRemaining - avail
           /\ outRd' = Wrap(outRd, avail)
           /\ wordsInbound' = Folded - avail /\ wordsReceived' = 0
           /\ takenG' = (takenG + avail) % WordCycle
           /\ upCredit' = upCredit + avail
           /\ toEntry' = Append(toEntry,
                [t |-> "desc", e |-> [kind |-> "INLINE_FORWARD", written |-> 0, read |-> 0,
                  rd |-> outRd, size |-> H, hdrG |-> hdr]])
    /\ pktValid' = FALSE
    /\ wordsCleared' = 0
    /\ UNCHANGED <<sentG, pbuf, pktInProgress, hdr, lpr, mcVars, toProd, consVars>>

(* Mutant: credit returned for the words advertised, not the words read. *)
ClearedCreditAdvertised == lpr.written - wordsCleared

(* Words the puller has read since the last call go back upstream as credit. *)
ClearedCredit == lpr.read - wordsCleared

(* pull_data_from_fvc_buffer while the packet is in progress and more of   *)
(* it has arrived: return credit, advertise the new words by raising      *)
(* words_written in the consumer's entry (noc_inline_dw_write to hop_dest).*)
PullAdvertise ==
    /\ pktValid /\ pktInProgress = 1 /\ CurKind = "FORWARD"
    /\ LET avail == WordsAvailable
       IN  /\ pktRemaining > 0 /\ avail > 0
           /\ upCredit' = upCredit + ClearedCredit
           /\ wordsCleared' = lpr.read
           /\ outRd' = Wrap(outRd, avail)
           /\ lpr' = [lpr EXCEPT !.written = @ + avail]
           /\ toEntry' = Append(toEntry, [t |-> "ww", val |-> lpr.written + avail])
           /\ pktRemaining' = pktRemaining - avail
           /\ wordsInbound' = Folded - avail /\ wordsReceived' = 0
    /\ UNCHANGED <<sentG, pbuf, pktValid, pktInProgress, hdr, takenG, mcVars,
                   toProd, consVars>>

(* The same call with nothing new to advertise and the packet not yet      *)
(* fully read: it only returns credit.                                    *)
PullClear ==
    /\ pktValid /\ pktInProgress = 1 /\ CurKind = "FORWARD"
    /\ \/ pktRemaining > 0 /\ WordsAvailable = 0
       \/ pktRemaining = 0 /\ lpr.read # lpr.written
    /\ upCredit' = upCredit + ClearedCredit
    /\ wordsCleared' = lpr.read
    /\ wordsInbound' = Folded /\ wordsReceived' = 0
    /\ UNCHANGED <<sentG, pbuf, outRd, pktValid, pktInProgress, pktRemaining, hdr, lpr,
                   takenG, mcVars, toEntry, toProd, consVars>>

(* The same call once everything advertised has been read: the packet is  *)
(* done and the next header may be parsed.                                *)
PullFinish ==
    /\ pktValid /\ pktInProgress = 1 /\ CurKind = "FORWARD"
    /\ pktRemaining = 0 /\ lpr.read = lpr.written
    /\ upCredit' = upCredit + ClearedCredit
    /\ wordsCleared' = lpr.read
    /\ pktInProgress' = 0
    /\ pktValid' = FALSE
    /\ wordsInbound' = Folded /\ wordsReceived' = 0
    /\ UNCHANGED <<sentG, pbuf, outRd, pktRemaining, hdr, lpr, takenG,
                   mcVars, toEntry, toProd, consVars>>

(* A words_read acknowledgement lands in local_pull_request. *)
ReceiveAck ==
    /\ toProd # <<>>
    /\ lpr' = [lpr EXCEPT !.read = Head(toProd)]
    /\ toProd' = Tail(toProd)
    /\ UNCHANGED <<upVars, pbuf, wordsReceived, wordsInbound, outRd, pktValid,
                   pktInProgress, pktRemaining, hdr, wordsCleared, takenG, mcVars,
                   toEntry, consVars>>

(***************************************************************************)
(* Producer, MCAST_DEST (process_mcast_packet with ASYNC_WR): the packet  *)
(* is posted to the next router in mcast_direction, the consumer here, as *)
(* a FORWARD pull request, and its data words are also written from the  *)
(* buffer to packet_dest on this chip with noc_async_write, in two writes *)
(* when they straddle the buffer's end.                                   *)
(***************************************************************************)

(* The local writes of n words from slot from, one entry per word: the    *)
(* source slot, the word's offset from the target and the packet's header.*)
LocalWrites(from, n) ==
    [j \in 1 .. n |-> [src |-> Wrap(from, j - 1), off |-> pktDest + j - 1, base |-> hdr]]

(* First call: fill in and post the pull request as for FORWARD, set      *)
(* packet_dest to the target, step over the header and write the data     *)
(* words available so far (none when only the header has arrived).       *)
McastStart ==
    /\ pktValid /\ pktInProgress = 0 /\ CurKind = "MCAST"
    /\ LET avail == WordsAvailable
           data  == avail - H
       IN  /\ lpr' = [written |-> avail, read |-> 0]
           /\ wordsCleared' = 0
           /\ pktRemaining' = pktRemaining - avail
           /\ toEntry' = Append(toEntry,
                [t |-> "desc", e |-> [kind |-> "FORWARD", written |-> avail, read |-> 0,
                  rd |-> outRd, size |-> Packets[PacketOf(hdr)].words, hdrG |-> hdr]])
           /\ lwq' = lwq \o [j \in 1 .. data |->
                        [src |-> Wrap(outRd, H + j - 1), off |-> j - 1, base |-> hdr]]
           /\ pktDest' = data
           /\ outRd' = Wrap(outRd, avail)
           /\ wordsInbound' = Folded - avail /\ wordsReceived' = 0
           /\ pktInProgress' = 1
    /\ UNCHANGED <<upVars, pbuf, pktValid, hdr, takenG, toProd, consVars>>

(* Mutant: buffer space freed before noc_async_writes_flushed. *)
McastContinueNoFlush ==
    /\ pktValid /\ pktInProgress = 1 /\ CurKind = "MCAST"
    /\ LET avail == WordsAvailable
       IN  /\ upCredit' = upCredit + ClearedCredit
           /\ wordsCleared' = lpr.read
           /\ IF pktRemaining > 0 /\ avail > 0
                 THEN /\ lwq' = lwq \o LocalWrites(outRd, avail)
                      /\ pktDest' = pktDest + avail
                      /\ outRd' = Wrap(outRd, avail)
                      /\ lpr' = [lpr EXCEPT !.written = @ + avail]
                      /\ toEntry' = Append(toEntry, [t |-> "ww", val |-> lpr.written + avail])
                      /\ pktRemaining' = pktRemaining - avail
                      /\ wordsInbound' = Folded - avail
                      /\ UNCHANGED <<pktValid, pktInProgress>>
                 ELSE /\ IF pktRemaining = 0 /\ lpr.read = lpr.written
                            THEN pktInProgress' = 0 /\ pktValid' = FALSE
                            ELSE UNCHANGED <<pktValid, pktInProgress>>
                      /\ wordsInbound' = Folded
                      /\ UNCHANGED <<lwq, pktDest, outRd, lpr, toEntry, pktRemaining>>
           /\ wordsReceived' = 0
    /\ UNCHANGED <<sentG, pbuf, hdr, takenG, toProd, consVars>>

(* Later calls: noc_async_writes_flushed (the previous local writes have  *)
(* read their source words), then return the words the puller has read as *)
(* credit, and either write and advertise the newly available words, or,  *)
(* with the packet fully read, end it.                                    *)
McastContinue ==
    /\ pktValid /\ pktInProgress = 1 /\ CurKind = "MCAST"
    /\ lwq = <<>>
    /\ LET avail == WordsAvailable
       IN  /\ upCredit' = upCredit + ClearedCredit
           /\ wordsCleared' = lpr.read
           /\ IF pktRemaining > 0 /\ avail > 0
                 THEN /\ lwq' = LocalWrites(outRd, avail)
                      /\ pktDest' = pktDest + avail
                      /\ outRd' = Wrap(outRd, avail)
                      /\ lpr' = [lpr EXCEPT !.written = @ + avail]
                      /\ toEntry' = Append(toEntry, [t |-> "ww", val |-> lpr.written + avail])
                      /\ pktRemaining' = pktRemaining - avail
                      /\ wordsInbound' = Folded - avail
                      /\ UNCHANGED <<pktValid, pktInProgress>>
                 ELSE /\ IF pktRemaining = 0 /\ lpr.read = lpr.written
                            THEN pktInProgress' = 0 /\ pktValid' = FALSE
                            ELSE UNCHANGED <<pktValid, pktInProgress>>
                      /\ wordsInbound' = Folded
                      /\ UNCHANGED <<lwq, pktDest, outRd, lpr, toEntry, pktRemaining>>
           /\ wordsReceived' = 0
    /\ UNCHANGED <<sentG, pbuf, hdr, takenG, toProd, consVars>>

(* The NOC reads the source of the oldest local write from the producer  *)
(* buffer, some time before noc_async_writes_flushed returns.            *)
LocalWriteDeparts ==
    /\ lwq # <<>>
    /\ lwq' = Tail(lwq)
    /\ UNCHANGED <<upVars, pbuf, wordsReceived, wordsInbound, outRd, pktValid,
                   pktInProgress, pktRemaining, hdr, wordsCleared, lpr, takenG, pktDest,
                   toEntry, toProd, consVars>>

(***************************************************************************)
(* NOC delivery of the producer's writes into the consumer's queue: the    *)
(* descriptor (tt_fabric_send_pull_request) and later words_written raises.*)
(***************************************************************************)
DeliverEntry ==
    /\ toEntry # <<>>
    /\ LET m == Head(toEntry)
       IN  \/ /\ m.t = "desc"
              /\ reqQ' = Append(reqQ, m.e)
           \/ /\ m.t = "ww" /\ reqQ # <<>>
              /\ reqQ' = [reqQ EXCEPT ![Len(reqQ)].written = m.val]
    /\ toEntry' = Tail(toEntry)
    /\ UNCHANGED <<upVars, prodVars, toProd, cbuf, cFree, cPullWr, cOutRd, cInProgress,
                   cRemaining, cToForward, pend, drainedG>>

(***************************************************************************)
(* Consumer (fvc_consumer_state), serving the entry at the queue's rdptr.  *)
(***************************************************************************)

(* Mutant: the pull not capped by the free space of the consumer buffer. *)
NumWordsToPullNoSpace(e) ==
    Min({e.written - e.read, N - e.rd, N - cPullWr, N \div 2})

(* get_num_words_to_pull: written - read, capped by the producer buffer's  *)
(* wrap, the free space here (0 stops), the local wrap and half a buffer.  *)
NumWordsToPull(e) ==
    LET k == Min({e.written - e.read, N - e.rd, cFree})
    IN  IF k = 0 THEN 0 ELSE Min({k, N - cPullWr, N \div 2})

(* pull_data_to_fvc_buffer: start the packet from the descriptor's size,  *)
(* then issue a NOC read of the words owed (register_pull_data) and raise *)
(* the entry's rd_ptr and words_read. The router loop issues one read and *)
(* waits on its barrier before the next.                                  *)
PullDataToFvcBuffer ==
    /\ reqQ # <<>> /\ Head(reqQ).kind = "FORWARD" /\ pend.n = 0
    /\ LET e    == Head(reqQ)
           rem0 == IF cInProgress = 0 THEN e.size ELSE cRemaining
           n    == NumWordsToPull(e)
       IN  /\ cInProgress' = 1
           /\ \/ /\ n = 0 /\ cInProgress = 0
                 /\ cRemaining' = rem0
                 /\ UNCHANGED <<reqQ, cPullWr, cFree, pend>>
              \/ /\ n > 0
                 /\ pend' = [src |-> e.rd, dst |-> cPullWr, n |-> n]
                 /\ cPullWr' = Wrap(cPullWr, n)
                 /\ cFree' = cFree - n
                 /\ cRemaining' = rem0 - n
                 /\ reqQ' = [reqQ EXCEPT ![1].rd = Wrap(@, n), ![1].read = @ + n]
    /\ UNCHANGED <<upVars, prodVars, toEntry, toProd, cbuf, cOutRd, cToForward, drainedG>>

(* The words a read lands: pend.n words from pend.src, none across a wrap. *)
Landed(buf, dst, n, src) ==
    [i \in Pos |-> IF (i - dst) % N < n THEN pbuf[(src + ((i - dst) % N)) % N] ELSE buf[i]]

(* Mutant: the router loop retires nothing, leaving req_buf_advance_rdptr *)
(* out of the path after the last pull of a packet.                       *)
ReadBarrierNoRetire ==
    /\ pend.n > 0
    /\ cbuf' = Landed(cbuf, pend.dst, pend.n, pend.src)
    /\ takenG' = (takenG + pend.n) % WordCycle
    /\ cToForward' = cToForward + pend.n
    /\ toProd' = Append(toProd, Head(reqQ).read)
    /\ pend' = NoRead
    /\ UNCHANGED <<upVars, pbuf, wordsReceived, wordsInbound, outRd, pktValid,
                   pktInProgress, pktRemaining, hdr, wordsCleared, lpr, mcVars,
                   toEntry, cFree, cPullWr, cOutRd, cRemaining, drainedG, reqQ, cInProgress>>

(* The router loop after noc_async_read_barrier: the pulled words move to  *)
(* total_words_to_forward, words_read goes to the producer's ack_addr     *)
(* (update_pull_request_words_cleared), and a fully pulled entry is       *)
(* retired (req_buf_advance_rdptr).                                        *)
ReadBarrier ==
    /\ pend.n > 0
    /\ cbuf' = Landed(cbuf, pend.dst, pend.n, pend.src)
    /\ takenG' = (takenG + pend.n) % WordCycle
    /\ cToForward' = cToForward + pend.n
    /\ toProd' = Append(toProd, Head(reqQ).read)
    /\ IF cRemaining = 0
          THEN reqQ' = Tail(reqQ) /\ cInProgress' = 0
          ELSE UNCHANGED <<reqQ, cInProgress>>
    /\ pend' = NoRead
    /\ UNCHANGED <<upVars, pbuf, wordsReceived, wordsInbound, outRd, pktValid,
                   pktInProgress, pktRemaining, hdr, wordsCleared, lpr, mcVars,
                   toEntry, cFree, cPullWr, cOutRd, cRemaining, drainedG>>

(* Mutant: the header copied as if it never straddled the buffer's end. *)
HeaderWrittenNoSplit(buf, e) ==
    [i \in Pos |-> IF i >= cPullWr /\ i - cPullWr < H THEN (e.hdrG + (i - cPullWr)) % WordCycle
                                                     ELSE buf[i]]

(* The H header words written from the descriptor at fvc_pull_wrptr, split *)
(* across the buffer's end (the switch on words_before_local_buffer_wrap). *)
HeaderWritten(buf, e) ==
    [i \in Pos |-> IF (i - cPullWr) % N < H THEN (e.hdrG + ((i - cPullWr) % N)) % WordCycle
                                           ELSE buf[i]]

(* move_data_to_fvc_buffer for an INLINE_FORWARD entry, then its retirement *)
(* by the router loop; with less than a header free it only starts.       *)
MoveDataToFvcBuffer ==
    /\ reqQ # <<>> /\ Head(reqQ).kind = "INLINE_FORWARD" /\ pend.n = 0
    /\ LET e == Head(reqQ)
           rem0 == IF cInProgress = 0 THEN H ELSE cRemaining
       IN  \/ /\ cFree < H /\ cInProgress = 0
              /\ cInProgress' = 1 /\ cRemaining' = rem0
              /\ UNCHANGED <<reqQ, cbuf, cPullWr, cFree, cToForward>>
           \/ /\ cFree >= H
              /\ cbuf' = HeaderWritten(cbuf, e)
              /\ cPullWr' = Wrap(cPullWr, H)
              /\ cFree' = cFree - H
              /\ cRemaining' = rem0 - H
              /\ cToForward' = cToForward + H
              /\ reqQ' = Tail(reqQ) /\ cInProgress' = 0
    /\ UNCHANGED <<upVars, prodVars, toEntry, toProd, cOutRd, pend, drainedG>>

(* forward_data_from_fvc_buffer: n of the words to forward go over the     *)
(* link from fvc_out_rdptr; the next router's producer returns them as     *)
(* free space (sender_buffer_space) when it folds words_received.          *)
ForwardDataFromFvcBuffer(n) ==
    /\ n \in 1 .. cToForward
    /\ cOutRd' = Wrap(cOutRd, n)
    /\ cToForward' = cToForward - n
    /\ cFree' = cFree + n
    /\ drainedG' = (drainedG + n) % WordCycle
    /\ UNCHANGED <<upVars, prodVars, toEntry, toProd, reqQ, cbuf, cPullWr, cInProgress,
                   cRemaining, pend>>

Next ==
    \/ Arrive
    \/ GetCurrPacketValid \/ GetCurrPacketValidPartial
    \/ PullStartForward \/ PullInline \/ PullAdvertise \/ PullClear \/ PullFinish
    \/ McastStart \/ McastContinue \/ LocalWriteDeparts
    \/ ReceiveAck \/ DeliverEntry
    \/ PullDataToFvcBuffer \/ ReadBarrier \/ MoveDataToFvcBuffer
    \/ \E n \in 1 .. N : ForwardDataFromFvcBuffer(n)

(* Every core runs its polling loop for ever, NOC writes are delivered,    *)
(* and the upstream router always has more of the stream to send.        *)
Fairness ==
    /\ WF_vars(Arrive)
    /\ WF_vars(GetCurrPacketValid) /\ WF_vars(GetCurrPacketValidPartial)
    /\ WF_vars(PullStartForward) /\ WF_vars(PullInline) /\ WF_vars(PullAdvertise)
    /\ WF_vars(PullClear) /\ WF_vars(PullFinish)
    /\ WF_vars(McastStart) /\ WF_vars(McastContinue) /\ WF_vars(LocalWriteDeparts)
    /\ WF_vars(ReceiveAck) /\ WF_vars(DeliverEntry)
    /\ WF_vars(PullDataToFvcBuffer) /\ WF_vars(ReadBarrier) /\ WF_vars(MoveDataToFvcBuffer)
    /\ WF_vars(\E n \in 1 .. N : ForwardDataFromFvcBuffer(n))

Spec == Init /\ [][Next]_vars /\ Fairness

-----------------------------------------------------------------------------
(***************************************************************************)
(* Properties.                                                             *)
(***************************************************************************)

(* Credit is returned upstream only for words the consumer has read: every *)
(* word the upstream has sent and the consumer has not yet taken is still *)
(* in the producer buffer (words_to_clear in pull_data_from_fvc_buffer,    *)
(* words_read acknowledged after the read barrier).                        *)
UnpulledWordsIntact ==
    \A j \in 0 .. Dist(sentG, takenG) - 1 :
        pbuf[(takenG + j) % N] = (takenG + j) % WordCycle

(* The consumer buffer holds the stream in order: the words it still has to *)
(* forward, from fvc_out_rdptr, are the stream words after those already    *)
(* forwarded, whether pulled by NOC read or moved from an inline header.    *)
ConsumerHoldsStream ==
    \A j \in 0 .. cToForward - 1 :
        cbuf[(cOutRd + j) % N] = (drainedG + j) % WordCycle

(* Packet accounting keeps the producer aligned: whenever no packet is    *)
(* current, fvc_out_rdptr sits on the first word of the next packet, so   *)
(* advance_next_packet parses a real header (packet_words_remaining and   *)
(* the words advertised per packet never run into the next one).         *)
HeaderAtReadPointer ==
    ~pktValid => outRd = takenG % N /\ IsHeaderStart(takenG)

(* The data words of a multicast packet written to this chip are the     *)
(* packet's own: until the NOC has read it, the source of every pending  *)
(* local write still holds the stream word that belongs at its offset    *)
(* from packet_dest (the buffer space it occupies is freed only after    *)
(* noc_async_writes_flushed, and packet_dest advances with every write).  *)
LocalWriteSourcesIntact ==
    \A k \in DOMAIN lwq :
        pbuf[lwq[k].src] = (lwq[k].base + H + lwq[k].off) % WordCycle

(* The stream never stops: credit, words_written, words_read and the queue *)
(* entry all keep moving, so the consumer forwards words again and again   *)
(* and every word eventually leaves it.                                   *)
StreamProgresses == []<><<TRUE>>_drainedG

=============================================================================
