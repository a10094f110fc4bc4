----------------------------- MODULE SocketReader -----------------------------
(***************************************************************************)
(* The socket reader (tt_fabric.h, socket_reader_state): the receive side  *)
(* of a fabric socket. It pulls the words of a producer's pull request     *)
(* into its own buffer (pull_socket_data) and pushes them on to the remote *)
(* socket buffer (push_socket_data). All of its pointers wrap at twice the *)
(* buffer size.                                                            *)
(*                                                                         *)
(* The producer is the environment. It posts one pull request per packet   *)
(* and raises words_written as the packet arrives in its buffer of PN      *)
(* words. The router loop around the two calls is not in the source tree. *)
(* After a pull it waits for the read barrier, and it retires a request    *)
(* once the packet is pulled (spec 4.4, 4.6). The remote socket buffer     *)
(* reports its pointers back through remote_rdptr; in the non-live build   *)
(* push_socket_data sets them itself.                                      *)
(***************************************************************************)
EXTENDS Integers, FiniteSetsExt

CONSTANTS
    N,          \* buffer_size of the socket buffer (and of the remote one)
    PN,         \* buffer_size of the producer's buffer (pull_request)
    Size,       \* words of each packet
    Threshold,  \* FVC_SYNC_THRESHOLD
    MaxSend,    \* DEFAULT_MAX_NOC_SEND_WORDS
    Live        \* the push_socket_data<live> template argument

ASSUME /\ N \in Nat \ {0} /\ PN \in Nat \ {0} /\ Size \in Nat \ {0}
       /\ Threshold \in Nat \ {0} /\ MaxSend \in Nat \ {0} /\ Live \in BOOLEAN

Ptr2 == 0 .. 2 * N - 1

(* An unsigned 32-bit result of N - p for p > N: larger than every other  *)
(* operand of the mins it takes part in.                                  *)
UIntHuge == 2147483647

(* uint32 comparison x < t for a counter that may have wrapped below 0.   *)
UIntLess(x, t) == x >= 0 /\ x < t

VARIABLES
    pr,         \* the pull request served: [valid, written, read, rd, size]
    pullWr,     \* fvc_pull_wrptr
    outRd,      \* fvc_out_rdptr
    outWr,      \* fvc_out_wrptr
    rptr,       \* remote_rdptr.ptr
    rcleared,   \* remote_rdptr.ptr_cleared
    inProgress, \* packet_in_progress
    remaining,  \* packet_words_remaining (may wrap below 0)
    inFlight,   \* pull_words_in_flight
    wsls,       \* words_since_last_sync (may wrap below 0)
    pulled,     \* ghost: words of the current request pulled so far
    backlog,    \* ghost: words landed in the socket buffer and not pushed
    hung        \* push_socket_data is spinning in its forwarding loop

vars == <<pr, pullWr, outRd, outWr, rptr, rcleared, inProgress, remaining, inFlight,
          wsls, pulled, backlog, hung>>

TypeOK ==
    /\ pr \in [valid : BOOLEAN, written : 0 .. Size, read : 0 .. Size,
               rd : 0 .. PN - 1, size : 0 .. Size]
    /\ pullWr \in Ptr2 /\ outRd \in Ptr2 /\ outWr \in Ptr2
    /\ rptr \in Ptr2 /\ rcleared \in Ptr2
    /\ inProgress \in {0, 1} /\ remaining \in Int /\ inFlight \in 0 .. N
    /\ wsls \in Int /\ pulled \in Nat /\ backlog \in Int /\ hung \in BOOLEAN

(* socket_reader_state::init zeroes the state; no request is posted yet.   *)
Init ==
    /\ pr = [valid |-> FALSE, written |-> 0, read |-> 0, rd |-> 0, size |-> 0]
    /\ pullWr = 0 /\ outRd = 0 /\ outWr = 0 /\ rptr = 0 /\ rcleared = 0
    /\ inProgress = 0 /\ remaining = 0 /\ inFlight = 0 /\ wsls = 0
    /\ pulled = 0 /\ backlog = 0 /\ hung = FALSE

(* advance_pull_wrptr / advance_out_wrptr / advance_out_rdptr. *)
Adv2(p, n) == (p + n) % (2 * N)

(* Words between two pointers of the 2N range, 0 when they are equal: the  *)
(* occupancy get_num_words_free and get_remote_num_words_free compute.    *)
Occupied(w, r) == IF w = r THEN 0 ELSE IF w > r THEN w - r ELSE 2 * N + w - r

(* words_before_local_buffer_wrap for a 2N-ranged pointer. *)
BeforeLocalWrap(p) == IF p >= N THEN 2 * N - p ELSE N - p

(* words_before_pull_buffer_wrap(buffer_size, p) on a 2N-ranged pointer:  *)
(* buffer_size - p in uint32.                                             *)
BeforePullWrap(p) == IF p <= N THEN N - p ELSE UIntHuge

(* get_num_words_to_pull. *)
NumWordsToPull ==
    LET k == Min({pr.written - pr.read, PN - pr.rd, N - Occupied(pullWr, rptr)})
    IN  IF k = 0 THEN 0 ELSE Min({k, BeforeLocalWrap(pullWr)})

(* The forwarding loop of push_socket_data<true>: chunks bounded by both   *)
(* wraps and MaxSend, until the words are sent; a zero chunk never ends.  *)
RECURSIVE PushLoop(_, _, _)
PushLoop(rd, wr, rem) ==
    IF rem = 0 THEN [rd |-> rd, wr |-> wr, hung |-> FALSE]
    ELSE LET c == Min({BeforePullWrap(rd), BeforePullWrap(wr), rem, MaxSend})
         IN  IF c = 0 THEN [rd |-> rd, wr |-> wr, hung |-> TRUE]
                      ELSE PushLoop(Adv2(rd, c), Adv2(wr, c), rem - c)

(***************************************************************************)
(* Producer (environment).                                                 *)
(***************************************************************************)

(* The producer posts the pull request of its next packet, after the      *)
(* router loop retired the last one; its buffer pointer carries on.       *)
PostRequest ==
    /\ ~pr.valid
    /\ pr' = [valid |-> TRUE, written |-> 0, read |-> 0, rd |-> pr.rd, size |-> Size]
    /\ pulled' = 0
    /\ UNCHANGED <<pullWr, outRd, outWr, rptr, rcleared, inProgress, remaining,
                   inFlight, wsls, backlog, hung>>

(* One more word of the packet reaches the producer buffer and is         *)
(* advertised; it has PN words of room beyond what was read.              *)
Advertise ==
    /\ pr.valid /\ pr.written < pr.size /\ pr.written - pr.read < PN
    /\ pr' = [pr EXCEPT !.written = @ + 1]
    /\ UNCHANGED <<pullWr, outRd, outWr, rptr, rcleared, inProgress, remaining,
                   inFlight, wsls, pulled, backlog, hung>>

(***************************************************************************)
(* Socket reader.                                                          *)
(***************************************************************************)

(* pull_socket_data: start the packet from the request's size, then issue *)
(* a NOC read of the words owed (register_pull_data) and advance the      *)
(* request's rd_ptr. The router loop issues it once the last read landed. *)
PullSocketData ==
    /\ ~hung /\ pr.valid /\ inFlight = 0
    /\ LET rem0 == IF inProgress = 0 THEN pr.size ELSE remaining
           n    == NumWordsToPull
       IN  /\ inProgress' = 1
           /\ \/ /\ n = 0 /\ inProgress = 0
                 /\ remaining' = rem0
                 /\ UNCHANGED <<pr, pullWr, inFlight, wsls, pulled>>
              \/ /\ n > 0
                 /\ inFlight' = n
                 /\ pullWr' = Adv2(pullWr, n)
                 /\ wsls' = wsls + n
                 /\ remaining' = rem0 - n
                 /\ pr' = [pr EXCEPT !.rd = (@ + n) % PN]
                 /\ pulled' = pulled + n
    /\ UNCHANGED <<outRd, outWr, rptr, rcleared, backlog, hung>>

(* The router loop after noc_async_read_barrier: the words have landed,   *)
(* and a request whose packet_words_remaining is 0 is retired.             *)
SocketReadBarrier ==
    /\ ~hung /\ inFlight > 0
    /\ backlog' = backlog + inFlight
    /\ inFlight' = 0
    /\ IF remaining = 0
          THEN pr' = [pr EXCEPT !.valid = FALSE] /\ inProgress' = 0
          ELSE UNCHANGED <<pr, inProgress>>
    /\ UNCHANGED <<pullWr, outRd, outWr, rptr, rcleared, remaining, wsls, pulled, hung>>

(* push_socket_data: the words between fvc_pull_wrptr and fvc_out_rdptr,   *)
(* capped by the remote buffer's free space, once the packet is complete  *)
(* or words_since_last_sync reached the threshold. The live build runs    *)
(* the chunked forwarding loop; the other build advances both pointers    *)
(* and sets remote_rdptr itself.                                          *)
PushSocketData ==
    /\ ~hung /\ inFlight = 0
    /\ LET total0 == IF pullWr > outRd THEN pullWr - outRd ELSE 2 * N + pullWr - outRd
           total  == Min({total0, N - Occupied(outWr, rcleared)})
           loop   == PushLoop(outRd, outWr, total)
       IN  /\ total > 0
           /\ ~(remaining # 0 /\ UIntLess(wsls, Threshold))
           /\ IF Live
                 THEN /\ outRd' = loop.rd /\ outWr' = loop.wr
                      /\ hung' = loop.hung
                      /\ UNCHANGED <<rptr, rcleared>>
                 ELSE /\ outRd' = Adv2(outRd, total) /\ outWr' = Adv2(outWr, total)
                      /\ rptr' = Adv2(outRd, total) /\ rcleared' = Adv2(outWr, total)
                      /\ UNCHANGED hung
           /\ wsls' = wsls - total
           /\ backlog' = backlog - total
    /\ UNCHANGED <<pr, pullWr, inProgress, remaining, inFlight, pulled>>

(* The remote socket buffer, in the live build, reports that it has taken *)
(* and consumed everything pushed (remote_rdptr.ptr and ptr_cleared).     *)
RemoteSync ==
    /\ Live
    /\ rptr # outRd \/ rcleared # outWr
    /\ rptr' = outRd /\ rcleared' = outWr
    /\ UNCHANGED <<pr, pullWr, outRd, outWr, inProgress, remaining, inFlight, wsls,
                   pulled, backlog, hung>>

Next ==
    \/ PostRequest \/ Advertise
    \/ PullSocketData \/ SocketReadBarrier \/ PushSocketData
    \/ RemoteSync

Spec == Init /\ [][Next]_vars

-----------------------------------------------------------------------------
(***************************************************************************)
(* Properties.                                                             *)
(***************************************************************************)

(* push_socket_data forwards only words that were pulled into the socket  *)
(* buffer and have landed: it never forwards more than the backlog.       *)
PushOnlyPulledWords == backlog >= 0

(* pull_socket_data never pulls a word of the request that the producer   *)
(* has not written: the words pulled stay within words_written, as the    *)
(* spec's invariant words_read <= words_written requires.                 *)
PullWithinWritten == pulled <= pr.written

(* The forwarding loop of push_socket_data always ends: each chunk it     *)
(* computes from the two wraps is positive while words remain.           *)
PushLoopTerminates == ~hung

====
