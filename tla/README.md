# TLA+ models of the fabric virtual-channel router

This directory holds TLA+ models of the fabric router in
`src/tt_metal/fabric/hw/inc/tt_fabric.h`, and of the worker API in
`tt_fabric_api.h` that drives it. It also holds the TLC configurations that
check the models. Every definition is translated from those two headers.
The router's main loop is not in the source tree. Where the models need it,
they follow `spec.md` section 4, and `PROJECT.json` marks those definitions
`spec_modelled`.

## 1. The system

Each hop of the fabric runs one polling loop per ethernet core. There are no
locks and no shared memory: every interaction between cores is a one-sided
write of a counter, a descriptor or data that the other core polls.

| Part | Source | State | Operations |
|---|---|---|---|
| Request queue | `chan_req_buf`; `req_buf_*`, `fvc_req_valid` (tt_fabric.h 1446-1475) | `wrptr` and `rdptr`, wrapped at 2·CHAN_REQ_BUF_SIZE; slots whose non-zero `flags` mark them valid | reserve, poll, write descriptor, serve, retire |
| Broker | `tt_fabric_send_pull_request` (1551-1592) | per sender: `local_pull_request` (`wrptr`, `rdptr`, descriptor) | atomic increment of the queue's `wrptr`; spin on `req_buf_ptrs_full`; write the descriptor |
| Producer (router mode) | `fvc_producer_state` (297-896) | `words_received` stream register, `words_inbound`, `fvc_out_rdptr`, `curr_packet_valid`, `packet_in_progress`, `packet_words_remaining`, `words_cleared`, the `local_pull_request` | `get_num_words_available`, `get_curr_packet_valid`/`advance_next_packet`, `pull_data_from_fvc_buffer` (FORWARD, INLINE_FORWARD, in progress), `process_inbound_packet`, `issue_async_write`, `process_mcast_packet`, `update_mcast_hops`, `flush_async_writes` |
| Consumer | `fvc_consumer_state` (40-276) | `fvc_pull_wrptr`, `fvc_out_rdptr`, `packet_in_progress`, `packet_words_remaining`, `pull_words_in_flight`, `total_words_to_forward`; stream registers `sender_buffer_space` and `receiver_buffer_space` | `get_num_words_to_pull`, `pull_data_to_fvc_buffer`, `move_data_to_fvc_buffer`, `forward_data_from_fvc_buffer` |
| Control channel | `fvcc_outbound_state`, `fvcc_inbound_state` (898-1199) | control rings with pointers wrapped at 2·FVCC_BUF_SIZE; `remote_rdptr.ptr` and `ptr_cleared` | `forward_data_from_fvcc_buffer`, `update_remote_rdptr_sent`/`_cleared`, `forward_message`, `process_inbound_packet`, `fvcc_handler` |
| Socket reader | `socket_reader_state` (1201-1407) | `fvc_pull_wrptr`, `fvc_out_rdptr`, `fvc_out_wrptr` (wrapped at 2N), `remote_rdptr`, `words_since_last_sync` | `pull_socket_data`, `push_socket_data` |
| Link handshake | `wait_all_src_dest_ready` (1502-1545) | `sync_in`, `sync_out`, `scratch` | exchange of the 0xAA ready markers, with an optional timeout |
| Worker API | tt_fabric_api.h | `fabric_client_interface_t` | header builders, `fabric_send_pull_request`, `fabric_wait_for_pull_request_*`, socket open, connect and close |

How the parts interact on the data path:
`upstream consumer --ethernet--> producer buffer --pull request--> next consumer buffer --ethernet--> ...`.

- The upstream consumer writes words into the producer's buffer. Its credit is
  `receiver_buffer_space`.
- The producer parses a header and posts a pull request into the next
  consumer's request queue. As more of the packet arrives, it raises
  `words_written` in that queue entry.
- The consumer pulls words with NOC reads, raises `words_read`, and after the
  read barrier acknowledges `words_read` to the producer.
- The producer returns exactly the words read to the upstream as credit.

Header-only INLINE_FORWARD packets travel inside the descriptor.

The other files under `src/` are host code (`mesh_command_queue.cpp`,
`wh_hal.cpp`, `tensor_utils.cpp`) and tests. None of them touches the router;
`PROJECT.json` lists them as not modelled.

### Behaviours that make it hard

- **Interleavings.** Any number of senders reserve queue slots concurrently.
  A reservation comes before the descriptor write, which comes before the
  router reads the slot.
- **Pointer arithmetic.** Pointers wrap at twice the capacity, so that empty
  and full can be told apart. This breaks once more than 2·capacity − 1
  reservations are outstanding.
- **Asynchronous counters.** `words_read` and `words_written` are written by
  the other core while this core computes with older copies. Credit is
  returned from them.
- **NOC ordering.** The `words_written` updates must land after the
  descriptor.
- **Wraps in the middle of a header.** A header can straddle the wrap in the
  producer buffer (`advance_next_packet`) and in the consumer buffer
  (`move_data_to_fvc_buffer`).
- **Blocking spins.** The broker, `forward_message` and socket connect all
  spin: a liveness hazard, and a deadlock hazard between two cores.
- **Damaged headers.** A header that fails its checksum is flagged and never
  dropped, so it stalls its port. `update_mcast_hops` must keep the checksum
  of every header it forwards in step with the hop count it rewrites.

## 2. Modules

### PullRequestQueue: the request queue and the broker

| Code | Model |
|---|---|
| `chan_req_buf.wrptr/rdptr` | `wrptr`, `rdptr` in `0 .. 2*QSize-1` |
| `chan_req[i]` and its flags | `slot[i]`: a `[snd, tkt]` descriptor, or `NoReq` when the flags are 0 |
| `noc_fast_atomic_increment` with wrap `CHAN_REQ_BUF_LOG_SIZE` | `AtomicIncWrap`, in `Reserve(s)` |
| the spin on `req_buf_ptrs_full` | `Poll(s)`, enabled when the poll succeeds; a failed poll changes nothing |
| `noc_async_write_one_packet` of the descriptor | `WriteDescriptor(s)` |
| `fabric_setup_pull_request` | `SetupPullRequest`, in `Reserve(s)`: `words_read = 0`, so `flushed[s]` is false |
| `fabric_wait_for_pull_request_words_flushed` | `WaitFlushed(s)`: the sender leaves `"wait"` once `flushed[s]` |
| the router loop (spec 4.4) | `ServeRequest` (acknowledges `words_read`, setting `flushed`), then `ReqBufAdvanceRdptr` (`req_buf_advance_rdptr`) |

The ghost ticket numbers `reserved`, `served` and `myTkt` record the order of
reservations.

**Abstract specification.** `RequestFifo` is what the queue promises its
senders (spec 4.4): a FIFO of requests, each sender with at most one
outstanding, where serving the head releases the sender that posted it.
`PullRequestQueue` instances it (`Fifo == INSTANCE RequestFifo WITH ...`):
- the abstract `queue` is the tickets from the oldest unserved one up to
  `reserved`, each mapped to the sender holding it (`PendingTickets`,
  `Holder`);
- `busy` is the set of senders with a request outstanding (`Outstanding`):
  not idle, and not already flushed while still spinning.

A reservation is `Post`, `ServeRequest` is `Serve`, and the poll, the
descriptor write, the sender's return from its wait and the retire are
stuttering steps. `FifoRefinement`
checks `Fifo!Spec` as a property.

### PullTransfer: one hop of the data path

The module models one producer (router mode), relaying to the next consumer.

**Producer.**
- `Folded` is `get_num_words_available`.
- `GetCurrPacketValid` and `GetCurrPacketValidPartial` are the two outcomes of
  `get_curr_packet_valid`.
- `PullStartForward`, `PullInline`, `PullAdvertise`, `PullClear` and
  `PullFinish` are the paths through `pull_data_from_fvc_buffer`. Each action
  includes its credit return (`free_receiver_buffer_space`, and
  `flush_async_writes` on the inline path). They run only for packets whose
  processing flag sends them there (FORWARD or INLINE_FORWARD relays).
- `McastStart` and `McastContinue` are `process_mcast_packet` for a packet
  this chip is a multicast destination of. The packet is posted to the next
  router as a FORWARD pull request, exactly as a relay would post it. Its data
  words are also written to `packet_dest` with `noc_async_write`, one entry of
  `lwq` per word. `McastContinue` first waits for `noc_async_writes_flushed`
  (`lwq` empty). Only then does it free the words the puller has read.
  `LocalWriteDeparts` is the NOC reading the source of a local write.

**Consumer.**
- `PullDataToFvcBuffer` issues the NOC read and raises `words_read`.
- `ReadBarrier` is the router loop's barrier. It lands the read, moves
  `pull_words_in_flight` to `total_words_to_forward`, acknowledges `words_read`
  (`update_pull_request_words_cleared`) and retires a finished entry.
- `MoveDataToFvcBuffer` handles inline headers, splitting at the wrap.
- `ForwardDataFromFvcBuffer(n)` sends n words over the link. The next
  producer returns them as `sender_buffer_space`.

**Channels and data.** NOC writes are FIFO channels:
- `toEntry` carries the descriptor and the `words_written` updates to the
  queue entry.
- `toProd` carries the `words_read` acknowledgements back.

Every word of the stream carries a ghost tag: the g-th word is g mod
WordCycle. This lets the invariants say which word is where. Packets are a
repeated constant sequence of `[kind, words]`. `StartTable` and `OwnerTable`
tabulate the packet layout once.

The NOC read is modelled as landing at the barrier. That is the latest moment
it can complete, so any overwrite before the barrier shows up as wrong data.

### SocketReader: the receive side of a fabric socket

`socket_reader_state` (1201-1407) pulls the words of a producer's pull request
into its own buffer and pushes them on to the remote socket buffer.

| Code | Model |
|---|---|
| `pull_socket_data`, with `get_num_words_to_pull` | `PullSocketData`, `NumWordsToPull` |
| the router loop's read barrier, and its retire of a request (spec 4.4) | `SocketReadBarrier` |
| `push_socket_data<live>` and its chunked forwarding loop | `PushSocketData`, `PushLoop` (RECURSIVE) |
| the remote socket buffer's `remote_rdptr` reports | `RemoteSync` (live build only) |
| the producer posting requests and raising `words_written` | `PostRequest`, `Advertise` |

Unsigned arithmetic is kept where the code relies on it:
- `buffer_size - p` for p > N is a huge uint32 (`UIntHuge`, `BeforePullWrap`).
- `words_since_last_sync` may wrap below 0 (`UIntLess`).

The ghosts `pulled` and `backlog` count the words pulled for the current
request, and the words landed but not yet pushed.

### ControlChannel: control rings and forwarding through a chip

Messages travel from chip A through chip B to chip C on the control channel.
Chip B has two cores: X faces A and Y faces C. Each core runs an outbound
(`fvcc_outbound_state`) and an inbound (`fvcc_inbound_state`) in one loop.

| Code | Model |
|---|---|
| `fvcc_outbound_state::fvcc_handler`: `forward_data_from_fvcc_buffer`, then `advance_fvcc_rdptr` | `OutboundHandler(c)`: one atomic step, in that order |
| `is_remote_fvcc_full` against `remote_rdptr.ptr_cleared` | `IsRemoteFvccFull(c)` |
| `fvcc_inbound_state::process_inbound_packet` for a local message | `InboundLocal(c)` |
| `forward_message`: atomic increment of the peer's `wrptr` | `InboundForward(c)`, pc `"poll"` |
| the spin on `fvcc_buf_ptrs_full`, then the header write and retire | `InboundWrite(c)` |
| `process_inbound_packet`: the ring `forward_message` targets, the other core's outbound or `gk_fvcc_buf_addr` for a SYNC SOCKET_OPEN | `Target(c)` |
| the far chips A and C | `FarSend`, `FarAckSent`, `FarProcess` |
| `fabric_socket_open` and the atomic of `send_message_to_gk` | `SocketOpen(w)`: handle `socket_handles[socket_count]` OPENING, `gk_message` built with the handle as ack offset (`AckHandle`), gatekeeper `wrptr` reserved |
| the poll on `fvcc_buf_ptrs_full` and the write of `gk_message` | `GkWrite(w)` |
| `fabric_socket_connect` | `Connected(w)`, enabled once the handle is ACTIVE |
| the gatekeeper (not in the source tree; spec 4.6, 4.7) | `GkProcess`: takes the valid message at its `rdptr`, clears it, sets the handle of a worker's open ACTIVE |

The gatekeeper's ring is one more entry (`"GK"`) of `ring`, `ringWr` and
`ringRd`. Its producers are the chip's workers and the inbound routers.
The ghosts `injected` and `delivered` number the messages, so that order and
loss can be stated.

### McastRoute: a multicast write along a row of chips

A worker at either end of a row of L chips builds a multicast header
(`fabric_async_write_multicast_add_header`). At each chip the producer runs
`advance_next_packet`, which `Classify` models. It decrements the hop count of
its own `mcast_direction` in `UpdateMcastHops` (`update_mcast_hops`). The chip
is then a multicast destination, which writes and forwards
(`ProcessMcastPacket`). Or it is the last unicast destination
(`ProcessUcastDest`), or it is not a destination and forwards
(`ForwardNotDest`). `McastGroup` is the reference: the destination and the
k − 1 chips after it, as in spec sections 4.3 and 8.

The header carries its checksum. The model abstracts it to the record of the
fields it was computed over (`AddHeaderChecksum`), so a header validates
(`HeaderValid`) exactly when its fields are still those. A collision of the
real checksum is left out. Both functions sit outside `src/`, so these two
definitions are modelled from the spec. `UpdateMcastHops` recomputes the
checksum and copies it to the buffer only when the hop count stays above 0,
as the code does. On a header that fails the check, `AdvanceCorrupted` sets
`packet_corrupted` and nothing else, because nothing in the source reads that
flag. `LinkFault` is the fault model: the link may change the hop count of
one header in flight, once per packet, without touching its checksum.

### Handshake: the link handshake

`wait_all_src_dest_ready` (1502-1545) runs on both ends of each ethernet link.

| Code | Model |
|---|---|
| entry: `scratch[0] = 0xAA`, both flags false | `Start(s)` |
| one pass of the `while` loop: the ping or `dest_ready`, then the echo and `src_ready`, then the loop test | `Loop(s)` |
| `eth_send_packet` of a 0xAA word to the peer's `sync_in` or `sync_out` | an entry of `inFlight[peer]` |
| the write landing in the peer's L1 | `Land(s, r)` |
| `get_timestamp_32b() - start_timestamp > timeout_cycles` becoming true | `Elapse(s)`, for sides in `TimeoutSides` |
| the timeout test after the loop body, before the `while` test | `Exit(s, ...)`: `"failed"` once late, even in the pass that set both flags |

Every write carries 0xAA, so a pending write is just the register it targets.
The unsigned 32-bit difference of timestamps stays correct across a wrap of
the counter, so "late" is a flag that becomes true once and stays true.

**Abstract specification.** `HandshakeMeet` is what the handshake promises:
- a side arrives;
- it may come to have seen its peer once the peer has arrived;
- it returns ready only once both ends have seen each other;
- a side with a timeout may give up at any point of its wait.

`Handshake` maps `pc` to `out` ("init" is "none", "loop" is "waiting") and
`srcReady` to `seen`, and checks `Meet!Spec` (`MeetRefinement`).

**Mixed link.** On E2–E3 only E2 has a timeout. E2 may give up after its
pings went out but before E3's marker reached its `sync_in`. It then never
echoes, and E3 spins for ever with `src_ready` set. `PeerSeenLeadsToReady`
pins down the boundary. Once the peer has set `src_ready`, a side without a
timeout returns ready, even if the peer then gives up. The refinement gives
the converse: ready only after the peer has seen this side.

### UcastDest: header builders and the destination producer

The worker builds a header with one of three builders:
`fabric_async_write_add_header`, `fabric_atomic_inc_add_header` or
`fabric_async_write_atomic_inc_add_header`. The 64-bit NOC address is split
into `target_offset_h`/`_l` (`Hi`, `Lo`; `AddrBase` stands for 2^32). The
words reach the destination producer's B-word buffer as the sender's credits
allow (`SendWord`).

| Code | Model |
|---|---|
| `get_curr_packet_valid` → `advance_next_packet` on a local unicast header | `AdvanceNextPacket` |
| `process_inbound_packet`, ASYNC_WR, `packet_in_progress == 0`: `packet_dest` from `target_offset_h:_l`, header consumed, `issue_async_write<false>` | `WriteStart` |
| later calls: `flush_async_writes`, then `issue_async_write<true>` | `WriteContinue` |
| the call that finds the packet written: flush, the fused atomic at `noc_xy:l1_offset`, retire | `WriteFinish` |
| INLINE_FORWARD atomic increment | `AtomicInline` |

`writes` and `atomics` record the NOC writes and atomic increments issued.

## 3. Runs

| Run | Module / cfg | Expect | What it shows |
|---|---|---|---|
| `pq_pass` | MCPullRequestQueue / PullRequestQueue.cfg | pass | With 3 senders and a 2-slot queue (2·Q − 1), no valid descriptor is overwritten. The queue refines `RequestFifo`: the oldest reservation is served, and its acknowledgement releases the sender that made it (`FifoRefinement`). Every sender that reserves is served. |
| `pq_alias` | MCPullRequestQueue / PullRequestQueueAlias.cfg | violation | With 4 senders and a 2-slot queue, a fourth outstanding reservation makes wrptr equal rdptr again. The full test answers empty, and a sender overwrites a served but unretired descriptor (depth 11). |
| `hop_pass` | MCPullTransfer / PullTransfer.cfg | pass | One hop with a 4-word buffer, 3-word headers, a 7-word FORWARD packet, an INLINE_FORWARD packet and a 6-word multicast packet written locally on this chip. The checks are listed below the table. |
| `socket_phantom` | MCSocketReader / SocketReaderPhantom.cfg | violation | `push_socket_data` on an empty socket buffer (`fvc_pull_wrptr == fvc_out_rdptr`) counts 2N words and pushes words that were never pulled (`PushOnlyPulledWords`). |
| `socket_overpull` | MCSocketReader / SocketReaderOverPull.cfg | violation | `pull_socket_data` never raises `words_read`, so the reader pulls past `words_written` (`PullWithinWritten`). |
| `socket_live_hang` | MCSocketReader / SocketReaderLiveHang.cfg | violation | In the live build the forwarding loop's chunk is `buffer_size - ptr` on a 2N pointer; at ptr = N the chunk is 0 and the loop never ends (`PushLoopTerminates`). |
| `ctrl_pass` | MCControlChannel / ControlChannel.cfg | pass | Traffic A → B → C with rings of 2, and two workers of B each opening a socket through the gatekeeper's ring. The outbound never overruns the far ring (`RemoteRingNotOverrun`). `forward_message` never writes over a slot of an outbound ring that the outbound handler has not sent (`RingSlotNeverOverwritten`). Every worker returns from `fabric_socket_connect` (`EverySocketConnects`). |
| `ctrl_stale_resend` | MCControlChannel / ControlChannelStale.cfg | violation | A slot reserved while the ring is full still holds a sent message's flags; the outbound sends that message again and loses the forwarded one (`DeliveredInOrder`, depth 13). |
| `ctrl_deadlock` | MCControlChannel / ControlChannelDeadlock.cfg | violation | With traffic both ways, each core's inbound spins in `forward_message` on the other core's full ring (`NoCircularForwardWait`, depth 17). |
| `mcast_pass` | MCMcastRoute / McastRoute.cfg | pass | Every multicast write from either end of a 5-chip row, with every hop depth up to 3, writes at exactly the chips of its group (`DeliveredToGroup`). No router flags an undamaged header as corrupted (`NoFalseCorruption`). The checksum branch of `update_mcast_hops` must line up with the forwarding decision of `advance_next_packet`. Every write the link does not damage completes (`MulticastCompletes`). |
| `handshake_pass` | MCHandshake / Handshake.cfg | pass | Two links: E0–E1 wait without a timeout; on E2–E3 only E2 has one. Any router may never launch, and writes land late. Every behaviour refines `HandshakeMeet` (`MeetRefinement`). Once both ends of E0–E1 launch, both return ready (`LinkReadyOnceBothLaunched`). E3 returns ready once E2 has echoed its marker, even if E2 then times out (`PeerSeenLeadsToReady`). |
| `ucast_fused_write` | MCUcastDest / UcastDestFused.cfg | violation | A fused write + atomic packet writes its payload on the atomic counter's core, not at the requested write address (`WritesAtRequestedAddress`, depth 8). |

What `hop_pass` checks:
- Every unpulled word is still in the producer buffer (`UnpulledWordsIntact`).
- The consumer holds the stream in order (`ConsumerHoldsStream`).
- The producer's read pointer sits on a header whenever no packet is current
  (`HeaderAtReadPointer`).
- Every pending local write of a multicast packet still finds, in its source
  slot, the stream word that belongs at its offset from `packet_dest`
  (`LocalWriteSourcesIntact`). This catches two kinds of error. Buffer space
  freed before the flush lets the upstream overwrite a word still to be
  written. A wrong `packet_dest` step or source pointer across the wrap is
  the other.
- The stream never stops (`StreamProgresses`): `drainedG` changes infinitely
  often.

`PullRequestQueueAlias.cfg` sets `CHECK_DEADLOCK FALSE`. Once aliased, the
router sees an empty queue while senders wait: that state is a deadlock, which
TLC would report before the overwrite.

### Bounds

- **Request queue.** QSize = 2 has all the cases of a power-of-two ring: empty,
  full, and a wrap of the 2·Q pointer. Three senders reach every full/non-full
  combination. A fourth is exactly the aliasing case.
- **One hop.** N = 4 with H = 3 puts a header at every offset, so it straddles
  the wrap at offsets 2 and 3. The producer reads such a header whole at
  `fvc_out_rdptr`; its two-step copy (tt_fabric.h:480-493) is not modelled. A 7-word packet is longer than the buffer, so it
  is advertised in several pieces and pulled across the wrap. The inline header
  at stream offset 7 lands at offset 3 of the consumer buffer: the one-word
  case of the split. WordCycle = 20 is a multiple of N, so the ghost tags stay
  consistent around the buffer.

- **Socket reader.** N = PN = 4 with 3-word packets: the 2N pointers pass N
  and wrap within three packets, and the threshold of 2 makes partial pushes
  happen.
- **Control channel.** Rings of S = 2 are full after two messages, which is
  where the reservation-before-poll matters. Ghost numbers wrap at K = 8, more
  than the messages that can be in flight at once.
- **Gatekeeper ring.** In `ctrl_pass` two workers, each opening one
  socket, race for the two-slot gatekeeper ring. They never fill it, so
  `RingSlotNeverOverwritten` is stated for the outbound rings only. A's socket opens forwarded
  by X are left out of that run. With them, the gatekeeper ring is too small:
  X's two messages, its next reservation and one worker's reservation reach
  2·S. The worker's wrapped pointer then equals `rdptr`, and it overwrites an
  unread open. TLC reports this as a violation of `RingSlotNeverOverwritten`
  extended to the gatekeeper's ring.
  It is the aliasing `pq_alias` shows, in `send_message_to_gk` and
  `forward_message` (hazard at tt_fabric_api.h:312). Rings of four, where the
  mix would fit, are beyond TLC: more than 15 minutes.
- **Multicast.** A row of 5 chips with depths 0..3 from either end covers
  depth 0 (last-hop delivery), groups that end at the row's last chip, and
  hop counts that are not in the direction of travel.
- **Handshake.** One link has only 96 states. Two independent links give
  every interleaving of starts, loop passes and landings on each: one link
  without a timeout and one with a timeout on one end only. The mixed link
  also shows the race of a side that fails after echoing while its peer
  returns ready. A link with timeouts on both ends adds no new pass order
  on either end.
- **Unicast destination.** B = 4 words, 3-word headers and packets of 48, 72
  and 80 bytes: header only, a trailing partial word, and a packet that wraps
  the buffer. Two NOC cores with two offsets each tell a write on the wrong
  core from one at the wrong offset.

### Fairness

Every router and consumer loop polls for ever. A spinning sender keeps
polling. NOC writes are delivered. The upstream always has more stream to send
(PullTransfer). All of these are weak fairness on the corresponding actions.
Senders are not obliged to post requests.

`Handshake` assumes weak fairness on:
- every launched side's loop, since it polls without stopping;
- the landing of ethernet writes, since a pending write stays deliverable
  until it lands;
- `Elapse` on a side with a timeout, since its cycle counter keeps running.

It assumes none on `Start`: a peer may never come up, and that is the case
the timeout exists for.

`ControlChannel` assumes weak fairness on the gatekeeper, on a worker's poll
and connect spin, and on a core's `forward_message` poll. The far chips are
not obliged to send. `McastRoute` assumes weak fairness on every producer step
(`AdvanceNextPacket`, `ProcessMcastPacket`, `ProcessUcastDest`,
`ForwardNotDest`), because each router polls them on every pass of its loop.
It assumes none on `Send` or `LinkFault`.

The control-channel runs set `CHECK_DEADLOCK FALSE`. The deadlock is a
finding of its own, and the pass run asks about overwrites and connects.
`Handshake.cfg` sets it because the function returns.

## 4. Mutants

Each property of a passing run is broken by a plausible bug in the code it
covers. `PROJECT.json` lists them:
- a 32-bit atomic wrap;
- an off-by-one full test;
- a retire that leaves the flags set;
- the read pointer masked to the slot range;
- a pull not capped by free space;
- credit returned for words advertised rather than read;
- an inline header not split at the wrap;
- `words_available` not capped by the packet;
- multicast buffer space freed before `noc_async_writes_flushed`;
- a router loop that never retires a finished entry;
- a control-ring pointer not masked at 2·S;
- the remote-full test made against `ptr` instead of `ptr_cleared`;
- an off-by-one in `fvcc_buf_ptrs_full`;
- `update_mcast_hops` without its `!= 0` guard, or testing ACTIVE before the
  decrement;
- the multicast checksum computed before the decrement, or not copied to the
  buffer's header;
- the handshake marker sent to the wrong register, `dest_ready` read from
  `sync_in`, the echo never sent, or the `timeout_cycles > 0` test
  dropped;
- a socket open whose ack offset names the handle after the one it opened.

## 5. Findings

`PROJECT.json` gives each finding in full. In brief:
- **`pq_alias`.** The request queue aliases full and empty once
  2·CHAN_REQ_BUF_SIZE reservations are outstanding.
- **`socket_phantom`, `socket_overpull`, `socket_live_hang`.** The socket
  reader pushes phantom words, pulls past `words_written`, and hangs in its
  live forwarding loop.
- **`ctrl_stale_resend`.** `forward_message` reserves before it polls, so a
  message is re-sent and a forwarded one is lost.
- **`ctrl_deadlock`.** `forward_message` spins in the inbound handler, so two
  cores forwarding to each other deadlock. The spec says such spins yield.
- **`ucast_fused_write`.** `fabric_async_write_atomic_inc_add_header` takes
  `target_offset_h` from the atomic address (tt_fabric_api.h:258).

## 6. Not yet modelled

- A relaunch of the handshake over stale sync registers. Whether
  `router_state` is re-zeroed is the host's decision, outside the source tree.
- The DSOCKET_WR and SOCKET_CLOSE destination paths, and the ATOMIC_INC
  branch of `process_mcast_packet`. No header builder in the source makes a
  multicast packet with ATOMIC_INC. The socket paths post the request to the
  socket's notification address, which is the `SocketReader` model's input.
- `fabric_socket_close`. It copies a header into a pull request and posts it
  with `tt_fabric_send_pull_request`, which `PullRequestQueue`'s senders
  already model.
- `fabric_endpoint_init`. It zeroes the interface and reads a routing table.
- The gatekeeper's pairing of send and receive sockets. The gatekeeper is
  outside the source tree; the model activates a handle when its open is
  read.
- `mesh_command_queue.cpp`. Its state changes go through the program, event
  and trace dispatch helpers and the sysmem manager, none of which is in the
  source tree. Two sequencing hazards of the file are listed. One is a
  blocking enqueue during trace capture, which waits for an event that was
  only captured. The other is `record_end` without, or after a second,
  `record_begin`.
- `wh_hal.cpp`. It holds static tables only.
- `tensor_utils.cpp`. It is host-side shape arithmetic that does not touch
  the router, and no run is left to check it.
- Recovery from a corrupted header. The source has none: `packet_corrupted`
  is written and never read. `McastRoute` reaches the stall under its link
  fault, and states completion for undamaged packets only.
- The tests, which do not touch the router.

See `PROJECT.json` for the hazards these leave open.
