--------------------------- MODULE MCControlChannel ---------------------------
(* The control channel of chip B with rings of two messages. Ids are      *)
(* taken mod 8: at most 3 * 2 forwarded messages are in flight in one      *)
(* direction (the inbound ring, the outbound ring, the far ring), so ids  *)
(* in flight are distinct.                                                *)
EXTENDS ControlChannel

CONSTANTS w1, w2

MCS == 2
MCK == 8
OneWay == {"AC"}
BothWays == {"AC", "CA"}

(* Routed traffic only: messages for C and write responses for B. *)
RoutedKinds == {"fwd", "resp"}
(* Routed traffic and socket opens for B from A. *)
AllKinds == {"fwd", "resp", "open"}

(* Two workers of B opening a socket each, racing for the gatekeeper's  *)
(* ring of two slots. With A's socket opens forwarded by X into the same *)
(* ring, two slots are too few: X's two messages, its next reservation   *)
(* and one worker's reach 2 * S and the worker's pointer aliases rdptr   *)
(* (the request-queue aliasing of pq_alias); see the README.             *)
TwoWorkers == {w1, w2}
OneWorker == {w1}
NoWorkers == {}
====
