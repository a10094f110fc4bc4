----------------------------- MODULE RequestFifo -----------------------------
(***************************************************************************)
(* What a router's pull-request queue promises its senders (spec 4.4):   *)
(* each sender has at most one request outstanding, requests are served  *)
(* in the order they were posted, and serving a request releases the     *)
(* sender that posted it. PullRequestQueue refines this module.           *)
(***************************************************************************)
EXTENDS Sequences

CONSTANT Senders

VARIABLES
    queue,  \* the requests posted and not yet served, oldest first
    busy    \* the senders waiting for their request to be served

vars == <<queue, busy>>

Init == queue = <<>> /\ busy = {}

Post(s) ==
    /\ s \notin busy
    /\ queue' = Append(queue, s)
    /\ busy' = busy \cup {s}

Serve ==
    /\ queue # <<>>
    /\ queue' = Tail(queue)
    /\ busy' = busy \ {Head(queue)}

Next == (\E s \in Senders : Post(s)) \/ Serve

Spec == Init /\ [][Next]_vars

====
