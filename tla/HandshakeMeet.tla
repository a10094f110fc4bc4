---------------------------- MODULE HandshakeMeet ----------------------------
(***************************************************************************)
(* What the link handshake promises, without registers or ethernet       *)
(* writes: a side that has arrived may come to have seen its peer once   *)
(* the peer has arrived too; it returns ready only when both ends have    *)
(* seen each other, and a side with a finite timeout may give up at any  *)
(* point of its wait. Handshake refines this module.                     *)
(***************************************************************************)
CONSTANTS
    Sides,          \* the ends of the links
    Peer,           \* Peer[s]: the other end of s's link
    TimeoutSides    \* the sides called with timeout_cycles > 0

VARIABLES
    out,    \* "none" (not arrived), "waiting", "ready", "failed"
    seen    \* seen[s]: side s has seen its peer's marker

vars == <<out, seen>>

Init ==
    /\ out = [s \in Sides |-> "none"]
    /\ seen = [s \in Sides |-> FALSE]

(* The values seen[s] may take in a step of s: it may become true only   *)
(* once the peer has arrived.                                             *)
Sees(s) == {seen[s], seen[s] \/ out[Peer[s]] # "none"}

Arrive(s) ==
    /\ out[s] = "none"
    /\ out' = [out EXCEPT ![s] = "waiting"]
    /\ UNCHANGED seen

See(s) ==
    /\ out[s] = "waiting"
    /\ \E v \in Sees(s) : seen' = [seen EXCEPT ![s] = v]
    /\ UNCHANGED out

Return(s) ==
    /\ out[s] = "waiting"
    /\ seen[Peer[s]]
    /\ \E v \in Sees(s) : v /\ seen' = [seen EXCEPT ![s] = v]
    /\ out' = [out EXCEPT ![s] = "ready"]

GiveUp(s) ==
    /\ s \in TimeoutSides
    /\ out[s] = "waiting"
    /\ \E v \in Sees(s) : seen' = [seen EXCEPT ![s] = v]
    /\ out' = [out EXCEPT ![s] = "failed"]

Next == \E s \in Sides : Arrive(s) \/ See(s) \/ Return(s) \/ GiveUp(s)

Spec == Init /\ [][Next]_vars

====
