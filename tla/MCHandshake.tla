----------------------------- MODULE MCHandshake -----------------------------
(* Two ethernet links between a pair of chips: E0-E1, whose routers wait  *)
(* without a timeout, and E2-E3, where only E2 is given one (a mixed link, *)
(* on which E2 may time out and E3 may be left waiting). Each link's     *)
(* routers run the handshake independently of the other link.            *)
EXTENDS Handshake

MCSides == {"E0", "E1", "E2", "E3"}
MCPeer == ("E0" :> "E1") @@ ("E1" :> "E0") @@ ("E2" :> "E3") @@ ("E3" :> "E2")
MCTimeoutSides == {"E2"}

====
