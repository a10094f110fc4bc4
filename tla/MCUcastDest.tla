----------------------------- MODULE MCUcastDest -----------------------------
(* A producer buffer of 4 words, 3-word headers and 16-byte words. Two    *)
(* NOC cores, xy 1 and 2, each with an L1 offset of 0 or 64; packets of   *)
(* the header alone, one word and a half (trailing bytes), or two words.  *)
EXTENDS UcastDest

MCAddrBase == 1024
MCAddrs == {Join(xy, off) : xy \in {1, 2}, off \in {0, 64}}
MCSizes == {48, 72, 80}

====
