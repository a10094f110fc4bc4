---------------------------- MODULE MCMcastRoute ----------------------------
(* A row of five chips and hop depths up to 3: every depth from 0 to the  *)
(* length of the row past the first destination, in both directions,     *)
(* with the depths of the other three directions set as well.             *)
EXTENDS McastRoute

MCL == 5
MCMaxDepth == 3
====
