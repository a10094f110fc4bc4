------------------------- MODULE MCPullRequestQueue -------------------------
(* Model-checking instance of PullRequestQueue: a queue of two slots, so   *)
(* the pointers wrap (2 * QSize = 4) within a few requests.                 *)
EXTENDS PullRequestQueue

CONSTANTS s1, s2, s3, s4

(* Three senders: one fewer than the pointer range 2 * QSize. *)
MCSendersWithinRange == {s1, s2, s3}

(* Four senders: as many as the pointer range 2 * QSize. *)
MCSendersAtRange == {s1, s2, s3, s4}

MCQSize == 2
=============================================================================
