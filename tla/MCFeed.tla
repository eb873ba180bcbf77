------------------------------- MODULE MCFeed -------------------------------
(* Two posts, one of them in a channel, on pages of one post. *)
EXTENDS Feed

CONSTANTS c1, p1, p2

MCChannelOf == [p \in Post |-> IF p = p1 THEN None ELSE c1]
=============================================================================
