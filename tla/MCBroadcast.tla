---------------------------- MODULE MCBroadcast ----------------------------
(* Two servers: the upper one has two nodes and the lower server as its     *)
(* children, the lower one two nodes.                                        *)
EXTENDS TascellBroadcast

CONSTANTS na, nb, nc, nd, s1, s2, wa, wb, wc

MCNode == {na, nb, nc, nd}
MCServer == {s1, s2}
MCLinks == (s1 :> {na, nb, s2}) @@ (s2 :> {s1, nc, nd})
MCHomeOf == [w \in Worker |-> CASE w = wa -> na [] w = wb -> na [] w = wc -> nc]
=============================================================================
