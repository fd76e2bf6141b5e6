----------------------------- MODULE MCAddress -----------------------------
(* Trees of servers: s0 is the topmost one; it has two servers and a node. *)
EXTENDS TascellAddress

CONSTANTS s0, s1, s2, na, nb, nc, nd

DeepParent == (s0 :> Terminal) @@ (s1 :> s0) @@ (s2 :> s0) @@ (na :> s1) @@ (nb :> s1)
              @@ (nc :> s2) @@ (nd :> s0)
DeepChildId == (s0 :> 0) @@ (s1 :> 0) @@ (s2 :> 2) @@ (na :> 0) @@ (nb :> 1)
               @@ (nc :> 0) @@ (nd :> 1)
=============================================================================
