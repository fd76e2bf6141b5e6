----------------------------- MODULE MCServer ------------------------------
(* One server with three nodes, or two servers: the lower one is a child of *)
(* the upper one and has one or two nodes.                                   *)
EXTENDS TascellServer, TLC

CONSTANTS na, nb, nc, s1, s2

OneServerParent == s1 :> Term
OneServerChildren == s1 :> <<na, nb, nc>>
TwoServerParent == (s1 :> Term) @@ (s2 :> s1)
TwoServerChildren == (s1 :> <<na, s2>>) @@ (s2 :> <<nb, nc>>)
EldestChildren == (s1 :> <<s2, na>>) @@ (s2 :> <<nb, nc>>)
ChainChildren == (s1 :> <<na, s2>>) @@ (s2 :> <<nb>>)
=============================================================================
