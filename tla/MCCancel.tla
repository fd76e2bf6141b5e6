------------------------------ MODULE MCCancel ------------------------------
(* All programs of bounded depth, run by three workers: enough for a worker  *)
(* to steal back from a thief while a third one throws.                      *)
EXTENDS TascellCancel

CONSTANTS w1, w2, w3
=============================================================================
