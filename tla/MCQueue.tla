------------------------------ MODULE MCQueue ------------------------------
(* Instances of SharedQueue for TLC *)
EXTENDS SharedQueue
=============================================================================
