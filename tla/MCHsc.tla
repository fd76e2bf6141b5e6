------------------------------- MODULE MCHsc -------------------------------
(***************************************************************************)
(* HscCollector on a small heap of 32-bit words: a structure with one     *)
(* reference fills one unit of align-t, one with two or three fills two.   *)
(***************************************************************************)
EXTENDS HscCollector

MCShape == {[size |-> 1, refs |-> 1], [size |-> 2, refs |-> 2]}
=============================================================================
