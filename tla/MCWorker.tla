------------------------------ MODULE MCWorker ------------------------------
(* Small instances of TascellWorker: a heap-numbered binary tree. *)
EXTENDS TascellWorkerInv

CONSTANTS MCNode, MCLeaf

MCLeft == [n \in MCNode \ MCLeaf |-> 2 * n]
MCRight == [n \in MCNode \ MCLeaf |-> 2 * n + 1]
=============================================================================
