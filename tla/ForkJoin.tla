------------------------------ MODULE ForkJoin ------------------------------
(***************************************************************************)
(* What a Tascell node promises about a divide-and-conquer computation,    *)
(* whatever workers take part in it: every node of the computation tree is *)
(* finished exactly once, an inner node only after its two halves, and all *)
(* of them in the end.  Who runs which half, and when a half is given      *)
(* away, is not visible here.  The constants are those of TascellWorker,   *)
(* with the assumptions stated there.                                      *)
(***************************************************************************)
EXTENDS Naturals

CONSTANTS
  Node,    \* nodes of the computation tree: one per do-two, one per leaf call
  Leaf,    \* calls that are not divided any further
  Left,    \* the statement that is run first (stat1 of the do-two)
  Right    \* the statement that can be given away (stat2 of the do-two)

VARIABLE runs   \* how many times each node has been run to its end

TypeOK == runs \in [Node -> Nat]

Init == runs = [n \in Node |-> 0]

Finish(n) ==
  /\ runs[n] = 0
  /\ n \in Leaf \/ (runs[Left[n]] = 1 /\ runs[Right[n]] = 1)
  /\ runs' = [runs EXCEPT ![n] = 1]

Next == \E n \in Node : Finish(n)

Spec == Init /\ [][Next]_runs /\ WF_runs(Next)
=============================================================================
