CONSTANTS
  w1 = w1  w2 = w2  w3 = w3
  Worker = {w1, w2, w3}
  Main = w1
  Kind = {"many"}
  Tag = {1}
  MaxSub = 3
  MaxEnter = 3
  MaxMany = 2
SPECIFICATION Spec
INVARIANTS NoHole
\* the run ends, or two workers lock each other out (CancelLock)
CHECK_DEADLOCK FALSE
