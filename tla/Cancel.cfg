CONSTANTS
  w1 = w1  w2 = w2  w3 = w3
  Worker = {w1, w2, w3}
  Main = w1
  Kind = {"two"}
  Tag = {1, 2}
  MaxSub = 3
  MaxEnter = 3
  MaxMany = 1
SPECIFICATION FairSpec
INVARIANTS CancelAccounting OwnSubtasks RunsNormally AbortedIfCancelled NoHole
PROPERTIES Terminates
\* the run ends, or two workers lock each other out (CancelLock)
CHECK_DEADLOCK FALSE
