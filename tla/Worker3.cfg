CONSTANTS
  w0 = w0
  w1 = w1
  w2 = w2
  Worker = {w0, w1, w2}
  First = w0
  AlwaysFlush = FALSE
  MCNode = {1, 2, 3, 4, 5, 6, 7}
  MCLeaf = {4, 5, 6, 7}
  Node <- MCNode
  Leaf <- MCLeaf
  Root = 1
  Left <- MCLeft
  Right <- MCRight
SPECIFICATION Spec
INVARIANTS ReplyAccounting SubtaskLink OwnResult NoLockCycle Leapfrogging WholeInv
PROPERTIES NoneGuarantee
