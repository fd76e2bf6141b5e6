CONSTANTS
  w0 = w0
  w1 = w1
  Worker = {w0, w1}
  First = w0
  AlwaysFlush = FALSE
  MCNode = {1, 2, 3, 4, 5, 6, 7, 8, 9, 10, 11}
  MCLeaf = {6, 7, 8, 9, 10, 11}
  Node <- MCNode
  Leaf <- MCLeaf
  Root = 1
  Left <- MCLeft
  Right <- MCRight
SPECIFICATION FairSpec
INVARIANTS RackAccounting
PROPERTIES Computes Answered
