CONSTANTS
  na = na  nb = nb  nc = nc  nd = nd  s0 = s0  s1 = s1  s2 = s2
  Terminal = Terminal
  Node = {na, nb, nc, nd}
  Server = {s0, s1, s2}
  Parent <- DeepParent
  ChildId <- DeepChildId
  WorkerId = {0, 1}
  SubtaskId = {0, 1}
  MAXCMDC = 4
SPECIFICATION Spec
INVARIANTS RoundTrip Identifies
\* both answers have returned in the end
CHECK_DEADLOCK FALSE
