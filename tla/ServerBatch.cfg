CONSTANTS
  na = na  nb = nb  nc = nc  s1 = s1  s2 = s2
  Term = Term
  Node = {na, nb}
  Server = {s1, s2}
  Parent <- TwoServerParent
  Children <- ChainChildren
  Leaver = {}
  AutoResend = 0
  MaxTask = 2
  MaxAnswered = 1
SPECIFICATION FairSpec
PROPERTIES Implements BatchEnds
\* the run ends when the exit gate opens
CHECK_DEADLOCK FALSE
