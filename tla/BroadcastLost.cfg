CONSTANTS
  na = na  nb = nb  nc = nc  nd = nd  s1 = s1  s2 = s2
  wa = wa  wb = wb  wc = wc
  Node <- MCNode
  Server <- MCServer
  Links <- MCLinks
  Worker = {wa}
  HomeOf <- MCHomeOf
  Leaver = {}
  MaxBcst = 1
SPECIFICATION FairSpec
PROPERTIES WaitEnds
CHECK_DEADLOCK FALSE
