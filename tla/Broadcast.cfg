CONSTANTS
  na = na  nb = nb  nc = nc  nd = nd  s1 = s1  s2 = s2
  wa = wa  wb = wb  wc = wc
  Node <- MCNode
  Server <- MCServer
  Links <- MCLinks
  Worker = {wa, wc}
  HomeOf <- MCHomeOf
  Leaver = {nd}
  MaxBcst = 2
SPECIFICATION FairSpec
INVARIANTS AckAccounting
PROPERTIES Converges ReturnMeansAll
\* a worker may wait for ever, for a bcak that came too early or never comes
CHECK_DEADLOCK FALSE
