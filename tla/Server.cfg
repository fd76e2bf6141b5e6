CONSTANTS
  na = na  nb = nb  nc = nc  s1 = s1  s2 = s2
  Term = Term
  Node = {na, nb, nc}
  Server = {s1, s2}
  Parent <- TwoServerParent
  Children <- EldestChildren
  Leaver = {nc}
  AutoResend = 0
  MaxTask = 1
  MaxAnswered = 1
SPECIFICATION Spec
INVARIANTS RequestAccounting TaskAccounting CountersAgree OneTaskAtATime NothingForgotten
PROPERTIES TaskToRequester
\* the run ends when the exit gate opens
CHECK_DEADLOCK FALSE
