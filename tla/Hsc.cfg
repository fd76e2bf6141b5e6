\* The program may stop: exit(1) ends it.
CHECK_DEADLOCK FALSE
CONSTANTS
  Root = {x, y}
  Shape <- MCShape
  MaxNew = 4
  ToSize = 3
SPECIFICATION FairSpec
INVARIANTS NoDangling Tiled ExactlyLive FailsOnlyIfFull
PROPERTIES CollectionEnds ImplementsGraph
