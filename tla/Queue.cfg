SPECIFICATION FairSpec
CONSTANTS
  Producer = {pa, pb}
  MaxAdds = 3
  Consumer = consumer
  Free = free
  Lisp = {"allegro", "sbcl"}
INVARIANTS
  GateMeansNonempty
  NoNil
  Fifo
PROPERTIES
  DeliveredByAllegro
  NextAddWakes
CHECK_DEADLOCK FALSE
