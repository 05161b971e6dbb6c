SPECIFICATION Spec
CONSTANTS
  N = 5
  Thresh = 1
  Sizes = {1, 2}
  Budget = 1
  MacCount = 2
CONSTRAINT Counted
INVARIANTS
  TypeOK
  RingAlive
  Accounting
  WokenUnlessMissed
