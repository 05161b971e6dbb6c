SPECIFICATION FairSpec
CONSTANTS
  N = 3
  Frags = {1, 2, 3, 4}
  Budget = 2
INVARIANTS
  TypeOK
  OwnBuffers
  ReportsWork
PROPERTIES
  Handled
  Replenished
