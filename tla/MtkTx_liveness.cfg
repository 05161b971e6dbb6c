SPECIFICATION FairSpec
CONSTANTS
  N = 5
  Thresh = 1
  Sizes = {1, 2}
  Budget = 2
  MacCount = 1
CONSTRAINT Counted
PROPERTIES
  Reclaimed
  Unstuck
