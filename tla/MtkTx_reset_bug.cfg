SPECIFICATION Spec
CONSTANTS
  N = 4
  Thresh = 1
  Sizes = {1}
  Budget = 1
  MacCount = 2
INVARIANT
  ResetShutsDown
CHECK_DEADLOCK FALSE
