SPECIFICATION Spec
CONSTANTS
  Threads = {t1, t2, t3}
  Eids = {1, 2, 3}
  Slots = 2
  Recycle = TRUE
  Share = FALSE
  SocketFails = TRUE
  MaxSock = 4
  MaxExit = 2
SYMMETRY Symmetry
CHECK_DEADLOCK FALSE
INVARIANTS
  EidKept
  ServerKept
  AnyoneHasEid
PROPERTIES
  EntriesKept
