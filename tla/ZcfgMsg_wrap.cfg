SPECIFICATION Spec
CONSTANTS
  Threads = {t1}
  IdxMod = 3
  QLen = 1
  MaxTry = 1
  Kinds = {"timed", "forever"}
  MayFail = TRUE
  MaxReq = 8
  MaxSrvCrash = 1
  MaxCliCrash = 0
CHECK_DEADLOCK FALSE
INVARIANTS
  TypeOK
  ReplyMatches
