SPECIFICATION FairSpec
CONSTANTS
  Threads = {t1, t2}
  IdxMod = 4
  QLen = 2
  MaxTry = 1
  Kinds = {"forever", "timed", "nowait"}
  MayFail = TRUE
  MaxReq = 4
  MaxSrvCrash = 0
  MaxCliCrash = 0
CHECK_DEADLOCK FALSE
INVARIANTS
  OneReplyQueued
  NoSilentLoss
PROPERTIES
  RpcSpec
  CallsReturn
