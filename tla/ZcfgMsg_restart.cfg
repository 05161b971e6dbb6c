SPECIFICATION Spec
CONSTANTS
  Threads = {t1, t2}
  IdxMod = 4
  QLen = 2
  MaxTry = 1
  Kinds = {"forever", "nowait"}
  MayFail = FALSE
  MaxReq = 4
  MaxSrvCrash = 1
  MaxCliCrash = 1
CHECK_DEADLOCK FALSE
SYMMETRY Symmetry
PROPERTIES
  RpcSpec
