SPECIFICATION Spec
CONSTANTS
  Ids = {1, 2}
  Ptr = {p1, p2}
  NoPtr = NoPtr
  Clients = {c1}
  Lens = {2}
  SEC = 3
  MaxNow = 3
  MaxArm = 3
  ClientApi = {"UIAddTimer", "UIDelTimer", "UIDelAllTimer", "UIAddPeriodicTimer", "UIDelPeriodicTimer", "UIDelPeriodicTimer_retDataPtr", "UITimer_Destory"}
  CallbackApi = {"UIAddTimer", "UIDelTimer", "UIAddPeriodicTimer", "UIDelPeriodicTimer", "UIDelAllTimer"}
  Rules = {"readd", "delete", "retDataPtr", "delall", "start", "stop"}
SYMMETRY Symmetry
INVARIANTS
  MemorySafe
  TypeOK
  UniqueIds
  OneOwner
  NoOrphan
  OneShotFate
  NotBeforeDue
  SectionsExclude
