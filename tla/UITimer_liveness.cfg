SPECIFICATION FairSpec
CONSTANTS
  Ids = {1}
  Ptr = {p1, p2}
  NoPtr = NoPtr
  Clients = {c1}
  Lens = {1}
  SEC = 2
  MaxNow = 2
  MaxArm = 2
  ClientApi = {"UIAddTimer", "UIDelTimer", "UIAddPeriodicTimer", "UIDelPeriodicTimer", "UITimer_Destory"}
  CallbackApi = {"UIAddTimer", "UIAddPeriodicTimer"}
  Rules = {"readd", "delete", "retDataPtr", "delall", "start", "stop"}
PROPERTIES
  OneShotServed
  DeletedIsFreed
  DestoryReturns
