SPECIFICATION FairSpec
CONSTANTS
  MgmtStart = 2
  SigBa = 8
  Spare = 1
  FactoryBad = {{1}, {1, 3, 4, 5}}
  Values = {v}
  MaxFail = 2
  MaxOff = 2
INVARIANTS
  TypeOK
  ReadsBack
  Survives
  Apart
PROPERTY
  OpsReturn
CHECK_DEADLOCK FALSE
