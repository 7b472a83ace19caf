SPECIFICATION FairSpec
CONSTANTS
  NbEndPoints = 2
  NbZdoCallbacks = 1
  NbDeviceInfos = 1
  TxSize = 5
  MaxFaults = 1
INVARIANTS
  TypeOK
PROPERTIES
  SuccessMeansConfigured
  StartCompletes
  LostTtyRestarts
CHECK_DEADLOCK FALSE
