SPECIFICATION Spec
CONSTANTS
  Cap = 5
  STAGE = 2
  Lengths = {4, 5}
  FactoryLen = 3
  Builds = {1, 2}
  MaxVer = 3
  MaxFaults = 2
INVARIANTS
  StoreTypeOK
  LandsWhole
  
PROPERTIES
  BootRestores
  OffMeansOff
  SaveEnds
