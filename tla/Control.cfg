CONSTANTS
  ShBits = 4
  Fields <- MCFields
  CtrMod = 2
  MemWords = 16
  UartPage = 1
  ClockDiv = 3
  NoData = 48879
  ParModes = {TRUE, FALSE}
  RxBytes = {5}
  RxLevels = {1}
  Programs <- ControlPrograms
  RegInits <- MCRegInits
  MinReset = 2
  MaxResets = 1
SPECIFICATION FairSpec
INVARIANTS
  FetchCoherent
  UnitHandshake
  BusOwned
  ResponseOwned
PROPERTY EveryInsnRetires
