CONSTANTS
  ShBits = 4
  Fields <- MCFields
  CtrMod = 8
  MemWords = 16
  UartPage = 1
  ClockDiv = 3
  NoData = 48879
  ParModes = {TRUE}
  RxBytes = {5}
  RxLevels = {1}
  Programs <- CounterProgram
  RegInits <- MCRegInits
  MinReset = 2
  MaxResets = 0
SPECIFICATION Spec
INVARIANT CounterWriteKeepsRegs
