SPECIFICATION FairSpec
CONSTANTS
  ShBits = 4
  ClockDiv = 3
  CyclesPerBit = 3
  NoData = 48879
  UartPage = 1
  FifoSize = 3
  Keys = {1, 2}
  CanStop = TRUE
  ParModes = {TRUE}
  MaxTyped = 4
  Literals = {}
  MaxSent = 2
  Calls <- ReadWrite
INVARIANT HostTypeOK
INVARIANT ParallelInputKept
INVARIANT OutputKept
INVARIANT MonitorSafe
PROPERTY RunEnds
PROPERTY InputArrives
CHECK_DEADLOCK FALSE
