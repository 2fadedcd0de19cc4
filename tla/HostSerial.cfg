SPECIFICATION Spec
CONSTANTS
  ShBits = 4
  ClockDiv = 4
  CyclesPerBit = 4
  NoData = 48879
  UartPage = 1
  FifoSize = 3
  Keys = {5, 10}
  CanStop = FALSE
  ParModes = {FALSE}
  MaxTyped = 2
  Literals = {6}
  MaxSent = 2
  Calls <- Writes
INVARIANT SerialInputKept
INVARIANT OutputKept
CHECK_DEADLOCK FALSE
