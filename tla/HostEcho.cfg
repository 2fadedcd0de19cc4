SPECIFICATION Spec
CONSTANTS
  ShBits = 4
  ClockDiv = 3
  CyclesPerBit = 3
  NoData = 48879
  UartPage = 1
  FifoSize = 3
  Keys = {1, 2}
  CanStop = FALSE
  ParModes = {TRUE}
  MaxTyped = 3
  Literals = {}
  MaxSent = 2
  Calls <- EchoLoop
INVARIANT EchoesWhatIsTyped
CHECK_DEADLOCK FALSE
