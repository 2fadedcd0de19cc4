CONSTANTS
  ShBits = 3
  Warmups <- MCWarmups
  Requests <- MCRequests
SPECIFICATION Spec
INVARIANTS
  AluCorrect
  ImmediatesRight
  ValuLatency
  ValuResultRight
  VmacLatency
  VmacResultRight
