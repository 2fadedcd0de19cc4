CONSTANTS
  ShBits = 3
  Warmups <- PackedRequests
  Requests <- PackedRequests
SPECIFICATION Spec
INVARIANT LabLatency
