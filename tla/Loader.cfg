SPECIFICATION Spec
CONSTANTS
  ShBits = 4
  Files <- MCFiles
  BufferSize = 12
  AddrMod = 64
INVARIANT ImageRight
INVARIANT WritesInBounds
CHECK_DEADLOCK FALSE
