SPECIFICATION Spec
CONSTANTS
  ShBits = 4
  Formats <- MCFormats
INVARIANT PrintsPattern
CHECK_DEADLOCK FALSE
