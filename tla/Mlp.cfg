SPECIFICATION Spec
CONSTANTS
  ShBits = 4
  INPUT_SIZE = 16
  HIDDEN_SIZE = 16
  OUTPUT_SIZE = 4
  W1 <- MCW1
  W2 <- MCW2
  Inputs <- MCInputs
INVARIANTS ForwardRight PredictsFirstMaximum
CHECK_DEADLOCK FALSE
