SPECIFICATION Spec
CONSTANTS
  Bearers = {b1}
  Connects = {c1, c2}
  None = None
  MaxInputs = 4
INVARIANTS AbortReaches
CHECK_DEADLOCK FALSE
