SPECIFICATION Spec
CONSTANTS
  Lines = {1, 2}
  MaxCalls = 2
  MaxInputs = 4
  MaxErrors = 1
INVARIANTS InCallIsDue
PROPERTIES RingingEnds
CHECK_DEADLOCK FALSE
