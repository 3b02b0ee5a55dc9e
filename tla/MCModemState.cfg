SPECIFICATION Spec
CONSTANTS
  Bearers = {b1, b2}
  Connects = {c1}
  None = None
  MaxInputs = 7
SYMMETRY Symmetry
INVARIANTS NoLostWakeup NobodyIsOrphaned DisabledIsDisconnected ConnectedIsShown
PROPERTIES OnlyEnablingLeavesDisabled
CHECK_DEADLOCK FALSE
