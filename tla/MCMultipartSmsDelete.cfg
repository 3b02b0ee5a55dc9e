SPECIFICATION Spec
CONSTANTS
  Storages <- MCStorages
  Slots = {1, 2}
  References <- MCReferences
  Incoming <- MCIncoming
  Sizes = {2}
  InitialStores <- MCInitialStores
  ListOrder <- MCListOrder
  PduModes = {TRUE}
  None = None
  MaxSms = 3
  MaxInputs = 4
INVARIANTS DeletesOnlyItself
CHECK_DEADLOCK FALSE
