SPECIFICATION Spec
CONSTANTS
  Storages <- MCStorages
  Slots = {1, 2}
  References <- MCReferences
  Incoming <- MCIncoming
  Sizes = {2}
  InitialStores <- MCInitialStores
  ListOrder <- MCListOrder
  PduModes = {TRUE, FALSE}
  None = None
  MaxSms = 4
  MaxInputs = 5
INVARIANTS LocksAreHeld ReceivedIsWhole ReadsRightStorage NothingTwice
CHECK_DEADLOCK FALSE
