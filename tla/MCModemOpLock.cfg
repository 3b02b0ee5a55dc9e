SPECIFICATION Spec
CONSTANTS
  r1 = r1
  r2 = r2
  o1 = o1
  r3 = r3
  Requests = {r1, r2, r3, o1}
  Override = {o1}
  MaxId = 2
INVARIANTS AssertsHold
PROPERTIES ServedInOrder OverrideIsLast MutexSpec EveryRequestEnds
