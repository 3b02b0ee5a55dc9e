SPECIFICATION Spec
CONSTANTS
  p1 = p1
  p2 = p2
  a1 = a1
  a2 = a2
  a3 = a3
  b1 = b1
  None = None
  Stray = Stray
  Sources = {p1, p2}
  GMaxUint = 255
  Cmds = {a3, b1}
  PortOf <- MCPortOf
  Text <- MCText
  Cacheable = {}
  RunFirst = {}
  Cancellable = {}
  Users = 1
  MaxStray = 0
INVARIANTS NoAbort
PROPERTIES EveryCommandEnds
CHECK_DEADLOCK FALSE
