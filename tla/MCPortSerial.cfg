SPECIFICATION Spec
CONSTANTS
  p1 = p1
  p2 = p2
  a1 = a1
  a2 = a2
  a3 = a3
  b1 = b1
  None = None
  Stray = Stray
  Sources = {p1}
  GMaxUint = 255
  Cmds = {a1, a2, a3}
  PortOf <- MCPortOf
  Text <- MCText
  Cacheable = {a1, a2, a3}
  RunFirst = {a3}
  Cancellable = {a3}
  Users = 2
  MaxStray = 1
INVARIANTS QueueExact NoPortStall AnswerIsForCommand
PROPERTIES OpenCountKept SkewCause
CHECK_DEADLOCK FALSE
