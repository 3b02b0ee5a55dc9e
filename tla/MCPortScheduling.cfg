SPECIFICATION Spec
CONSTANTS
  s1 = s1
  s2 = s2
  s3 = s3
  Sources = {s1, s2, s3}
  GMaxUint = 255
  MaxPending = 2
INVARIANTS NoStall PendingIsQueue
PROPERTIES RoundRobin TokenSpec Served
