SPECIFICATION Spec
CONSTANTS
  a = a b = b drone = drone
  Node = {a, b}
  Conn = {c1}
  Object = {drone}
  Message <- BearingMessage
  Refill = 1
  OneToken = 2
  Burst = 1
  MaxTime = 0
  UpdateCap = 1
  MaxMessages = 3
  MaxLosses = 1
  MaxFailures = 0
INVARIANT BearingsResolved
CHECK_DEADLOCK FALSE
