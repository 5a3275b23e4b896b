\* Three messages on two connections, a channel of one, a bucket of one token
\* that two ticks fill.
SPECIFICATION FairSpec
CONSTANTS
  a = a b = b drone = drone
  Node = {a, b}
  Conn = {c1, c2}
  Object = {drone}
  Message <- MCMessage
  Refill = 1
  OneToken = 2
  Burst = 1
  MaxTime = 2
  UpdateCap = 1
  MaxMessages = 3
  MaxLosses = 1
  MaxFailures = 1
INVARIANTS
  WindowBound InTurn HeartbeatKeepsStatus TrackFollowsLatest GhostsWereClaimed
PROPERTY UpdateIsTaken
CHECK_DEADLOCK FALSE
