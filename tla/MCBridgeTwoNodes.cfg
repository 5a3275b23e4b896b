\* Two DLMMs with one slot each, and two callers: a task for one, alerts of the
\* other. Channels of one, so that a sender waits for room with the mutex in its
\* hands while the other sender waits behind it, the other node registers, or a
\* lost connection cleans up. No acknowledgements, and the clock stands.
CONSTANTS
  n1 = n1 n2 = n2 c1 = c1 c2 = c2 t1 = t1 t2 = t2
  Node = {n1, n2}
  Task = {t1}
  Conn = {c1, c2}
  Owner <- TwoNodeOwner
  Caller = {p1, p2}
  Target <- OneTaskTarget
  Commanded = {}
  AckStatus = {}
  Alerting = {n2}
  MaxDepth = 1
  Ttl = 0
  WriteCap = 1
  UpdateCap = 1
  EarlyTelemetry = FALSE
  NoConn = NoConn
  NoTask = NoTask
  MaxNow = 0
  MaxFaults = 1

SPECIFICATION FairSpec

INVARIANT QueuedTaskIsOffered

PROPERTY NobodyWaitsForEver
