\* One DLMM with two slots, so that the connection it dials after a loss
\* overlaps the one the bridge still serves; a queue of depth one, so that the
\* second task evicts; channels of one, so that every send has to wait once.
CONSTANTS
  n1 = n1 n2 = n2 c1 = c1 c2 = c2 t1 = t1 t2 = t2
  Node = {n1}
  Task = {t1, t2}
  Conn = {c1, c2}
  Owner <- OneNodeOwner
  Caller = {p1}
  Target <- OneNodeTarget
  Commanded = {t1}
  AckStatus = {"Accepted"}
  Alerting = {}
  MaxDepth = 1
  Ttl = 0
  WriteCap = 1
  UpdateCap = 1
  EarlyTelemetry = FALSE
  NoConn = NoConn
  NoTask = NoTask
  MaxNow = 1
  MaxFaults = 1

SPECIFICATION Spec
SYMMETRY SlotSymmetry

INVARIANTS
  TypeOK
  NoDanglingConnection
  QueuedTaskIsOffered
  CommandGoesWithTask
  NoGhostNode

PROPERTIES
  DeliversTasks
