\* One DLMM with two slots, so that its reconnect overlaps: one task, which may
\* be lost with the connection, replayed, or never routed again.
CONSTANTS
  n1 = n1 n2 = n2 c1 = c1 c2 = c2 t1 = t1 t2 = t2
  Node = {n1}
  Task = {t1}
  Conn = {c1, c2}
  Owner <- OneNodeOwner
  Caller = {p1}
  Target <- OneTaskTarget
  Commanded = {t1}
  AckStatus = {"Accepted"}
  Alerting = {}
  MaxDepth = 1
  Ttl = 0
  WriteCap = 1
  UpdateCap = 1
  EarlyTelemetry = TRUE
  NoConn = NoConn
  NoTask = NoTask
  MaxNow = 0
  MaxFaults = 1

SPECIFICATION FairSpec

PROPERTY UndeliveredIsUnroutable
