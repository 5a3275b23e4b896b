\* Two starts that may overlap each other and a stop(), two connections that may
\* have one address, two messages; three starts and messages together.
SPECIFICATION Spec
CONSTANTS
  radar = radar drone = drone
  Node = {radar}
  Object = {drone}
  Message <- MCMessage
  MaxStarts = 2
  MaxStops = 1
  MaxConn = 2
  MaxMessages = 2
  MaxInputs = 3
INVARIANTS
  RecordsMatchTasks ReportedOnce MeshAgreesWithCache RelayPreserves
CHECK_DEADLOCK FALSE
