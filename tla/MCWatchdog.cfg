\* Two ticks per interval, so that a message can come between two sweeps, and
\* a clock of four intervals; a channel of one, so that the watchdog waits;
\* two connections of a node at once, so that one outlives the other.
CONSTANTS
  Node = {n1, n2}
  Interval = 2
  Capacity = 1
  Absent = Absent
  MaxServed = 2
  MaxNow = 8

SPECIFICATION Spec
SYMMETRY NodeSymmetry

INVARIANTS
  DetectedInTime
  CapabilityKept

PROPERTY RemovalProperty
