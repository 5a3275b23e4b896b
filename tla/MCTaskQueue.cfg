\* Depth two, so that a third enqueue evicts; TTL one tick of a clock of
\* three, so that tasks of one queue expire at different ticks.
CONSTANTS
  Node = {n1, n2}
  Task = {t1, t2, t3, t4}
  MaxDepth = 2
  Ttl = 1
  MaxNow = 3
  MaxSlot = 3

SPECIFICATION Spec
SYMMETRY QueueSymmetry

INVARIANTS
  DepthBounded
  ExpiredFirst

PROPERTY LossProperty
