--------------------------- MODULE TaskQueueProofs ---------------------------
(***************************************************************************)
(* TaskQueue is type correct, bounded and ordered, whatever the nodes, the *)
(* tasks, the depth, the TTL and the bounds of the model.                  *)
(***************************************************************************)
EXTENDS TaskQueue, TaskQueueLemmas

\* The inductive invariant. DepthBounded and ExpiredFirst are not inductive:
\* an enqueue keeps the bound because the front it pops is a single entry,
\* and keeps the order because its slot is above, and its instant not before,
\* every other.
IInv == TypeOK /\ DepthBounded /\ ArrivalOrder

LEMMA QueuesArePlaced ==
  ASSUME IInv, NEW n \in Node
  PROVE  Placed(queues[n])
BY DEF IInv, TypeOK, ArrivalOrder, Placed

LEMMA InitInv == Init => IInv
<1> SUFFICES ASSUME Init PROVE IInv
  OBVIOUS
<1>1. \A n \in Node : queues[n] = {} /\ Cardinality(queues[n]) = 0
  BY FS_EmptySet DEF Init
<1>2. TypeOK
  BY <1>1, FS_EmptySet DEF Init, TypeOK, Call, NoCall
<1>3. DepthBounded
  BY <1>1, QueueAssumption DEF DepthBounded, DepthLimit
<1>4. ArrivalOrder
  BY <1>1 DEF ArrivalOrder
<1> QED BY <1>2, <1>3, <1>4 DEF IInv

\* A step that only removes tasks keeps the invariant.
LEMMA RemovalInv ==
  ASSUME IInv, UNCHANGED now, called' \in Call,
         queues' = [n \in Node |-> queues'[n]],
         \A n \in Node : queues'[n] \subseteq queues[n]
  PROVE  IInv'
<1>1. ASSUME NEW n \in Node
      PROVE  /\ queues'[n] \in SUBSET Entry
             /\ IsFiniteSet(queues'[n])
             /\ Cardinality(queues'[n]) <= DepthLimit
  <2>1. Placed(queues[n])
    BY QueuesArePlaced
  <2>2. /\ Placed(queues'[n])
        /\ Cardinality(queues'[n]) \in Nat /\ Cardinality(queues[n]) \in Nat
        /\ Cardinality(queues'[n]) <= Cardinality(queues[n])
    BY <2>1, SubqueuePlaced
  <2>3. Cardinality(queues[n]) <= DepthLimit /\ DepthLimit \in Nat
    BY QueueAssumption DEF IInv, DepthBounded, DepthLimit
  <2> QED BY <2>2, <2>3 DEF Placed
<1>2. TypeOK'
  BY <1>1 DEF IInv, TypeOK
<1>3. DepthBounded'
  BY <1>1 DEF DepthBounded, DepthLimit
<1>4. ArrivalOrder'
  BY DEF IInv, ArrivalOrder
<1> QED BY <1>2, <1>3, <1>4 DEF IInv

LEMMA EnqueueInv ==
  ASSUME IInv, NEW n \in Node, NEW t \in Task, Enqueue(n, t)
  PROVE  IInv'
<1>1. Placed(queues[n]) /\ now \in Nat /\ now' = now
  BY QueuesArePlaced DEF IInv, TypeOK, Enqueue
<1>2. /\ queues'[n] = Enqueued(queues[n], t, now)
      /\ \A m \in Node : m # n => queues'[m] = queues[m]
      /\ queues' = [m \in Node |-> queues'[m]]
  BY DEF IInv, TypeOK, Enqueue
<1>3. /\ Placed(queues'[n])
      /\ Cardinality(queues'[n]) <= DepthLimit
  <2>1. /\ DepthLimit \in Nat /\ DepthLimit >= 1 /\ DepthLimit >= MaxDepth
        /\ MaxDepth \in Nat
        /\ MaxDepth >= 1 => DepthLimit = MaxDepth
    BY QueueAssumption DEF DepthLimit
  <2>2. Cardinality(queues[n]) <= DepthLimit
    BY DEF IInv, DepthBounded
  <2>3. /\ Placed(Enqueued(queues[n], t, now))
        /\ Cardinality(Enqueued(queues[n], t, now)) <= DepthLimit
    BY <1>1, <2>1, <2>2, EnqueuedDepth
  <2> QED BY <1>2, <2>3
<1>4. PICK e \in Entry : /\ e.at = now
                         /\ queues'[n] = (queues[n] \ Evicted(queues[n])) \union {e}
                         /\ \A f \in queues[n] \ Evicted(queues[n]) : f.slot < e.slot
  <2>1. Placed(queues[n] \ Evicted(queues[n]))
    BY <1>1, SubqueuePlaced
  <2> QED BY <1>1, <1>2, <2>1, PushBackPlaced DEF Enqueued
<1>5. TypeOK'
  <2>1. \A f \in queues'[n] : f.at <= now'
    BY <1>1, <1>4 DEF IInv, TypeOK
  <2>2. called' \in Call
    BY DEF Enqueue, Call
  <2> QED BY <1>1, <1>2, <1>3, <2>1, <2>2 DEF IInv, TypeOK, Placed
<1>6. DepthBounded'
  BY <1>2, <1>3 DEF IInv, DepthBounded, DepthLimit
<1>7. ArrivalOrder'
  <2>1. ASSUME NEW f \in queues'[n], NEW g \in queues'[n]
        PROVE  f.slot < g.slot => f.at <= g.at
    <3>1. \A h \in queues[n] : h \in Entry /\ h.at <= now
      BY DEF IInv, TypeOK
    <3>2. CASE g = e
      BY <1>1, <1>4, <3>1, <3>2 DEF Entry
    <3>3. CASE g # e /\ f = e
      BY <1>4, <3>1, <3>3 DEF Entry
    <3>4. CASE g # e /\ f # e
      BY <1>4, <3>4 DEF IInv, ArrivalOrder
    <3> QED BY <3>2, <3>3, <3>4
  <2>2. \A f, g \in queues'[n] : f.slot = g.slot => f = g
    BY <1>3 DEF Placed
  <2> QED BY <1>2, <2>1, <2>2 DEF IInv, ArrivalOrder
<1> QED BY <1>5, <1>6, <1>7 DEF IInv

LEMMA NextInv == IInv /\ [Next]_vars => IInv'
<1> SUFFICES ASSUME IInv, [Next]_vars PROVE IInv'
  OBVIOUS
<1>1. ASSUME NEW n \in Node, NEW t \in Task, Enqueue(n, t)
      PROVE  IInv'
  BY <1>1, EnqueueInv
<1>2. ASSUME NEW n \in Node, NEW t \in Task, Ack(n, t)
      PROVE  IInv'
  <2>1. /\ queues' = [m \in Node |-> queues'[m]]
        /\ \A m \in Node : queues'[m] \subseteq queues[m]
    BY <1>2 DEF Ack, Acked, IInv, TypeOK
  <2> QED BY <1>2, <2>1, RemovalInv DEF Ack, Call
<1>3. CASE DrainExpired
  <2>1. /\ queues' = [m \in Node |-> queues'[m]]
        /\ \A m \in Node : queues'[m] \subseteq queues[m]
    BY <1>3 DEF DrainExpired, Drained
  <2> QED BY <1>3, <2>1, RemovalInv DEF DrainExpired, Call
<1>4. CASE Tick
  <2>1. queues' = queues /\ now \in Nat /\ now' = now + 1
    BY <1>4 DEF Tick, IInv, TypeOK
  <2>2. TypeOK'
    BY <1>4, <2>1 DEF Tick, IInv, TypeOK, Entry, Call, NoCall
  <2> QED BY <2>1, <2>2 DEF IInv, DepthBounded, DepthLimit, ArrivalOrder
<1>5. CASE UNCHANGED vars
  BY <1>5 DEF vars, IInv, TypeOK, DepthBounded, DepthLimit, ArrivalOrder
<1> QED BY <1>1, <1>2, <1>3, <1>4, <1>5 DEF Next

\* Type correctness of the task queue (task_queue.rs:35-39).
THEOREM TypeCorrect == Spec => []TypeOK
<1>1. IInv => TypeOK
  BY DEF IInv
<1> QED BY InitInv, NextInv, <1>1, PTL DEF Spec

\* No sequence of calls makes a queue longer than the configured depth, one
\* task for a depth of zero (task_queue.rs:56-82).
THEOREM Bounded == Spec => []DepthBounded
<1>1. IInv => DepthBounded
  BY DEF IInv
<1> QED BY InitInv, NextInv, <1>1, PTL DEF Spec

\* Expired tasks always stand in front of live ones, so eviction and expiry
\* take a queue from the same end (task_queue.rs:56-82, 100-120).
THEOREM ExpiredInFront == Spec => []ExpiredFirst
<1>1. IInv => ExpiredFirst
  <2> SUFFICES ASSUME IInv, NEW n \in Node, NEW e \in queues[n], NEW f \in queues[n],
                      e.slot <= f.slot, now > f.at + Ttl
               PROVE  now > e.at + Ttl
    BY DEF ExpiredFirst, Expired
  <2>1. e \in Entry /\ f \in Entry /\ now \in Nat /\ Ttl \in Nat
    BY QueueAssumption DEF IInv, TypeOK
  <2>2. e.at <= f.at
    BY <2>1 DEF IInv, ArrivalOrder, Entry
  <2> QED BY <2>1, <2>2 DEF Entry
<1> QED BY InitInv, NextInv, <1>1, PTL DEF Spec

-----------------------------------------------------------------------------

\* What an enqueue takes from its node's queue, and that it leaves the others.
LEMMA EnqueueEffect ==
  ASSUME IInv, NEW n \in Node, NEW t \in Task, Enqueue(n, t)
  PROVE  /\ \A m \in Node : m # n => queues'[m] = queues[m]
         /\ queues[n] \ queues'[n] \subseteq Evicted(queues[n])
<1>1. Placed(queues[n]) /\ now \in Nat
  BY QueuesArePlaced DEF IInv, TypeOK
<1>2. /\ queues'[n] = Enqueued(queues[n], t, now)
      /\ \A m \in Node : m # n => queues'[m] = queues[m]
  BY DEF IInv, TypeOK, Enqueue
<1>3. Placed(queues[n] \ Evicted(queues[n]))
  BY <1>1, SubqueuePlaced
<1>4. QED
  BY <1>1, <1>2, <1>3, PushBackPlaced DEF Enqueued

LEMMA LossStep == IInv /\ [Next]_vars => [LossIsExplained]_vars
<1> SUFFICES ASSUME IInv, [Next]_vars, NEW n \in Node, NEW e \in queues[n] \ queues'[n]
             PROVE  \/ called' = [method |-> "ack", node |-> n, task |-> e.task]
                    \/ /\ \E t \in Task :
                            called' = [method |-> "enqueue", node |-> n, task |-> t]
                       /\ Cardinality(queues[n]) >= MaxDepth
                       /\ \A f \in queues[n] : e.slot <= f.slot
                    \/ /\ called' = [method |-> "drain_expired"]
                       /\ now > e.at + Ttl
  BY DEF LossIsExplained
<1>1. ASSUME NEW m \in Node, NEW t \in Task, Enqueue(m, t)
      PROVE  /\ called' = [method |-> "enqueue", node |-> n, task |-> t]
             /\ Cardinality(queues[n]) >= MaxDepth
             /\ \A f \in queues[n] : e.slot <= f.slot
  <2>1. m = n /\ e \in Evicted(queues[n])
    BY <1>1, EnqueueEffect
  <2>2. Placed(queues[n]) /\ queues[n] # {}
    BY QueuesArePlaced
  <2>3. e = Oldest(queues[n]) /\ Cardinality(queues[n]) >= MaxDepth
    BY <2>1 DEF Evicted
  <2>4. \A f \in queues[n] : e.slot <= f.slot
    BY <2>2, <2>3, OldestExists
  <2> QED BY <1>1, <2>1, <2>3, <2>4 DEF Enqueue
<1>2. ASSUME NEW m \in Node, NEW t \in Task, Ack(m, t)
      PROVE  called' = [method |-> "ack", node |-> n, task |-> e.task]
  <2>1. m = n /\ e.task = t
    BY <1>2 DEF Ack, Acked, IInv, TypeOK
  <2> QED BY <1>2, <2>1 DEF Ack
<1>3. CASE DrainExpired
  BY <1>3 DEF DrainExpired, Drained, Expired
<1>4. CASE Tick \/ UNCHANGED vars
  BY <1>4 DEF Tick, vars
<1> QED BY <1>1, <1>2, <1>3, <1>4 DEF Next

\* A task leaves a queue by its own node's acknowledgement of that very task,
\* as the oldest of a full queue that is given another, or by the drain once
\* its TTL has passed; nothing else takes it (task_queue.rs:56-120).
THEOREM NoUnexplainedLoss == Spec => LossProperty
BY InitInv, NextInv, LossStep, PTL DEF Spec, LossProperty

=============================================================================
