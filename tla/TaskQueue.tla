------------------------------ MODULE TaskQueue ------------------------------
(***************************************************************************)
(* TaskQueue of peat-sapient/src/task_queue.rs as a state machine: every   *)
(* method that changes a queue is an action, called in any order and at    *)
(* any time by its owner. Bridge.tla composes the same operators with the  *)
(* connections that call them.                                             *)
(***************************************************************************)
EXTENDS TaskQueueOps

CONSTANTS
  MaxNow,    \* bound of the clock, for TLC
  MaxSlot    \* bound of the slots in use, for TLC

VARIABLES
  queues,    \* TaskQueue::queues
  now,       \* tokio's Instant::now()
  called     \* history: the method called in the last step, with its arguments

vars == << queues, now, called >>

\* No method was called: the clock moved, or nothing has happened yet.
NoCall == [method |-> "none"]

Init ==
  /\ queues = [n \in Node |-> {}]
  /\ now = 0
  /\ called = NoCall

\* Task ids are ULIDs, fresh for every task (transform/task.rs): the id is in
\* no queue when it is enqueued.
Enqueue(n, t) ==
  /\ \A m \in Node : t \notin TasksOf(queues[m])
  /\ \A e \in queues[n] : e.slot < MaxSlot
  /\ queues' = [queues EXCEPT ![n] = Enqueued(@, t, now)]
  /\ called' = [method |-> "enqueue", node |-> n, task |-> t]
  /\ UNCHANGED now

Ack(n, t) ==
  /\ queues' = [queues EXCEPT ![n] = Acked(@, t)]
  /\ called' = [method |-> "ack", node |-> n, task |-> t]
  /\ UNCHANGED now

DrainExpired ==
  /\ queues' = Drained(queues, now)
  /\ called' = [method |-> "drain_expired"]
  /\ UNCHANGED now

Tick ==
  /\ now < MaxNow
  /\ now' = now + 1
  /\ called' = NoCall
  /\ UNCHANGED queues

Next ==
  \/ \E n \in Node, t \in Task : Enqueue(n, t)
  \/ \E n \in Node, t \in Task : Ack(n, t)
  \/ DrainExpired
  \/ Tick

Spec == Init /\ [][Next]_vars

-----------------------------------------------------------------------------

\* The calls of the methods that change a queue.
Call == [method : {"enqueue", "ack"}, node : Node, task : Task]
          \union [method : {"drain_expired", "none"}]

\* Every variable has its type; a queue is finite, and no task was enqueued
\* in the future.
TypeOK ==
  /\ now \in Nat
  /\ called \in Call
  /\ queues \in [Node -> SUBSET Entry]
  /\ \A n \in Node : /\ IsFiniteSet(queues[n])
                     /\ \A e \in queues[n] : e.at <= now

\* The depth the code enforces: it pushes the new task whatever the depth, so
\* a configured depth of zero holds one task (task_queue.rs:63-80).
DepthLimit == IF MaxDepth = 0 THEN 1 ELSE MaxDepth

\* A queue never grows past the depth the code enforces: enqueue makes room
\* before it pushes.
DepthBounded == \A n \in Node : Cardinality(queues[n]) <= DepthLimit

\* The place of a task in its queue follows the instant it was enqueued, and
\* no two tasks share a place: the inductive fact behind ExpiredFirst.
ArrivalOrder ==
  \A n \in Node :
    /\ \A e, f \in queues[n] : e.slot < f.slot => e.at <= f.at
    /\ \A e, f \in queues[n] : e.slot = f.slot => e = f

\* A live task never stands in the queue in front of an expired one: what
\* enqueue evicts from a queue that was not drained is expired whenever
\* anything in it is, and what a drain leaves is the tail of the queue, so
\* replay order is insertion order (task_queue.rs:56-82, 100-120).
ExpiredFirst ==
  \A n \in Node :
    \A e, f \in queues[n] :
      (e.slot <= f.slot /\ f \in Expired(queues[n], now))
         => e \in Expired(queues[n], now)

\* A task leaves a queue for one of three reasons and no other
\* (task_queue.rs:56-120): the call is the acknowledgement of that very task
\* by that node; or it is an enqueue for that node, the queue is full and no
\* task of it came earlier; or it is drain_expired and more than the TTL has
\* passed since the task was enqueued. The clock alone takes nothing, and no
\* call for one node touches the queue of another.
LossIsExplained ==
  \A n \in Node : \A e \in queues[n] \ queues'[n] :
    \/ called' = [method |-> "ack", node |-> n, task |-> e.task]
    \/ /\ \E t \in Task : called' = [method |-> "enqueue", node |-> n, task |-> t]
       /\ Cardinality(queues[n]) >= MaxDepth
       /\ \A f \in queues[n] : e.slot <= f.slot
    \/ /\ called' = [method |-> "drain_expired"]
       /\ now > e.at + Ttl
LossProperty == [][LossIsExplained]_vars

=============================================================================
