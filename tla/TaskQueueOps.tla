----------------------------- MODULE TaskQueueOps -----------------------------
(***************************************************************************)
(* The operations of the per-node DIL task queue                           *)
(* (peat-sapient/src/task_queue.rs), as operators on one node's queue.     *)
(*                                                                         *)
(* A VecDeque<QueuedTask> is the set of its entries; "slot" is the place   *)
(* of an entry in the deque, so the front is the least slot, push_back     *)
(* takes a slot above every other, and retain is a set comprehension.      *)
(* The message itself and the log lines are left out: nothing depends on   *)
(* them.                                                                   *)
(***************************************************************************)
EXTENDS Naturals, FiniteSets

CONSTANTS
  Node,      \* SAPIENT node ids (DLMMs)
  Task,      \* task ids (ULIDs, transform/task.rs)
  MaxDepth,  \* BridgeConfig::task_queue_depth
  Ttl        \* BridgeConfig::task_ttl, in ticks of the clock

\* Nothing in the crate validates either number, so zero is a legal value.
ASSUME QueueAssumption == MaxDepth \in Nat /\ Ttl \in Nat

Entry == [task : Task, at : Nat, slot : Nat]

Oldest(q) == CHOOSE e \in q : \A f \in q : e.slot <= f.slot

Newest(q) == CHOOSE e \in q : \A f \in q : f.slot <= e.slot

TasksOf(q) == { e.task : e \in q }

\* Faults the checks must notice are defined just before what they replace.

\* push_front instead of push_back.
PushFront(q, t, time) ==
  { [e EXCEPT !.slot = @ + 1] : e \in q } \union { [task |-> t, at |-> time, slot |-> 0] }

PushBack(q, t, time) ==
  LET slot == IF q = {} THEN 0 ELSE Newest(q).slot + 1
  IN  q \union { [task |-> t, at |-> time, slot |-> slot] }

\* The depth is never looked at.
EvictNothing(q) == {}

\* The entry enqueue pops from the front of a queue that is full: none when
\* the queue is empty, even if it is "full" because MaxDepth is zero.
Evicted(q) == IF q # {} /\ Cardinality(q) >= MaxDepth THEN { Oldest(q) } ELSE {}

\* A queue taken for full, one task early, refuses the new task.
RefuseNewest(q, t, time) ==
  IF Cardinality(q) + 1 >= MaxDepth THEN q ELSE PushBack(q, t, time)

Enqueued(q, t, time) == PushBack(q \ Evicted(q), t, time)

\* An acknowledgement covers everything queued before the task as well.
AckedUpTo(q, t) ==
  { e \in q : \A f \in q : f.task = t => f.slot < e.slot }

Acked(q, t) == { e \in q : e.task # t }

\* Older than the TTL, strictly.
Expired(q, time) == { e \in q : time > e.at + Ttl }

\* drain_expired sweeps the queues of all the nodes ...
Drained(qs, time) == [n \in Node |-> qs[n] \ Expired(qs[n], time)]

\* The ids are collected before the age is tested; they are not returned.
AllTasks(qs, time) == UNION { TasksOf(qs[n]) : n \in Node }

\* ... and returns the ids it dropped.
DrainedTasks(qs, time) == UNION { TasksOf(Expired(qs[n], time)) : n \in Node }

=============================================================================
