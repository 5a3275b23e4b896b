----------------------------- MODULE TaskDelivery -----------------------------
(***************************************************************************)
(* What the bridge promises of a task it was asked to send, whatever the   *)
(* connections do (the documentation of send_task, bridge.rs:236-250, and  *)
(* of TaskQueue, task_queue.rs:1-8): from the moment it is pending it is   *)
(* the DLMM's to receive, as often as the bridge sends it, until exactly   *)
(* one of three things settles it: an acknowledgement from a DLMM that has *)
(* received it, the end of its time, or a newer task that needs its place  *)
(* in a full queue. Nothing else ends a task, and nothing revives it.      *)
(***************************************************************************)
EXTENDS Naturals, FiniteSets

CONSTANTS
  Task,
  Target,     \* the DLMM each task is for
  Depth       \* how many tasks may be pending for one DLMM

VARIABLES
  fate,       \* what has become of each task
  delivered   \* the tasks some DLMM has received

deliveryVars == << fate, delivered >>

Fate == {"new", "pending", "acked", "expired", "evicted"}

Pending(n) == { t \in Task : fate[t] = "pending" /\ Target[t] = n }

DeliveryInit ==
  /\ fate = [t \in Task |-> "new"]
  /\ delivered = {}

Become(tasks, f) == [t \in Task |-> IF t \in tasks THEN f ELSE fate[t]]

\* A task is accepted for delivery. Tasks whose time is over go at the same
\* time, and then the oldest one for this DLMM if there is still no room.
Accept(t, old, victim) ==
  /\ fate[t] = "new"
  /\ \A u \in old \union victim : fate[u] = "pending"
  /\ old \intersect victim = {}
  /\ victim # {} => /\ Cardinality(victim) = 1
                    /\ victim \subseteq Pending(Target[t])
                    /\ Cardinality(Pending(Target[t]) \ old) >= Depth
  /\ fate' = [u \in Task |-> IF u = t THEN "pending"
                             ELSE IF u \in old THEN "expired"
                             ELSE IF u \in victim THEN "evicted"
                             ELSE fate[u]]
  /\ UNCHANGED delivered

\* A copy of the task reaches its DLMM: the task may be settled by then.
Receive(t) ==
  /\ fate[t] # "new"
  /\ delivered' = delivered \union {t}
  /\ UNCHANGED fate

Acknowledge(t) ==
  /\ fate[t] = "pending" /\ t \in delivered
  /\ fate' = Become({t}, "acked")
  /\ UNCHANGED delivered

Expire(old) ==
  /\ \A t \in old : fate[t] = "pending"
  /\ fate' = Become(old, "expired")
  /\ UNCHANGED delivered

DeliveryNext ==
  \/ \E t \in Task : Receive(t) \/ Acknowledge(t)
  \/ \E old \in SUBSET Task : Expire(old)
  \/ \E t \in Task, old, victim \in SUBSET Task : Accept(t, old, victim)

DeliverySpec == DeliveryInit /\ [][DeliveryNext]_deliveryVars

=============================================================================
