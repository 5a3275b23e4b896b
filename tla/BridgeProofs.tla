---------------------------- MODULE BridgeProofs ----------------------------
(***************************************************************************)
(* Theorems about Bridge: the type invariant, the invariants that relate   *)
(* the task queue, the connections map and task_commands, and that Bridge  *)
(* implements TaskDelivery.                                                *)
(*                                                                         *)
(* One inductive invariant, BridgeInv, carries all of them. Its parts are  *)
(* shown to be preserved one by one, each from the whole of BridgeInv; the *)
(* lemmas named ...Steps say which actions touch a group of variables, so  *)
(* that a part's proof has a step only for the actions that can disturb    *)
(* it.                                                                     *)
(***************************************************************************)
EXTENDS Bridge, TaskQueueLemmas, SequenceTheorems

-----------------------------------------------------------------------------
(***************************************************************************)
(* The inductive invariant.                                                *)
(***************************************************************************)

\* The task has been put into its node's queue, now or earlier.
Accepted(t) == life[t] \notin {"new", "sending"}

\* The queue of a node holds, each once, exactly the tasks for that node that
\* were put in and not yet acknowledged, expired or evicted.
QueueInv ==
  /\ \A n \in Node :
       /\ Placed(queues[n])
       /\ \A e \in queues[n] : Target[e.task] = n /\ life[e.task] = "queued"
       /\ \A e, f \in queues[n] : e.task = f.task => e = f
  /\ \A t \in Task : life[t] = "queued" => t \in TasksOf(queues[Target[t]])

\* A caller on its way through send_task carries a task in the state its own
\* place says; one that waits for room holds the connections mutex, so that
\* the entry it looked up is still there.
CallerFits(p) ==
  /\ caller[p] = "enqueue" => /\ \E t \in Task : message[p] = TaskMessage(t)
                              /\ life[message[p].task] = "sending"
  /\ caller[p] \in {"deliver", "blocked"} =>
       \/ \E t \in Task : message[p] = TaskMessage(t) /\ Accepted(t)
       \/ \E n \in Node : message[p] = AlertAck(n)
  /\ caller[p] = "blocked" => connections[message[p].to] # NoConn
  /\ caller[p] = "blocked" <=> p \in holder

\* No two callers carry a task into the queue, and one at most holds the mutex.
CallerInv ==
  /\ \A p \in Caller : CallerFits(p)
  /\ \A p, q \in Caller :
       caller[p] = "enqueue" /\ caller[q] = "enqueue" /\ message[p].task = message[q].task
         => p = q
  /\ \A p, q \in holder : p = q

\* What run_connection has in its hands at each place: between the
\* Registration and the clean up the connection is registered, what it still
\* has to replay was in its node's queue, and an acknowledgement it correlates
\* is for a task that has left the queue for good.
SessionFits(c) ==
  /\ session[c] \in {"acknowledge", "snapshot", "replay", "unroute", "unregister"}
       => registered[c]
  /\ Placed(pending[c])
  /\ \A e \in pending[c] : Accepted(e.task) /\ Target[e.task] = Owner[c]
  /\ session[c] = "correlate" =>
       \E t \in Task, s \in AckStatus :
         /\ update[c] = TaskAcknowledged(Owner[c], t, s, FALSE)
         /\ life[t] \in {"acked", "expired", "evicted"}
  /\ session[c] = "emit" => update[c] \in Update
  /\ session[c] \notin {"correlate", "emit"} => update[c] = NoUpdate

SessionInv == \A c \in Conn : SessionFits(c)

\* A task waits in the channel of a connection only if it is for the DLMM at
\* the other end and was in its queue.
Sendable(c) ==
  { m \in Message : m.kind = "Task" => Accepted(m.task) /\ Target[m.task] = Owner[c] }

DeliveredInv ==
  /\ \A t \in got : Accepted(t)
  /\ \A c \in Conn :
       /\ heard[c] \subseteq { t \in got : Target[t] = Owner[c] }
       /\ channel[c] \in Seq(Sendable(c))

\* A task that carries a command is not forgotten before it is settled.
CommandInv ==
  /\ CommandGoesWithTask
  /\ \A t \in Commanded : life[t] \in {"sending", "queued"} => t \in commands

BridgeInv ==
  /\ TypeOK
  /\ QueueInv
  /\ CallerInv
  /\ SessionInv
  /\ DeliveredInv
  /\ CommandInv
  /\ NoDanglingConnection
  /\ QueuedTaskIsOffered

-----------------------------------------------------------------------------
(***************************************************************************)
(* Which actions touch what.                                               *)
(***************************************************************************)

\* Only four actions change a queue or the life of a task.
LEMMA QueueSteps ==
  ASSUME [Next]_vars
  PROVE  \/ \E c \in Conn : Snapshot(c)
         \/ \E c \in Conn, t \in Task, s \in AckStatus : ReadTaskAck(c, t, s)
         \/ \E p \in Caller, t \in Task : SendTask(p, t)
         \/ \E p \in Caller : Enqueue(p)
         \/ UNCHANGED << queues, life >>
BY ZenonT(60) DEF Next, vars, queueVars, clockVars, callerVars, sharedVars, SessionStep, ReadStep,
       WireStep, CallerStep,
       SendRegistrationAck, Replay, FinishRegistration, Correlate, Emit, Unroute,
       Unregister, Farewell, Register, Report, EndOfStream, Dial, Write, WriteError,
       Close, Lose, Deliver, Unblock, SendAlertAck, Consume, Tick

\* Only a registration and a clean up change the connections map.
LEMMA ConnectionsSteps ==
  ASSUME [Next]_vars
  PROVE  \/ \E c \in Conn : Register(c) \/ Unroute(c)
         \/ UNCHANGED connections
BY ZenonT(60) DEF Next, vars, queueVars, clockVars, callerVars, sharedVars, SessionStep, ReadStep,
       WireStep, CallerStep,
       SendRegistrationAck, Snapshot, Replay, FinishRegistration, Correlate, Emit,
       Unregister, Farewell, Report, ReadTaskAck, EndOfStream, Dial, Write, WriteError,
       Close, Lose, SendTask, Enqueue, Deliver, Unblock, SendAlertAck, Consume, Tick

\* Only the callers change where a caller stands.
LEMMA CallerSteps ==
  ASSUME [Next]_vars
  PROVE  \/ \E p \in Caller : CallerStep(p)
         \/ UNCHANGED callerVars
BY ZenonT(60) DEF Next, vars, queueVars, clockVars, callerVars, sharedVars, SessionStep, ReadStep,
       WireStep,
       SendRegistrationAck, Snapshot, Replay, FinishRegistration, Correlate, Emit, Unroute,
       Unregister, Farewell, Register, Report, ReadTaskAck, EndOfStream, Dial, Write,
       WriteError, Close, Lose, Consume, Tick

\* The fields of the messages.
LEMMA TaskMessageFields ==
  ASSUME NEW t \in Task
  PROVE  /\ TaskMessage(t).kind = "Task" /\ TaskMessage(t).task = t
         /\ TaskMessage(t).to = Target[t] /\ Target[t] \in Node
BY BridgeAssumption DEF TaskMessage

LEMMA AckFields ==
  ASSUME NEW n \in Node
  PROVE  /\ AlertAck(n).kind = "AlertAck" /\ RegistrationAck(n).kind = "RegistrationAck"
         /\ AlertAck(n).task = NoTask /\ RegistrationAck(n).task = NoTask
         /\ AlertAck(n).to = n
BY DEF AlertAck, RegistrationAck

LEMMA UpdateTyped ==
  ASSUME NEW n \in Node, NEW t \in Task, NEW s \in AckStatus, NEW b \in BOOLEAN
  PROVE  TaskAcknowledged(n, t, s, b) \in Update
BY DEF Update

\* The task a caller carries.
LEMMA CarriedTask ==
  ASSUME NEW p \in Caller, CallerFits(p), caller[p] = "enqueue"
  PROVE  \E t \in Task : message[p] = TaskMessage(t) /\ message[p].task = t
                         /\ message[p].to = Target[t] /\ Target[t] \in Node
BY TaskMessageFields DEF CallerFits

-----------------------------------------------------------------------------
(***************************************************************************)
(* What the queue operations do to the queues of all nodes.                *)
(***************************************************************************)

\* drain_expired: the entries that stay are those whose tasks it does not
\* return, and it returns none but queued tasks.
LEMMA DrainEffect ==
  ASSUME TypeOK, QueueInv
  PROVE  /\ \A n \in Node : /\ Drained(queues, now)[n] \subseteq queues[n]
                            /\ Placed(Drained(queues, now)[n])
         /\ \A n \in Node : \A e \in queues[n] :
              e \in Drained(queues, now)[n] <=> e.task \notin DrainedTasks(queues, now)
         /\ \A t \in DrainedTasks(queues, now) : t \in Task /\ life[t] = "queued"
<1>1. \A n \in Node : Drained(queues, now)[n] \subseteq queues[n]
  BY DEF Drained
<1>2. \A n \in Node : Placed(Drained(queues, now)[n])
  BY <1>1, SubqueuePlaced DEF QueueInv
<1>3. ASSUME NEW t \in DrainedTasks(queues, now)
      PROVE  t \in Task /\ life[t] = "queued"
  BY <1>3 DEF DrainedTasks, TasksOf, Expired, QueueInv, Placed, Entry
<1>4. ASSUME NEW n \in Node, NEW e \in queues[n]
      PROVE  e \in Drained(queues, now)[n] <=> e.task \notin DrainedTasks(queues, now)
  <2>1. ASSUME e.task \in DrainedTasks(queues, now)
        PROVE  e \in Expired(queues[n], now)
    <3>1. PICK m \in Node : \E f \in queues[m] : f.task = e.task /\ f \in Expired(queues[m], now)
      BY <2>1 DEF DrainedTasks, TasksOf, Expired
    <3>2. m = n
      BY <3>1 DEF QueueInv
    <3> QED BY <3>1, <3>2 DEF QueueInv
  <2>2. ASSUME e \in Expired(queues[n], now)
        PROVE  e.task \in DrainedTasks(queues, now)
    BY <2>2 DEF DrainedTasks, TasksOf
  <2> QED BY <2>1, <2>2 DEF Drained
<1> QED BY <1>1, <1>2, <1>3, <1>4

\* What pop_front makes room with is an entry of the queue.
LEMMA EvictedInQueue ==
  ASSUME NEW q, Placed(q)
  PROVE  Evicted(q) \subseteq q
BY OldestExists DEF Evicted

\* send_task's critical section puts t in as entry: the queues lose the entries
\* whose tasks have expired or are evicted, and the task's node gains one.
PutIn(t, entry, evicted) ==
  LET gone == DrainedTasks(queues, now) \union evicted
  IN  /\ life[t] = "sending" /\ entry.task = t
      /\ evicted = TasksOf(Evicted(Drained(queues, now)[Target[t]]))
      /\ evicted \intersect DrainedTasks(queues, now) = {}
      /\ \A u \in evicted : life[u] = "queued" /\ Target[u] = Target[t]
      /\ commands' = commands \ gone
      /\ life' = [u \in Task |-> IF u = t THEN "queued"
                                 ELSE IF u \in DrainedTasks(queues, now) THEN "expired"
                                 ELSE IF u \in evicted THEN "evicted"
                                 ELSE life[u]]
      /\ queues' \in [Node -> SUBSET Entry]
      /\ \A n \in Node : Placed(queues'[n])
      /\ \A n \in Node : \A e :
           e \in queues'[n] <=>
             \/ e = entry /\ n = Target[t]
             \/ e \in queues[n] /\ e.task \notin gone

LEMMA EnqueueEffect ==
  ASSUME TypeOK, QueueInv, CallerInv, NEW p \in Caller, Enqueue(p)
  PROVE  \E t \in Task, entry \in Entry, evicted \in SUBSET Task :
           message[p] = TaskMessage(t) /\ PutIn(t, entry, evicted)
<1>1. PICK t \in Task : message[p] = TaskMessage(t) /\ life[t] = "sending"
  BY TaskMessageFields DEF CallerInv, CallerFits, Enqueue
<1>2. message[p].task = t /\ message[p].to = Target[t] /\ Target[t] \in Node
  BY <1>1, BridgeAssumption DEF TaskMessage
<1> DEFINE drained == Drained(queues, now)
           expired == DrainedTasks(queues, now)
           q == drained[Target[t]]
           r == q \ Evicted(q)
           evicted == TasksOf(Evicted(q))
<1>3. /\ q \subseteq queues[Target[t]] /\ Placed(q)
      /\ \A n \in Node : Placed(drained[n]) /\ drained[n] \subseteq queues[n]
      /\ \A n \in Node : \A e \in queues[n] : e \in drained[n] <=> e.task \notin expired
      /\ \A u \in expired : u \in Task /\ life[u] = "queued"
  BY <1>2, DrainEffect
<1>4. now \in Nat
  BY DEF TypeOK
<1>5. Evicted(q) \subseteq q
  BY <1>3, EvictedInQueue
<1>6. PICK entry \in Entry : /\ entry.task = t
                             /\ PushBack(r, t, now) = r \union {entry}
                             /\ Placed(PushBack(r, t, now))
  <2>1. Placed(r)
    BY <1>3, SubqueuePlaced
  <2> QED BY <1>4, <2>1, PushBackPlaced
<1>7. drained \in [Node -> SUBSET Entry]
  BY <1>3 DEF Drained, Placed
<1>8. /\ queues' = [drained EXCEPT ![Target[t]] = r \union {entry}]
      /\ commands' = commands \ (expired \union evicted)
      /\ life' = [u \in Task |-> IF u = t THEN "queued"
                                 ELSE IF u \in expired THEN "expired"
                                 ELSE IF u \in evicted THEN "evicted"
                                 ELSE life[u]]
  BY <1>2, <1>6 DEF Enqueue, Enqueued
<1>9. /\ evicted \in SUBSET Task
      /\ evicted \intersect expired = {}
      /\ \A u \in evicted : life[u] = "queued" /\ Target[u] = Target[t]
  <2>1. \A e \in Evicted(q) : /\ e \in queues[Target[t]] /\ e.task \in Task
                              /\ e.task \notin expired
    BY <1>2, <1>3, <1>5 DEF Placed, Entry
  <2> QED BY <1>2, <2>1 DEF TasksOf, QueueInv
<1>10. \A n \in Node : Placed(queues'[n])
  BY <1>3, <1>6, <1>7, <1>8
<1>11. ASSUME NEW n \in Node, NEW e
       PROVE  e \in queues'[n] <=>
                \/ e = entry /\ n = Target[t]
                \/ e \in queues[n] /\ e.task \notin expired \union evicted
  <2>1. CASE n # Target[t]
    <3>1. queues'[n] = drained[n]
      BY <1>7, <1>8, <2>1
    <3>2. ASSUME e \in queues[n] PROVE e.task \notin evicted
      BY <1>9, <2>1, <3>2 DEF QueueInv
    <3> QED BY <1>3, <2>1, <3>1, <3>2
  <2>2. CASE n = Target[t]
    <3>1. queues'[n] = r \union {entry}
      BY <1>7, <1>8, <2>2
    <3>2. ASSUME e \in q PROVE e \in Evicted(q) <=> e.task \in evicted
      <4>1. \A f \in q : f.task = e.task => f = e
        BY <1>2, <1>3, <3>2 DEF QueueInv
      <4> QED BY <1>5, <4>1, <3>2 DEF TasksOf
    <3> QED BY <1>2, <1>3, <2>2, <3>1, <3>2
  <2> QED BY <2>1, <2>2
<1>12. queues' \in [Node -> SUBSET Entry]
  BY <1>6, <1>7, <1>8, <1>10, <1>3 DEF Placed
<1> HIDE DEF drained, expired, q, r, evicted
<1>13. evicted \in SUBSET Task /\ evicted = TasksOf(Evicted(Drained(queues, now)[Target[t]]))
  BY <1>9 DEF evicted, q, drained
<1>14. PutIn(t, entry, evicted)
  BY <1>1, <1>6, <1>8, <1>9, <1>10, <1>11, <1>12, <1>13 DEF PutIn, expired
<1> QED BY <1>1, <1>6, <1>13, <1>14

\* An acknowledgement of a task this DLMM has received takes its entry out of
\* the queue, if it is still there.
LEMMA TaskAckEffect ==
  ASSUME TypeOK, QueueInv, DeliveredInv,
         NEW c \in Conn, NEW t \in Task, NEW s \in AckStatus, ReadTaskAck(c, t, s)
  PROVE  /\ Target[t] = Owner[c] /\ Accepted(t)
         /\ queues' \in [Node -> SUBSET Entry]
         /\ \A n \in Node : Placed(queues'[n])
         /\ \A n \in Node : \A e : e \in queues'[n] <=> e \in queues[n] /\ e.task # t
         /\ life' = [u \in Task |-> IF u = t /\ life[t] = "queued" THEN "acked" ELSE life[u]]
<1>1. t \in got /\ Target[t] = Owner[c] /\ Owner[c] \in Node /\ Accepted(t)
  BY BridgeAssumption DEF ReadTaskAck, DeliveredInv
<1>2. queues' = [queues EXCEPT ![Owner[c]] = Acked(queues[Owner[c]], t)]
  BY DEF ReadTaskAck
<1>3. ASSUME NEW n \in Node, NEW e
      PROVE  e \in queues'[n] <=> e \in queues[n] /\ e.task # t
  <2>1. CASE n = Owner[c]
    BY <1>1, <1>2, <2>1 DEF Acked, TypeOK
  <2>2. CASE n # Owner[c]
    BY <1>1, <1>2, <2>2 DEF QueueInv, TypeOK
  <2> QED BY <2>1, <2>2
<1>4. queues' \in [Node -> SUBSET Entry]
  BY <1>2 DEF Acked, TypeOK
<1>5. \A n \in Node : Placed(queues'[n])
  <2> SUFFICES ASSUME NEW n \in Node PROVE Placed(queues'[n])
    OBVIOUS
  <2>1. queues'[n] \in SUBSET queues[n] /\ Placed(queues[n])
    BY <1>3 DEF QueueInv
  <2> QED BY <2>1, SubqueuePlaced
<1>6. life' = [u \in Task |-> IF u = t /\ life[t] = "queued" THEN "acked" ELSE life[u]]
  <2>1. life[t] = "queued" <=> t \in TasksOf(queues[Owner[c]])
    BY <1>1 DEF QueueInv, TasksOf
  <2> QED BY <2>1 DEF ReadTaskAck, Settle
<1> QED BY <1>1, <1>3, <1>4, <1>5, <1>6

\* The life of a task only goes forward, and a settled task stays settled.
LEMMA LifeSteps ==
  ASSUME BridgeInv, [Next]_vars
  PROVE  /\ life' \in [Task -> {"new", "sending", "queued", "acked", "expired", "evicted"}]
         /\ \A t \in Task :
              \/ life'[t] = life[t]
              \/ life[t] = "new" /\ life'[t] = "sending"
              \/ /\ life[t] = "sending" /\ life'[t] = "queued"
                 /\ \E p \in Caller : Enqueue(p)
              \/ life[t] = "queued" /\ life'[t] \in {"acked", "expired", "evicted"}
<1>0. /\ TypeOK /\ QueueInv /\ CallerInv /\ DeliveredInv
      /\ life \in [Task -> {"new", "sending", "queued", "acked", "expired", "evicted"}]
  BY DEF BridgeInv, TypeOK
<1>1. ASSUME NEW c \in Conn, Snapshot(c)
      PROVE  /\ life' \in [Task -> {"new", "sending", "queued", "acked", "expired", "evicted"}]
             /\ \A t \in Task : \/ life'[t] = life[t]
                                \/ life[t] = "queued" /\ life'[t] = "expired"
  BY <1>0, <1>1, DrainEffect DEF Snapshot, Settle
<1>2. ASSUME NEW c \in Conn, NEW t \in Task, NEW s \in AckStatus, ReadTaskAck(c, t, s)
      PROVE  /\ life' \in [Task -> {"new", "sending", "queued", "acked", "expired", "evicted"}]
             /\ \A u \in Task : \/ life'[u] = life[u]
                                \/ life[u] = "queued" /\ life'[u] = "acked"
  BY <1>0, <1>2, TaskAckEffect
<1>3. ASSUME NEW p \in Caller, NEW t \in Task, SendTask(p, t)
      PROVE  /\ life' \in [Task -> {"new", "sending", "queued", "acked", "expired", "evicted"}]
             /\ \A u \in Task : \/ life'[u] = life[u]
                                \/ life[u] = "new" /\ life'[u] = "sending"
  BY <1>0, <1>3 DEF SendTask
<1>4. ASSUME NEW p \in Caller, Enqueue(p)
      PROVE  /\ life' \in [Task -> {"new", "sending", "queued", "acked", "expired", "evicted"}]
             /\ \A u \in Task : \/ life'[u] = life[u]
                                \/ life[u] = "sending" /\ life'[u] = "queued"
                                \/ life[u] = "queued" /\ life'[u] \in {"expired", "evicted"}
  BY <1>0, <1>4, EnqueueEffect, DrainEffect DEF PutIn
<1> QED BY <1>0, <1>1, <1>2, <1>3, <1>4, QueueSteps

\* So a task once accepted stays accepted, and one that is settled settled.
LEMMA AcceptedStays ==
  ASSUME BridgeInv, [Next]_vars, NEW t \in Task
  PROVE  /\ Accepted(t) => Accepted(t)'
         /\ life[t] \in {"acked", "expired", "evicted"} =>
              life'[t] \in {"acked", "expired", "evicted"}
BY LifeSteps DEF Accepted

-----------------------------------------------------------------------------
(***************************************************************************)
(* Each part of the invariant is preserved.                                *)
(***************************************************************************)

LEMMA QueueInvStep ==
  ASSUME BridgeInv, [Next]_vars
  PROVE  QueueInv'
<1>0. TypeOK /\ QueueInv /\ CallerInv /\ DeliveredInv /\ Target \in [Task -> Node]
  BY BridgeAssumption DEF BridgeInv
<1>1. ASSUME NEW c \in Conn, Snapshot(c)
      PROVE  QueueInv'
  <2>1. /\ queues' = Drained(queues, now)
        /\ life' = [t \in Task |-> IF t \in DrainedTasks(queues, now) THEN "expired"
                                   ELSE life[t]]
    BY <1>1 DEF Snapshot, Settle
  <2> QED BY <1>0, <2>1, DrainEffect DEF QueueInv, TasksOf, Placed, Entry
<1>2. ASSUME NEW c \in Conn, NEW t \in Task, NEW s \in AckStatus, ReadTaskAck(c, t, s)
      PROVE  QueueInv'
  BY <1>0, <1>2, TaskAckEffect DEF QueueInv, TasksOf, Placed, Entry
<1>3. ASSUME NEW p \in Caller, NEW t \in Task, SendTask(p, t)
      PROVE  QueueInv'
  <2>1. queues' = queues /\ life[t] = "new" /\ life' = [life EXCEPT ![t] = "sending"]
    BY <1>3 DEF SendTask
  <2> QED BY <1>0, <2>1 DEF QueueInv, TasksOf, TypeOK
<1>4. ASSUME NEW p \in Caller, Enqueue(p)
      PROVE  QueueInv'
  <2>1. PICK t \in Task, entry \in Entry, evicted \in SUBSET Task : PutIn(t, entry, evicted)
    BY <1>0, <1>4, EnqueueEffect
  <2>2. ASSUME NEW n \in Node, NEW e \in queues[n]
        PROVE  e.task \in Task /\ e.task # t
    BY <1>0, <2>1 DEF PutIn, QueueInv, Placed, Entry
  <2>3. ASSUME NEW n \in Node, NEW e \in queues'[n]
        PROVE  /\ Target[e.task] = n /\ life'[e.task] = "queued"
               /\ \A f \in queues'[n] : e.task = f.task => e = f
    BY <1>0, <2>1, <2>2 DEF PutIn, QueueInv
  <2>4. ASSUME NEW u \in Task, life'[u] = "queued"
        PROVE  u \in TasksOf(queues'[Target[u]])
    BY <1>0, <2>1, <2>4 DEF PutIn, QueueInv, TasksOf
  <2> QED BY <2>1, <2>3, <2>4 DEF PutIn, QueueInv
<1>5. CASE UNCHANGED << queues, life >>
  BY <1>0, <1>5 DEF QueueInv
<1> QED BY <1>1, <1>2, <1>3, <1>4, <1>5, QueueSteps

LEMMA CallerInvStep ==
  ASSUME BridgeInv, [Next]_vars
  PROVE  CallerInv'
<1>0. /\ CallerInv /\ QueueInv /\ TypeOK
      /\ caller \in [Caller -> {"idle", "enqueue", "deliver", "blocked"}]
      /\ message \in [Caller -> Message \union {NoMessage}]
      /\ holder \subseteq Caller
      /\ life \in [Task -> {"new", "sending", "queued", "acked", "expired", "evicted"}]
  BY DEF BridgeInv, TypeOK
<1>a. \A t \in Task : Accepted(t) => Accepted(t)'
  BY AcceptedStays
<1>b. \A p \in Caller : caller[p] = "enqueue" => message[p].task \in Task
  BY <1>0, CarriedTask DEF CallerInv
<1>1. ASSUME NEW p \in Caller, NEW t \in Task, SendTask(p, t)
      PROVE  CallerInv'
  <2>1. /\ life[t] = "new" /\ caller[p] = "idle"
        /\ life' = [life EXCEPT ![t] = "sending"]
        /\ caller' = [caller EXCEPT ![p] = "enqueue"]
        /\ message' = [message EXCEPT ![p] = TaskMessage(t)]
        /\ holder' = holder /\ connections' = connections
    BY <1>1 DEF SendTask, sharedVars
  <2>2. \A q \in Caller : q # p => caller'[q] = caller[q] /\ message'[q] = message[q]
    BY <1>0, <2>1
  <2>3. /\ caller'[p] = "enqueue" /\ message'[p] = TaskMessage(t) /\ message'[p].task = t
        /\ life'[t] = "sending"
    BY <1>0, <2>1, TaskMessageFields
  <2>4. CallerFits(p)'
    BY <1>0, <2>1, <2>3 DEF CallerFits, CallerInv
  <2>5. ASSUME NEW q \in Caller, q # p
        PROVE  /\ CallerFits(q)'
               /\ caller[q] = "enqueue" => message[q].task # t
    BY <1>0, <1>a, <1>b, <2>1, <2>2, <2>5 DEF CallerFits, CallerInv
  <2> QED BY <1>0, <2>1, <2>2, <2>3, <2>4, <2>5 DEF CallerInv
<1>2. ASSUME NEW p \in Caller, Enqueue(p)
      PROVE  CallerInv'
  <2>1. /\ caller[p] = "enqueue"
        /\ caller' = [caller EXCEPT ![p] = "deliver"]
        /\ message' = message /\ holder' = holder /\ connections' = connections
    BY <1>2 DEF Enqueue, sharedVars
  <2>2. PICK t \in Task, entry \in Entry, evicted \in SUBSET Task :
          message[p] = TaskMessage(t) /\ PutIn(t, entry, evicted)
    BY <1>0, <1>2, EnqueueEffect
  <2>3. message[p].task = t /\ caller'[p] = "deliver" /\ Accepted(t)'
    BY <1>0, <2>1, <2>2, TaskMessageFields DEF PutIn, Accepted
  <2>4. \A q \in Caller : q # p => caller'[q] = caller[q]
    BY <1>0, <2>1
  <2>5. ASSUME NEW u \in Task, life[u] = "sending", u # t
        PROVE  life'[u] = "sending"
    BY <1>0, <2>2, <2>5, DrainEffect DEF PutIn
  <2>6. CallerFits(p)'
    BY <1>0, <2>1, <2>2, <2>3 DEF CallerInv, CallerFits
  <2>7. ASSUME NEW q \in Caller, q # p
        PROVE  CallerFits(q)'
    <3>1. caller[q] = "enqueue" => message[q].task # t
      BY <1>0, <2>1, <2>3, <2>7 DEF CallerInv
    <3> QED BY <1>0, <1>a, <1>b, <2>1, <2>4, <2>5, <2>7, <3>1 DEF CallerInv, CallerFits
  <2> QED BY <1>0, <2>1, <2>3, <2>4, <2>6, <2>7 DEF CallerInv
<1>3. ASSUME NEW p \in Caller, Deliver(p)
      PROVE  CallerInv'
  <2>1. /\ caller[p] = "deliver" /\ holder = {}
        /\ life' = life /\ connections' = connections
        /\ \/ /\ caller' = [caller EXCEPT ![p] = "idle"]
              /\ message' = [message EXCEPT ![p] = NoMessage]
              /\ holder' = holder
           \/ /\ caller' = [caller EXCEPT ![p] = "blocked"]
              /\ message' = [message EXCEPT ![p] = message[p]]
              /\ holder' = {p}
              /\ connections[message[p].to] # NoConn
    BY <1>3 DEF Deliver, SendOrWait, queueVars, sharedVars
  <2>2. \/ \E t \in Task : message[p] = TaskMessage(t) /\ Accepted(t)
        \/ \E n \in Node : message[p] = AlertAck(n)
    BY <1>0, <2>1 DEF CallerInv, CallerFits
  <2>3. CallerFits(p)'
    BY <1>0, <1>a, <2>1, <2>2 DEF CallerFits
  <2>4. ASSUME NEW q \in Caller, q # p
        PROVE  CallerFits(q)' /\ caller'[q] = caller[q] /\ message'[q] = message[q]
    BY <1>0, <1>a, <1>b, <2>1, <2>4 DEF CallerFits, CallerInv
  <2> QED BY <1>0, <2>1, <2>3, <2>4 DEF CallerInv
<1>4. ASSUME NEW p \in Caller, NEW n \in Node, SendAlertAck(p, n)
      PROVE  CallerInv'
  <2>1. /\ caller[p] = "idle" /\ holder' = holder
        /\ life' = life /\ connections' = connections
        /\ caller' = [caller EXCEPT ![p] = "deliver"]
        /\ message' = [message EXCEPT ![p] = AlertAck(n)]
    BY <1>4 DEF SendAlertAck, queueVars, sharedVars
  <2>2. CallerFits(p)'
    BY <1>0, <2>1 DEF CallerInv, CallerFits
  <2>3. ASSUME NEW q \in Caller, q # p
        PROVE  CallerFits(q)' /\ caller'[q] = caller[q] /\ message'[q] = message[q]
    BY <1>0, <1>a, <1>b, <2>1, <2>3 DEF CallerFits, CallerInv
  <2> QED BY <1>0, <2>1, <2>2, <2>3 DEF CallerInv
<1>5. ASSUME NEW p \in Caller, Unblock(p)
      PROVE  CallerInv'
  <2>1. /\ caller[p] = "blocked" /\ holder' = {}
        /\ life' = life /\ connections' = connections
        /\ caller' = [caller EXCEPT ![p] = "idle"]
        /\ message' = [message EXCEPT ![p] = NoMessage]
    BY <1>5 DEF Unblock, queueVars, sharedVars
  <2>2. CallerFits(p)'
    BY <1>0, <2>1 DEF CallerFits
  <2>3. ASSUME NEW q \in Caller, q # p
        PROVE  CallerFits(q)' /\ caller'[q] = caller[q] /\ message'[q] = message[q]
    <3>1. caller[q] # "blocked"
      BY <1>0, <2>1, <2>3 DEF CallerInv, CallerFits
    <3> QED BY <1>0, <1>a, <1>b, <2>1, <2>3, <3>1 DEF CallerFits, CallerInv
  <2> QED BY <1>0, <2>1, <2>2, <2>3 DEF CallerInv
<1>6. CASE UNCHANGED callerVars
  <2>1. caller' = caller /\ message' = message /\ holder' = holder
    BY <1>6 DEF callerVars
  <2>2. ASSUME NEW p \in Caller PROVE ~Enqueue(p)
    <3>1. Enqueue(p) => caller[p] = "enqueue" /\ caller' = [caller EXCEPT ![p] = "deliver"]
      BY DEF Enqueue
    <3> QED BY <1>0, <2>1, <3>1
  <2>3. ASSUME NEW t \in Task, life[t] = "sending" PROVE life'[t] = "sending"
    BY <2>2, <2>3, LifeSteps
  <2>4. holder # {} => connections' = connections
    BY ConnectionsSteps DEF Register, Unroute
  <2>5. \A p \in Caller : CallerFits(p)'
    BY <1>0, <1>a, <1>b, <2>1, <2>3, <2>4 DEF CallerInv, CallerFits
  <2> QED BY <1>0, <2>1, <2>5 DEF CallerInv
<1> QED BY <1>1, <1>2, <1>3, <1>4, <1>5, <1>6, CallerSteps DEF CallerStep

\* run_connection alone moves its own session.
LEMMA SessionSteps ==
  ASSUME TypeOK, [Next]_vars, NEW c \in Conn
  PROVE  \/ Dial(c) \/ Register(c) \/ SendRegistrationAck(c) \/ Snapshot(c) \/ Replay(c)
         \/ FinishRegistration(c) \/ Report(c)
         \/ \E t \in Task, s \in AckStatus : ReadTaskAck(c, t, s)
         \/ Correlate(c) \/ Emit(c) \/ EndOfStream(c)
         \/ Unroute(c) \/ Unregister(c) \/ Farewell(c) \/ Close(c)
         \/ /\ session'[c] = session[c] /\ registered'[c] = registered[c]
            /\ pending'[c] = pending[c] /\ update'[c] = update[c]
<1>0. /\ session \in [Conn -> SessionState] /\ registered \in [Conn -> BOOLEAN]
      /\ pending \in [Conn -> SUBSET Entry] /\ update \in [Conn -> Update \union {NoUpdate}]
  BY DEF TypeOK
<1> DEFINE Kept == /\ session'[c] = session[c] /\ registered'[c] = registered[c]
                   /\ pending'[c] = pending[c] /\ update'[c] = update[c]
<1>1. ASSUME NEW d \in Conn, d # c,
             \/ SessionStep(d) \/ ReadStep(d) \/ WireStep(d)
      PROVE  Kept
  <2>1. ASSUME SessionStep(d) PROVE Kept
    BY <1>0, <1>1, <2>1 DEF SessionStep, SendRegistrationAck, Snapshot, Replay, FinishRegistration,
       Correlate, Emit, Unroute, Unregister, Farewell, Go
  <2>2. ASSUME ReadStep(d) PROVE Kept
    BY <1>0, <1>1, <2>2 DEF ReadStep, Register, Report, ReadTaskAck, EndOfStream, Go
  <2>3. ASSUME WireStep(d) PROVE Kept
    BY <1>0, <1>1, <2>3 DEF WireStep, Dial, Write, WriteError, Close, Lose, Go, sessionVars
  <2> QED BY <1>1, <2>1, <2>2, <2>3
<1>2. ASSUME \/ \E p \in Caller : CallerStep(p)
             \/ Consume \/ Tick \/ UNCHANGED vars
             \/ Write(c) \/ WriteError(c) \/ Lose(c)
      PROVE  Kept
  BY <1>2 DEF CallerStep, SendTask, Enqueue, Deliver, SendAlertAck, Unblock, Consume, Tick,
     vars, sessionVars, Write, WriteError, Lose
<1> HIDE DEF Kept
<1>3. \/ Dial(c) \/ Register(c) \/ SendRegistrationAck(c) \/ Snapshot(c) \/ Replay(c)
      \/ FinishRegistration(c) \/ Report(c)
      \/ \E t \in Task, s \in AckStatus : ReadTaskAck(c, t, s)
      \/ Correlate(c) \/ Emit(c) \/ EndOfStream(c)
      \/ Unroute(c) \/ Unregister(c) \/ Farewell(c) \/ Close(c)
      \/ Kept
  BY <1>1, <1>2 DEF Next, SessionStep, ReadStep, WireStep
<1> QED BY <1>3 DEF Kept

LEMMA SessionInvStep ==
  ASSUME BridgeInv, [Next]_vars
  PROVE  SessionInv'
<1> SUFFICES ASSUME NEW c \in Conn PROVE SessionFits(c)'
  BY DEF SessionInv
<1>0. /\ TypeOK /\ QueueInv /\ CallerInv /\ DeliveredInv /\ SessionFits(c)
      /\ Owner[c] \in Node
      /\ session \in [Conn -> SessionState] /\ registered \in [Conn -> BOOLEAN]
      /\ pending \in [Conn -> SUBSET Entry] /\ update \in [Conn -> Update \union {NoUpdate}]
  BY BridgeAssumption DEF BridgeInv, SessionInv, TypeOK
<1>a. /\ \A t \in Task : Accepted(t) => Accepted(t)'
      /\ \A t \in Task : life[t] \in {"acked", "expired", "evicted"}
                           => life'[t] \in {"acked", "expired", "evicted"}
  BY AcceptedStays
<1>b. \A e \in pending[c] : e.task \in Task
  BY <1>0 DEF Entry
<1>c. /\ Placed(pending[c])
      /\ \A e \in pending[c] : Accepted(e.task)' /\ Target[e.task] = Owner[c]
  BY <1>0, <1>a, <1>b DEF SessionFits
<1>1. ASSUME Snapshot(c) PROVE SessionFits(c)'
  <2>1. /\ session'[c] = "replay" /\ registered'[c] = registered[c] /\ session[c] = "snapshot"
        /\ update'[c] = update[c] /\ pending'[c] = queues'[Owner[c]]
    BY <1>0, <1>1 DEF Snapshot, Go
  <2>2. QueueInv'
    BY QueueInvStep
  <2>3. Placed(pending'[c])
    BY <1>0, <2>1, <2>2 DEF QueueInv
  <2>4. \A e \in pending'[c] : Accepted(e.task)' /\ Target[e.task] = Owner[c]
    BY <1>0, <2>1, <2>2 DEF QueueInv, Accepted
  <2> QED BY <1>0, <2>1, <2>3, <2>4 DEF SessionFits
<1>2. ASSUME Replay(c) PROVE SessionFits(c)'
  <2>1. /\ session'[c] = session[c] /\ registered'[c] = registered[c]
        /\ update'[c] = update[c] /\ pending'[c] \in SUBSET pending[c] /\ session[c] = "replay"
    BY <1>0, <1>2 DEF Replay
  <2>2. Placed(pending'[c])
    BY <1>c, <2>1, SubqueuePlaced
  <2> QED BY <1>0, <1>c, <2>1, <2>2 DEF SessionFits
<1>3. ASSUME NEW t \in Task, NEW s \in AckStatus, ReadTaskAck(c, t, s) PROVE SessionFits(c)'
  <2>1. /\ session'[c] = "correlate" /\ registered'[c] = registered[c]
        /\ pending'[c] = pending[c]
        /\ update'[c] = TaskAcknowledged(Owner[c], t, s, FALSE)
    BY <1>0, <1>3 DEF ReadTaskAck, Go
  <2>2. life'[t] \in {"acked", "expired", "evicted"}
    <3>1. /\ Accepted(t)
          /\ life' = [u \in Task |-> IF u = t /\ life[t] = "queued" THEN "acked" ELSE life[u]]
      BY <1>0, <1>3, TaskAckEffect
    <3>2. life[t] \in {"queued", "acked", "expired", "evicted"}
      BY <1>0, <3>1 DEF TypeOK, Accepted
    <3> QED BY <3>1, <3>2
  <2> QED BY <1>c, <2>1, <2>2 DEF SessionFits
<1>4. ASSUME Correlate(c) PROVE SessionFits(c)'
  <2>1. /\ session'[c] = "emit" /\ registered'[c] = registered[c] /\ pending'[c] = pending[c]
        /\ session[c] = "correlate"
    BY <1>0, <1>4 DEF Correlate, Go
  <2>2. update'[c] \in Update
    <3>1. PICK t \in Task, s \in AckStatus : update[c] = TaskAcknowledged(Owner[c], t, s, FALSE)
      BY <1>0, <1>4 DEF Correlate, Go, SessionFits
    <3>2. update[c].task = t /\ update[c].node = Owner[c] /\ update[c].status = s
      BY <3>1 DEF TaskAcknowledged
    <3>3. update'[c] = TaskAcknowledged(Owner[c], t, s, t \in commands)
      BY <1>0, <1>4, <3>2 DEF Correlate
    <3>4. \A b \in BOOLEAN : TaskAcknowledged(Owner[c], t, s, b) \in Update
      BY <1>0, UpdateTyped
    <3>5. CASE t \in commands
      <4>1. (t \in commands) = TRUE
        BY <3>5
      <4> QED BY <3>3, <3>4, <4>1
    <3>6. CASE t \notin commands
      <4>1. (t \in commands) = FALSE
        BY <3>6
      <4> QED BY <3>3, <3>4, <4>1
    <3> QED BY <3>5, <3>6
  <2> QED BY <1>c, <2>1, <2>2 DEF SessionFits
<1>5. ASSUME FinishRegistration(c) \/ Report(c) PROVE SessionFits(c)'
  <2>1. /\ session'[c] = "emit" /\ registered'[c] = registered[c] /\ pending'[c] = pending[c]
        /\ update'[c] = Telemetry(Owner[c])
    BY <1>0, <1>5 DEF FinishRegistration, Report, Go
  <2> QED BY <1>0, <1>c, <2>1 DEF SessionFits, Update
<1>6. ASSUME Emit(c) PROVE SessionFits(c)'
  <2>1. /\ session'[c] = "read" /\ pending'[c] = pending[c] /\ update'[c] = NoUpdate
    BY <1>0, <1>6 DEF Emit, Go
  <2> QED BY <1>c, <2>1 DEF SessionFits
<1>7. ASSUME \/ Dial(c) \/ Register(c) \/ SendRegistrationAck(c) \/ EndOfStream(c)
             \/ Unroute(c) \/ Unregister(c) \/ Farewell(c) \/ Close(c)
      PROVE  SessionFits(c)'
  <2>1. /\ pending'[c] = pending[c] /\ update'[c] = update[c]
        /\ session[c] \notin {"correlate", "emit"} /\ session'[c] \notin {"correlate", "emit"}
        /\ session'[c] \in {"acknowledge", "snapshot", "replay", "unroute", "unregister"}
             => registered'[c]
    BY <1>0, <1>7 DEF Dial, Register, SendRegistrationAck, EndOfStream, Unroute, Unregister,
       Farewell, Close, Go, AfterLoop, SessionFits, sessionVars
  <2> QED BY <1>0, <1>c, <2>1 DEF SessionFits
<1>8. CASE /\ session'[c] = session[c] /\ registered'[c] = registered[c]
           /\ pending'[c] = pending[c] /\ update'[c] = update[c]
  BY <1>0, <1>a, <1>c, <1>8 DEF SessionFits
<1> QED BY <1>0, <1>1, <1>2, <1>3, <1>4, <1>5, <1>6, <1>7, <1>8, SessionSteps

\* What a caller sends to the entry it looked up may go to that connection.
LEMMA CarriedSendable ==
  ASSUME TypeOK, CallerInv, NoDanglingConnection, NEW p \in Caller,
         caller[p] \in {"deliver", "blocked"},
         connections[message[p].to] # NoConn
  PROVE  /\ connections[message[p].to] \in Conn
         /\ message[p] \in Sendable(connections[message[p].to])
<1>0. connections \in [Node -> Conn \union {NoConn}] /\ CallerFits(p)
  BY DEF TypeOK, CallerInv
<1>1. CASE \E t \in Task : message[p] = TaskMessage(t) /\ Accepted(t)
  <2>1. PICK t \in Task : message[p] = TaskMessage(t) /\ Accepted(t)
    BY <1>1
  <2>2. message[p].task = t /\ message[p].to = Target[t] /\ Target[t] \in Node
    BY <2>1, TaskMessageFields
  <2>3. connections[Target[t]] \in Conn /\ Owner[connections[Target[t]]] = Target[t]
    BY <1>0, <2>2 DEF NoDanglingConnection
  <2>4. message[p] \in Message
    BY <2>1 DEF Message
  <2> QED BY <2>1, <2>2, <2>3, <2>4 DEF Sendable
<1>2. CASE \E n \in Node : message[p] = AlertAck(n)
  <2>1. PICK n \in Node : message[p] = AlertAck(n)
    BY <1>2
  <2>2. message[p].kind # "Task" /\ message[p].to = n /\ message[p] \in Message
    BY <2>1, AckFields DEF Message
  <2> QED BY <1>0, <2>2 DEF Sendable
<1> QED BY <1>0, <1>1, <1>2, TaskMessageFields DEF CallerFits

LEMMA DeliveredInvStep ==
  ASSUME BridgeInv, [Next]_vars
  PROVE  DeliveredInv'
<1>0. /\ TypeOK /\ QueueInv /\ CallerInv /\ DeliveredInv /\ SessionInv /\ NoDanglingConnection
      /\ Owner \in [Conn -> Node]
      /\ got \subseteq Task /\ heard \in [Conn -> SUBSET Task]
      /\ channel \in [Conn -> Seq(Message)]
  BY BridgeAssumption DEF BridgeInv, TypeOK
<1>a. \A t \in Task : Accepted(t) => Accepted(t)'
  BY AcceptedStays
<1>b. \A d \in Conn : channel[d] \in Seq(Sendable(d)')
  <2> SUFFICES ASSUME NEW d \in Conn PROVE channel[d] \in Seq(Sendable(d)')
    OBVIOUS
  <2>1. ASSUME NEW m \in Sendable(d) PROVE m \in Sendable(d)'
    <3>1. m \in Message /\ (m.kind = "Task" => Accepted(m.task) /\ Target[m.task] = Owner[d])
      BY <2>1 DEF Sendable
    <3>2. m.kind = "Task" => m.task \in Task
      BY <3>1, TaskMessageFields, AckFields DEF Message
    <3> QED BY <1>a, <3>1, <3>2 DEF Sendable
  <2>2. channel[d] \in Seq(Sendable(d))
    BY <1>0 DEF DeliveredInv
  <2> QED BY <2>1, <2>2
<1>c. \A t \in got : Accepted(t)'
  BY <1>0, <1>a DEF DeliveredInv
<1>d. \A d \in Conn : heard[d] \subseteq { t \in got : Target[t] = Owner[d] }
  BY <1>0 DEF DeliveredInv
<1>e. ASSUME NEW c \in Conn, NEW m \in Sendable(c), Send(c, m)
      PROVE  \A d \in Conn : channel'[d] \in Seq(Sendable(d)')
  <2>1. m \in Sendable(c)'
    <3>1. m \in Message /\ (m.kind = "Task" => Accepted(m.task) /\ Target[m.task] = Owner[c])
      BY <1>e DEF Sendable
    <3>2. m.kind = "Task" => m.task \in Task
      BY <3>1, TaskMessageFields, AckFields DEF Message
    <3> QED BY <1>a, <3>1, <3>2 DEF Sendable
  <2>2. Append(channel[c], m) \in Seq(Sendable(c)')
    BY <1>b, <2>1
  <2> QED BY <1>0, <1>b, <1>e, <2>2 DEF Send
<1> DEFINE Kept == got' = got /\ heard' = heard
<1>f. Kept /\ (\A d \in Conn : channel'[d] \in Seq(Sendable(d)')) => DeliveredInv'
  BY <1>c, <1>d DEF DeliveredInv
<1>1. ASSUME NEW c \in Conn, SendRegistrationAck(c) PROVE DeliveredInv'
  <2>1. RegistrationAck(Owner[c]) \in Sendable(c)
    BY <1>0, AckFields DEF Sendable, Message
  <2>2. Kept /\ Send(c, RegistrationAck(Owner[c]))
    BY <1>1 DEF SendRegistrationAck
  <2> QED BY <1>e, <1>f, <2>1, <2>2
<1>2. ASSUME NEW c \in Conn, Replay(c) PROVE DeliveredInv'
  <2>1. Kept /\ Send(c, TaskMessage(Oldest(pending[c]).task)) /\ pending[c] # {}
    BY <1>2 DEF Replay
  <2>2. Placed(pending[c]) /\ \A e \in pending[c] : Accepted(e.task) /\ Target[e.task] = Owner[c]
    BY <1>0 DEF SessionInv, SessionFits
  <2>3. Oldest(pending[c]) \in pending[c] /\ Oldest(pending[c]).task \in Task
    BY <2>1, <2>2, OldestExists DEF Placed, Entry
  <2>4. TaskMessage(Oldest(pending[c]).task) \in Sendable(c)
    BY <2>2, <2>3, TaskMessageFields DEF Sendable, Message
  <2> QED BY <1>e, <1>f, <2>1, <2>4
<1>3. ASSUME NEW p \in Caller, Deliver(p) PROVE DeliveredInv'
  <2> DEFINE c == connections[message[p].to]
  <2>1. CASE c # NoConn /\ Send(c, message[p])
    <3>1. caller[p] = "deliver" /\ Kept
      BY <1>3 DEF Deliver
    <3>2. c \in Conn /\ message[p] \in Sendable(c)
      BY <1>0, <2>1, <3>1, CarriedSendable
    <3> QED BY <1>e, <1>f, <2>1, <3>1, <3>2
  <2>2. CASE UNCHANGED channel
    <3>1. Kept
      BY <1>3 DEF Deliver
    <3> QED BY <1>b, <1>f, <2>2, <3>1
  <2> QED BY <1>3, <2>1, <2>2 DEF Deliver, SendOrWait
<1>4. ASSUME NEW p \in Caller, NEW n \in Node, SendAlertAck(p, n) PROVE DeliveredInv'
  <2>1. Kept /\ channel' = channel
    BY <1>4 DEF SendAlertAck, wireVars
  <2> QED BY <1>b, <1>f, <2>1
<1>5. ASSUME NEW p \in Caller, Unblock(p) PROVE DeliveredInv'
  <2>1. /\ caller[p] = "blocked" /\ Kept
        /\ Send(connections[message[p].to], message[p])
    BY <1>5 DEF Unblock
  <2>2. connections[message[p].to] # NoConn
    BY <1>0, <2>1 DEF CallerInv, CallerFits
  <2>3. /\ connections[message[p].to] \in Conn
        /\ message[p] \in Sendable(connections[message[p].to])
    BY <1>0, <2>1, <2>2, CarriedSendable
  <2> QED BY <1>e, <1>f, <2>1, <2>3
<1>6. ASSUME NEW c \in Conn, Write(c) PROVE DeliveredInv'
  <2> DEFINE m == Head(channel[c])
             received == IF m.kind = "Task" /\ peer[c] = "open" THEN {m.task} ELSE {}
  <2>1. /\ channel[c] # << >> /\ channel' = [channel EXCEPT ![c] = Tail(@)]
        /\ got' = got \union received
        /\ heard' = [heard EXCEPT ![c] = @ \union received]
    BY <1>6 DEF Write
  <2>2. m \in Sendable(c)' /\ Tail(channel[c]) \in Seq(Sendable(c)')
    BY <1>b, <2>1
  <2>3. \A t \in received : Accepted(t)' /\ Target[t] = Owner[c]
    BY <2>2 DEF Sendable
  <2>4. \A d \in Conn : channel'[d] \in Seq(Sendable(d)')
    BY <1>0, <1>b, <2>1, <2>2
  <2>5. ASSUME NEW d \in Conn
        PROVE  heard'[d] \subseteq { t \in got' : Target[t] = Owner[d] }
    BY <1>0, <1>d, <2>1, <2>3
  <2>6. \A t \in got' : Accepted(t)'
    BY <1>c, <2>1, <2>3
  <2> QED BY <2>4, <2>5, <2>6 DEF DeliveredInv
<1>7. ASSUME NEW c \in Conn, WriteError(c) PROVE DeliveredInv'
  <2>1. Kept /\ channel' = [channel EXCEPT ![c] = << >>]
    BY <1>7 DEF WriteError
  <2>2. << >> \in Seq(Sendable(c)')
    OBVIOUS
  <2> QED BY <1>0, <1>b, <1>f, <2>1, <2>2
<1>8. ASSUME NEW c \in Conn, Dial(c) \/ Close(c) PROVE DeliveredInv'
  <2>1. /\ channel' = channel /\ got' = got
        /\ \/ heard' = [heard EXCEPT ![c] = { t \in got : Target[t] = Owner[c] }]
           \/ heard' = [heard EXCEPT ![c] = {}]
    BY <1>8 DEF Dial, Close
  <2>2. ASSUME NEW d \in Conn
        PROVE  heard'[d] \subseteq { t \in got : Target[t] = Owner[d] }
    <3>1. heard'[d] \in { heard[d], { t \in got : Target[t] = Owner[d] }, {} }
      BY <1>0, <2>1
    <3> QED BY <1>d, <3>1
  <2> QED BY <1>b, <1>c, <2>1, <2>2 DEF DeliveredInv
<1>9. CASE UNCHANGED << channel, got, heard >>
  BY <1>b, <1>f, <1>9
<1>10. \/ \E c \in Conn : \/ SendRegistrationAck(c) \/ Replay(c) \/ Write(c) \/ WriteError(c)
                          \/ Dial(c) \/ Close(c)
       \/ \E p \in Caller : Deliver(p) \/ Unblock(p)
       \/ UNCHANGED << channel, got, heard >>
  BY ZenonT(60) DEF Next, SessionStep, ReadStep, WireStep, CallerStep, vars, wireVars, clockVars,
     Snapshot, FinishRegistration, Correlate, Emit, Unroute, Unregister, Farewell, Register,
     Report, ReadTaskAck, EndOfStream, Lose, SendTask, SendAlertAck, Enqueue, Consume, Tick
<1> HIDE DEF Kept
<1> QED BY <1>1, <1>2, <1>3, <1>4, <1>5, <1>6, <1>7, <1>8, <1>9, <1>10

LEMMA NoDanglingStep ==
  ASSUME BridgeInv, [Next]_vars
  PROVE  NoDanglingConnection'
<1> SUFFICES ASSUME NEW n \in Node, connections'[n] # NoConn
             PROVE  /\ Owner[connections'[n]] = n
                    /\ registered'[connections'[n]]
                    /\ session'[connections'[n]] \notin {"closed", "unregister", "farewell", "ended"}
  BY DEF NoDanglingConnection
<1>0. /\ TypeOK /\ Owner \in [Conn -> Node] /\ SessionInv
      /\ connections \in [Node -> Conn \union {NoConn}]
      /\ session \in [Conn -> SessionState] /\ registered \in [Conn -> BOOLEAN]
  BY BridgeAssumption DEF BridgeInv, TypeOK
<1>a. connections[n] # NoConn =>
        /\ Owner[connections[n]] = n /\ registered[connections[n]] /\ connections[n] \in Conn
        /\ session[connections[n]] \notin {"closed", "unregister", "farewell", "ended"}
  BY <1>0 DEF BridgeInv, NoDanglingConnection
<1>1. ASSUME NEW d \in Conn, Register(d)
      PROVE  /\ Owner[connections'[n]] = n
             /\ registered'[connections'[n]]
             /\ session'[connections'[n]] \notin {"closed", "unregister", "farewell", "ended"}
  BY <1>0, <1>a, <1>1 DEF Register, Go
<1>2. ASSUME NEW d \in Conn, Unroute(d)
      PROVE  /\ Owner[connections'[n]] = n
             /\ registered'[connections'[n]]
             /\ session'[connections'[n]] \notin {"closed", "unregister", "farewell", "ended"}
  BY <1>0, <1>a, <1>2 DEF Unroute, Go, sessionVars
<1>3. ASSUME connections' = connections, \A d \in Conn : ~Unroute(d)
      PROVE  /\ Owner[connections'[n]] = n
             /\ registered'[connections'[n]]
             /\ session'[connections'[n]] \notin {"closed", "unregister", "farewell", "ended"}
  <2> DEFINE c == connections[n]
  <2>1. /\ c \in Conn /\ Owner[c] = n /\ registered[c]
        /\ session[c] \notin {"closed", "unregister", "farewell", "ended"}
    BY <1>a, <1>3
  <2>2. registered'[c] /\ session'[c] \notin {"closed", "unregister", "farewell", "ended"}
    <3> HIDE DEF c
    <3> QED BY <1>0, <1>3, <2>1, SessionSteps
            DEF Dial, Register, SendRegistrationAck, Snapshot, Replay, FinishRegistration,
                Report, ReadTaskAck, Correlate, Emit, EndOfStream, Unregister, Farewell, Close,
                Go, AfterLoop, sessionVars
  <2> QED BY <1>3, <2>1, <2>2
<1> QED BY <1>1, <1>2, <1>3, ConnectionsSteps

\* What a connection was offered is remembered until its slot is closed.
LEMMA OfferedGrows ==
  ASSUME TypeOK, [Next]_vars, NEW c \in Conn, session[c] # "ended"
  PROVE  offered[c] \subseteq offered'[c]
<1>0. offered \in [Conn -> SUBSET Task]
  BY DEF TypeOK
<1>1. ASSUME NEW d \in Conn, Replay(d) \/ Close(d) PROVE offered[c] \subseteq offered'[c]
  BY <1>0, <1>1 DEF Replay, Close, Offer, Go
<1>2. ASSUME NEW p \in Caller, Deliver(p) \/ Unblock(p)
      PROVE  offered[c] \subseteq offered'[c]
  BY <1>0, <1>2 DEF Deliver, Unblock, SendOrWait, Offer
<1>3. \/ \E d \in Conn : Replay(d) \/ Close(d)
      \/ \E p \in Caller : Deliver(p) \/ Unblock(p)
      \/ UNCHANGED offered
  BY DEF Next, SessionStep, ReadStep, WireStep, CallerStep, vars, sessionVars,
     SendRegistrationAck, Snapshot, FinishRegistration, Correlate, Emit, Unroute, Unregister,
     Farewell, Register, Report, ReadTaskAck, EndOfStream, Dial, Write, WriteError, Lose,
     SendTask, SendAlertAck, Enqueue, Consume, Tick
<1> QED BY <1>1, <1>2, <1>3

\* What leaves the entries to replay has been offered to the connection.
LEMMA PendingIsOffered ==
  ASSUME TypeOK, [Next]_vars, NEW c \in Conn, session[c] # "snapshot",
         NEW t \in TasksOf(pending[c])
  PROVE  t \in TasksOf(pending'[c]) \/ t \in offered'[c]
<1>0. /\ pending \in [Conn -> SUBSET Entry] /\ offered \in [Conn -> SUBSET Task]
      /\ session \in [Conn -> SessionState]
  BY DEF TypeOK
<1>1. CASE Replay(c)
  <2>1. /\ pending'[c] = pending[c] \ {Oldest(pending[c])}
        /\ offered'[c] = offered[c] \union {Oldest(pending[c]).task}
    BY <1>0, <1>1 DEF Replay, Offer
  <2> QED BY <2>1 DEF TasksOf
<1>2. CASE pending'[c] = pending[c]
  BY <1>2
<1>3. Replay(c) \/ pending'[c] = pending[c]
  BY <1>0, SessionSteps
     DEF Dial, Register, SendRegistrationAck, Snapshot, FinishRegistration, Report, ReadTaskAck,
         Correlate, Emit, EndOfStream, Unroute, Unregister, Farewell, Close, Go, sessionVars
<1> QED BY <1>1, <1>2, <1>3

\* A task leaves the hands of its caller only into the channel of the entry.
LEMMA InHandIsOffered ==
  ASSUME BridgeInv, [Next]_vars, NEW t \in Task, InHand(t),
         connections[Target[t]] # NoConn
  PROVE  InHand(t)' \/ t \in offered'[connections[Target[t]]]
<1>0. /\ caller \in [Caller -> {"idle", "enqueue", "deliver", "blocked"}]
      /\ message \in [Caller -> Message \union {NoMessage}]
      /\ offered \in [Conn -> SUBSET Task]
      /\ connections \in [Node -> Conn \union {NoConn}]
      /\ CallerInv /\ Target[t] \in Node /\ NoTask \notin Task
  BY BridgeAssumption DEF BridgeInv, TypeOK
<1>1. PICK p \in Caller : caller[p] \in {"deliver", "blocked"} /\ message[p].task = t
  BY DEF InHand
<1>2. message[p].to = Target[t]
  BY <1>0, <1>1, TaskMessageFields, AckFields DEF CallerInv, CallerFits
<1> DEFINE c == connections[Target[t]]
<1>3. c \in Conn
  BY <1>0
<1>4. CASE Deliver(p)
  <2>1. SendOrWait(p, c, message[p])
    BY <1>2, <1>4 DEF Deliver
  <2>2. CASE Offer(c, {message[p].task} \ {NoTask})
    BY <1>0, <1>1, <1>3, <2>2 DEF Offer
  <2>3. CASE /\ caller' = [caller EXCEPT ![p] = "blocked"]
             /\ message' = [message EXCEPT ![p] = message[p]]
    BY <1>0, <1>1, <2>3 DEF InHand
  <2> QED BY <2>1, <2>2, <2>3 DEF SendOrWait
<1>5. CASE Unblock(p)
  BY <1>0, <1>1, <1>2, <1>3, <1>5 DEF Unblock, Offer
<1>6. CASE caller'[p] = caller[p] /\ message'[p] = message[p]
  BY <1>1, <1>6 DEF InHand
<1>7. ASSUME NEW q \in Caller, CallerStep(q), ~Deliver(p), ~Unblock(p)
      PROVE  caller'[p] = caller[p] /\ message'[p] = message[p]
  <2>1. \/ \E u \in Task : SendTask(q, u)
        \/ Enqueue(q) \/ \E n \in Node : SendAlertAck(q, n)
        \/ q # p /\ (Deliver(q) \/ Unblock(q))
    BY <1>7 DEF CallerStep
  <2>2. q # p
    BY <1>1, <2>1 DEF SendTask, Enqueue, SendAlertAck
  <2> QED BY <1>0, <2>1, <2>2 DEF SendTask, Enqueue, SendAlertAck, Deliver, Unblock, SendOrWait
<1> QED BY <1>4, <1>5, <1>6, <1>7, CallerSteps DEF callerVars

LEMMA QueuedTaskIsOfferedStep ==
  ASSUME BridgeInv, [Next]_vars
  PROVE  QueuedTaskIsOffered'
<1> SUFFICES ASSUME NEW n \in Node,
                    connections'[n] # NoConn,
                    session'[connections'[n]] \notin {"acknowledge", "snapshot"},
                    NEW t \in TasksOf(queues'[n])
             PROVE  \/ t \in offered'[connections'[n]]
                    \/ t \in TasksOf(pending'[connections'[n]])
                    \/ InHand(t)'
  BY DEF QueuedTaskIsOffered, InHand
<1>0. /\ TypeOK /\ QueueInv /\ CallerInv /\ SessionInv /\ DeliveredInv /\ QueuedTaskIsOffered
      /\ Owner \in [Conn -> Node] /\ NoDanglingConnection
      /\ connections \in [Node -> Conn \union {NoConn}]
      /\ session \in [Conn -> SessionState]
  BY BridgeAssumption DEF BridgeInv, TypeOK
<1>1. connections'[n] = connections[n]
  <2>1. ASSUME NEW d \in Conn, Register(d) PROVE connections'[n] = connections[n]
    BY <1>0, <2>1 DEF Register, Go
  <2>2. ASSUME NEW d \in Conn, Unroute(d) PROVE connections'[n] = connections[n]
    BY <1>0, <2>2 DEF Unroute
  <2> QED BY <2>1, <2>2, ConnectionsSteps
<1> DEFINE c == connections[n]
<1>2. /\ c \in Conn /\ c # NoConn /\ Owner[c] = n
      /\ session[c] \notin {"closed", "unregister", "farewell", "ended"}
      /\ session'[c] \notin {"acknowledge", "snapshot"}
  BY <1>0, <1>1 DEF NoDanglingConnection
<1>3. Target[t] = n /\ t \in Task
  <2>1. QueueInv'
    BY QueueInvStep
  <2> QED BY <2>1 DEF QueueInv, TasksOf, Placed, Entry
<1> HIDE DEF c
<1>4. CASE session[c] \in {"acknowledge", "snapshot"}
  <2>1. Snapshot(c)
    BY <1>0, <1>2, <1>4, SessionSteps
       DEF Dial, Register, SendRegistrationAck, Replay, FinishRegistration, Report, ReadTaskAck,
           Correlate, Emit, EndOfStream, Unroute, Unregister, Farewell, Close, Go
  <2>2. pending'[c] = queues'[n]
    <3>1. pending \in [Conn -> SUBSET Entry]
      BY <1>0 DEF TypeOK
    <3> QED BY <1>2, <2>1, <3>1 DEF Snapshot
  <2> QED BY <1>1, <2>2 DEF c
<1>5. CASE session[c] \notin {"acknowledge", "snapshot"} /\ t \in TasksOf(queues[n])
  <2>1. t \in offered[c] \/ t \in TasksOf(pending[c]) \/ InHand(t)
    BY <1>0, <1>2, <1>5 DEF QueuedTaskIsOffered, c
  <2>2. CASE t \in offered[c]
    BY <1>0, <1>1, <1>2, <2>2, OfferedGrows DEF c
  <2>3. CASE t \in TasksOf(pending[c])
    BY <1>0, <1>1, <1>2, <1>5, <2>3, PendingIsOffered DEF c
  <2>4. CASE InHand(t)
    BY <1>1, <1>2, <1>3, <2>4, InHandIsOffered DEF c
  <2> QED BY <2>1, <2>2, <2>3, <2>4
<1>6. CASE t \notin TasksOf(queues[n])
  <2>1. ASSUME NEW p \in Caller, Enqueue(p) PROVE InHand(t)'
    <3>1. PICK u \in Task, entry \in Entry, evicted \in SUBSET Task :
            message[p] = TaskMessage(u) /\ PutIn(u, entry, evicted)
      BY <1>0, <2>1, EnqueueEffect
    <3>2. t = u
      BY <1>6, <3>1 DEF PutIn, TasksOf
    <3>3. caller'[p] = "deliver" /\ message'[p] = message[p] /\ message[p].task = t
      BY <1>0, <2>1, <3>1, <3>2, TaskMessageFields DEF Enqueue, TypeOK
    <3> QED BY <3>3 DEF InHand
  <2>2. ASSUME NEW d \in Conn, Snapshot(d) PROVE FALSE
    BY <1>0, <1>6, <2>2, DrainEffect DEF Snapshot, TasksOf
  <2>3. ASSUME NEW d \in Conn, NEW u \in Task, NEW s \in AckStatus, ReadTaskAck(d, u, s)
        PROVE  FALSE
    BY <1>0, <1>6, <2>3, TaskAckEffect DEF TasksOf
  <2>4. ASSUME queues' = queues PROVE FALSE
    BY <1>6, <2>4
  <2> QED BY <2>1, <2>2, <2>3, <2>4, QueueSteps DEF SendTask
<1> QED BY <1>4, <1>5, <1>6

\* The commands leave task_commands when their tasks leave the queue, and when
\* an acknowledgement is correlated.
LEMMA CommandInvStep ==
  ASSUME BridgeInv, [Next]_vars
  PROVE  CommandInv'
<1>0. /\ TypeOK /\ QueueInv /\ CallerInv /\ SessionInv /\ DeliveredInv /\ CommandInv
      /\ Owner \in [Conn -> Node] /\ Target \in [Task -> Node] /\ Commanded \subseteq Task
      /\ commands \subseteq Task /\ reported \subseteq Task
      /\ session \in [Conn -> SessionState]
      /\ update \in [Conn -> Update \union {NoUpdate}]
      /\ life \in [Task -> {"new", "sending", "queued", "acked", "expired", "evicted"}]
  BY BridgeAssumption DEF BridgeInv, TypeOK
<1> DEFINE OnItsWay(t) == \/ life[t] = "sending"
                          \/ t \in TasksOf(queues[Target[t]])
           Correlating(t) == \E c \in Conn : session[c] = "correlate" /\ update[c].task = t
           Carried(t) == \E c \in Conn : /\ update[c].kind = "TaskAcknowledged"
                                         /\ update[c].task = t /\ update[c].command
<1>a. CommandInv <=>
        /\ \A t \in commands : OnItsWay(t) \/ Correlating(t)
        /\ \A t \in Commanded : life[t] = "acked" => t \in reported \/ t \in commands \/ Carried(t)
        /\ \A t \in Commanded : life[t] \in {"sending", "queued"} => t \in commands
  BY DEF CommandInv, CommandGoesWithTask
<1>b. CommandInv' <=>
        /\ \A t \in commands' : OnItsWay(t)' \/ Correlating(t)'
        /\ \A t \in Commanded : life'[t] = "acked"
                                  => t \in reported' \/ t \in commands' \/ Carried(t)'
        /\ \A t \in Commanded : life'[t] \in {"sending", "queued"} => t \in commands'
  BY DEF CommandInv, CommandGoesWithTask
<1>1. ASSUME NEW c \in Conn, Snapshot(c) PROVE CommandInv'
  <2> DEFINE expired == DrainedTasks(queues, now)
  <2>1. /\ queues' = Drained(queues, now) /\ commands' = commands \ expired
        /\ life' = [t \in Task |-> IF t \in expired THEN "expired" ELSE life[t]]
        /\ update' = update /\ reported' = reported
        /\ session[c] = "snapshot" /\ session' = [session EXCEPT ![c] = "replay"]
    BY <1>1 DEF Snapshot, Settle, Go, sharedVars
  <2>2. \A t \in Task : t \notin expired /\ OnItsWay(t) => OnItsWay(t)'
    BY <1>0, <2>1, DrainEffect DEF TasksOf
  <2>3. \A t : Correlating(t) => Correlating(t)'
    BY <1>0, <2>1
  <2>4. \A t : Carried(t) => Carried(t)'
    BY <2>1
  <2>5. \A t \in expired : life[t] = "queued"
    BY <1>0, DrainEffect
  <2> HIDE DEF OnItsWay, Correlating, Carried, expired
  <2> QED BY <1>0, <1>a, <1>b, <2>1, <2>2, <2>3, <2>4, <2>5
<1>2. ASSUME NEW p \in Caller, Enqueue(p) PROVE CommandInv'
  <2>1. PICK t \in Task, entry \in Entry, evicted \in SUBSET Task : PutIn(t, entry, evicted)
    BY <1>0, <1>2, EnqueueEffect
  <2> DEFINE gone == DrainedTasks(queues, now) \union evicted
  <2>2. /\ commands' = commands \ gone
        /\ \A u \in gone : life[u] = "queued" /\ life'[u] \in {"expired", "evicted"}
        /\ life[t] = "sending" /\ life'[t] = "queued"
        /\ \A u \in Task : u \notin gone /\ u # t => life'[u] = life[u]
    BY <1>0, <2>1, DrainEffect DEF PutIn
  <2>3. session' = session /\ update' = update /\ reported' = reported
    BY <1>2 DEF Enqueue, sessionVars, sharedVars
  <2>4. \A u \in Task : u \notin gone /\ OnItsWay(u) => OnItsWay(u)'
    <3>1. t \in TasksOf(queues'[Target[t]])
      BY <1>0, <2>1 DEF PutIn, TasksOf
    <3>2. \A u \in Task : u \notin gone /\ u \in TasksOf(queues[Target[u]])
                            => u \in TasksOf(queues'[Target[u]])
      BY <1>0, <2>1 DEF PutIn, TasksOf
    <3> HIDE DEF gone
    <3> QED BY <2>2, <3>1, <3>2
  <2>5. \A u : (Correlating(u) => Correlating(u)') /\ (Carried(u) => Carried(u)')
    BY <2>3
  <2> HIDE DEF OnItsWay, Correlating, Carried, gone
  <2> QED BY <1>0, <1>a, <1>b, <2>2, <2>3, <2>4, <2>5
<1>3. ASSUME NEW p \in Caller, NEW t \in Task, SendTask(p, t) PROVE CommandInv'
  <2>1. /\ life[t] = "new" /\ life' = [life EXCEPT ![t] = "sending"]
        /\ commands' = IF t \in Commanded THEN commands \union {t} ELSE commands
        /\ queues' = queues /\ session' = session /\ update' = update /\ reported' = reported
    BY <1>3 DEF SendTask, sessionVars, sharedVars
  <2>2. \A u \in Task : OnItsWay(u) \/ u = t => OnItsWay(u)'
    BY <1>0, <2>1
  <2>3. \A u : (Correlating(u) => Correlating(u)') /\ (Carried(u) => Carried(u)')
    BY <2>1
  <2> HIDE DEF OnItsWay, Correlating, Carried
  <2> QED BY <1>0, <1>a, <1>b, <2>1, <2>2, <2>3
<1>4. ASSUME NEW c \in Conn, NEW t \in Task, NEW s \in AckStatus, ReadTaskAck(c, t, s)
      PROVE  CommandInv'
  <2>1. /\ commands' = commands /\ reported' = reported /\ session[c] = "read"
        /\ session' = [session EXCEPT ![c] = "correlate"]
        /\ update' = [update EXCEPT ![c] = TaskAcknowledged(Owner[c], t, s, FALSE)]
    BY <1>4 DEF ReadTaskAck, Go, sharedVars
  <2>2. /\ life' = [u \in Task |-> IF u = t /\ life[t] = "queued" THEN "acked" ELSE life[u]]
        /\ \A n \in Node : \A e : e \in queues'[n] <=> e \in queues[n] /\ e.task # t
    BY <1>0, <1>4, TaskAckEffect
  <2>3. update[c] = NoUpdate
    BY <1>0, <2>1 DEF SessionInv, SessionFits
  <2>4. \A u \in Task : OnItsWay(u) /\ u # t => OnItsWay(u)'
    BY <1>0, <2>2 DEF TasksOf
  <2>5. Correlating(t)'
    BY <1>0, <2>1 DEF TaskAcknowledged
  <2>6. \A u : Correlating(u) => Correlating(u)'
    BY <1>0, <2>1
  <2>7. \A u : Carried(u) => Carried(u)'
    <3> SUFFICES ASSUME NEW u, Carried(u) PROVE Carried(u)'
      OBVIOUS
    <3>1. PICK d \in Conn : /\ update[d].kind = "TaskAcknowledged"
                            /\ update[d].task = u /\ update[d].command
      OBVIOUS
    <3>2. d # c
      BY <2>3, <3>1 DEF NoUpdate
    <3>3. update'[d] = update[d]
      BY <1>0, <2>1, <3>2
    <3> QED BY <3>1, <3>3
  <2> HIDE DEF OnItsWay, Correlating, Carried
  <2> QED BY <1>0, <1>a, <1>b, <2>1, <2>2, <2>4, <2>5, <2>6, <2>7

<1>5. ASSUME NEW c \in Conn, Correlate(c) PROVE CommandInv'
  <2>1. PICK t \in Task, s \in AckStatus : /\ update[c] = TaskAcknowledged(Owner[c], t, s, FALSE)
                                           /\ life[t] \in {"acked", "expired", "evicted"}
    BY <1>0, <1>5 DEF Correlate, Go, SessionInv, SessionFits
  <2>2. update[c].task = t /\ update[c].command = FALSE
    BY <2>1 DEF TaskAcknowledged
  <2>3. /\ commands' = commands \ {t} /\ reported' = reported /\ queues' = queues /\ life' = life
        /\ session' = [session EXCEPT ![c] = "emit"]
        /\ update' = [update EXCEPT ![c] =
                        TaskAcknowledged(update[c].node, t, update[c].status, t \in commands)]
    BY <1>5, <2>2 DEF Correlate, Go, sharedVars
  <2>4. t \in commands => Carried(t)'
    BY <1>0, <2>3 DEF TaskAcknowledged
  <2>5. \A u : u # t /\ Correlating(u) => Correlating(u)'
    BY <1>0, <2>2, <2>3
  <2>6. \A u : Carried(u) => Carried(u)'
    <3> SUFFICES ASSUME NEW u, Carried(u) PROVE Carried(u)'
      OBVIOUS
    <3>1. PICK d \in Conn : /\ update[d].kind = "TaskAcknowledged"
                            /\ update[d].task = u /\ update[d].command
      OBVIOUS
    <3>2. d # c
      BY <2>2, <3>1
    <3>3. update'[d] = update[d]
      BY <1>0, <2>3, <3>2
    <3> QED BY <3>1, <3>3
  <2>7. \A u \in Task : OnItsWay(u) => OnItsWay(u)'
    BY <2>3
  <2> HIDE DEF OnItsWay, Correlating, Carried
  <2> QED BY <1>0, <1>a, <1>b, <2>1, <2>3, <2>4, <2>5, <2>6, <2>7
<1>6. ASSUME NEW c \in Conn, Emit(c) PROVE CommandInv'
  <2>1. /\ commands' = commands /\ queues' = queues /\ life' = life
        /\ session[c] = "emit" /\ session' = [session EXCEPT ![c] = "read"]
        /\ reported' = IF update[c].command THEN reported \union {update[c].task} ELSE reported
        /\ update' = [update EXCEPT ![c] = NoUpdate]
    BY <1>6 DEF Emit, Go, queueVars
  <2>2. \A u : Correlating(u) => Correlating(u)'
    BY <1>0, <2>1
  <2>3. \A u : Carried(u) => Carried(u)' \/ u \in reported'
    <3> SUFFICES ASSUME NEW u, Carried(u) PROVE Carried(u)' \/ u \in reported'
      OBVIOUS
    <3>1. PICK d \in Conn : /\ update[d].kind = "TaskAcknowledged"
                            /\ update[d].task = u /\ update[d].command
      OBVIOUS
    <3>2. CASE d = c
      BY <2>1, <3>1, <3>2
    <3>3. CASE d # c
      <4>1. update'[d] = update[d]
        BY <1>0, <2>1, <3>3
      <4> QED BY <3>1, <4>1
    <3> QED BY <3>2, <3>3
  <2>4. reported \subseteq reported'
    BY <2>1
  <2>5. \A u \in Task : OnItsWay(u) => OnItsWay(u)'
    BY <2>1
  <2> HIDE DEF OnItsWay, Correlating, Carried
  <2> QED BY <1>0, <1>a, <1>b, <2>1, <2>2, <2>3, <2>4, <2>5
<1>7. ASSUME UNCHANGED << queues, life, commands, reported >>,
             \A c \in Conn : ~Correlate(c) /\ ~Emit(c)
      PROVE  CommandInv'
  <2>1. ASSUME NEW c \in Conn
        PROVE  /\ session[c] = "correlate" => session'[c] = "correlate" /\ update'[c] = update[c]
               /\ update[c].kind = "TaskAcknowledged" => update'[c] = update[c]
    <3>1. session[c] \notin {"correlate", "emit"} => update[c] = NoUpdate
      BY <1>0 DEF SessionInv, SessionFits
    <3>2. update[c].kind = "TaskAcknowledged" => session[c] \in {"correlate", "emit"}
      BY <3>1 DEF NoUpdate
    <3> QED BY <1>0, <1>7, <3>2, SessionSteps
            DEF Dial, Register, SendRegistrationAck, Snapshot, Replay, FinishRegistration, Report,
                ReadTaskAck, EndOfStream, Unroute, Unregister, Farewell, Close, Go, sessionVars
  <2>2. \A u : (Correlating(u) => Correlating(u)') /\ (Carried(u) => Carried(u)')
    BY <2>1
  <2>3. \A u \in Task : OnItsWay(u) => OnItsWay(u)'
    BY <1>7
  <2> HIDE DEF OnItsWay, Correlating, Carried
  <2> QED BY <1>0, <1>a, <1>b, <1>7, <2>2, <2>3
<1>8. \/ \E c \in Conn : Snapshot(c) \/ Correlate(c) \/ Emit(c)
      \/ \E c \in Conn, t \in Task, s \in AckStatus : ReadTaskAck(c, t, s)
      \/ \E p \in Caller : Enqueue(p) \/ \E t \in Task : SendTask(p, t)
      \/ UNCHANGED << queues, life, commands, reported >>
  BY ZenonT(60) DEF Next, SessionStep, ReadStep, WireStep, CallerStep, vars, queueVars, sharedVars,
     SendRegistrationAck, Replay, FinishRegistration, Unroute, Unregister, Farewell, Register,
     Report, EndOfStream, Dial, Write, WriteError, Close, Lose, Deliver, Unblock, SendAlertAck,
     Consume, Tick
<1> HIDE DEF OnItsWay, Correlating, Carried
<1> QED BY <1>1, <1>2, <1>3, <1>4, <1>5, <1>6, <1>7, <1>8

-----------------------------------------------------------------------------
(***************************************************************************)
(* Types.                                                                  *)
(***************************************************************************)

\* How a step may change each variable, whatever the action.
LEMMA VariableSteps ==
  ASSUME [Next]_vars
  PROVE  /\ \/ \E c \in Conn, k \in SessionState : session' = [session EXCEPT ![c] = k]
            \/ session' = session
         /\ \/ \E c \in Conn, b \in BOOLEAN : registered' = [registered EXCEPT ![c] = b]
            \/ registered' = registered
         /\ \/ \E c \in Conn, b \in BOOLEAN : writing' = [writing EXCEPT ![c] = b]
            \/ writing' = writing
         /\ \/ \E c \in Conn, k \in {"none", "open", "gone"} : peer' = [peer EXCEPT ![c] = k]
            \/ peer' = peer
         /\ \/ \E c \in Conn : pending' = [pending EXCEPT ![c] = queues'[Owner[c]]]
            \/ \E c \in Conn : pending' = [pending EXCEPT ![c] = @ \ {Oldest(pending[c])}]
            \/ pending' = pending
         /\ \/ \E c \in Conn : registry' \in {registry \union {Owner[c]}, registry \ {Owner[c]}}
            \/ registry' = registry
         /\ \/ SendUpdate
            \/ backlog > 0 /\ backlog' = backlog - 1
            \/ backlog' = backlog
         /\ (\E t \in Task : commands' = commands \union {t}) \/ commands' \subseteq commands
         /\ now' = now \/ now' = now + 1
         /\ faults' = faults \/ faults' = faults + 1
<1> USE DEF Next, vars, SessionStep, ReadStep, WireStep, CallerStep, queueVars, sessionVars,
       wireVars, sharedVars, clockVars, Go, AfterLoop, SendRegistrationAck, Snapshot, Replay,
       FinishRegistration, Correlate, Emit, Unroute, Unregister, Farewell, Register, Report,
       ReadTaskAck, EndOfStream, Dial, Write, WriteError, Close, Lose, SendTask, Enqueue,
       Deliver, Unblock, SendAlertAck, Consume, Tick
<1>1. \/ \E c \in Conn, k \in SessionState : session' = [session EXCEPT ![c] = k]
      \/ session' = session
  BY ZenonT(60) DEF SessionState
<1>2. \/ \E c \in Conn, b \in BOOLEAN : registered' = [registered EXCEPT ![c] = b]
      \/ registered' = registered
  BY ZenonT(60)
<1>3. \/ \E c \in Conn, b \in BOOLEAN : writing' = [writing EXCEPT ![c] = b]
      \/ writing' = writing
  BY ZenonT(60)
<1>4. \/ \E c \in Conn, k \in {"none", "open", "gone"} : peer' = [peer EXCEPT ![c] = k]
      \/ peer' = peer
  BY ZenonT(60)
<1>5. \/ \E c \in Conn : pending' = [pending EXCEPT ![c] = queues'[Owner[c]]]
      \/ \E c \in Conn : pending' = [pending EXCEPT ![c] = @ \ {Oldest(pending[c])}]
      \/ pending' = pending
  BY ZenonT(60)
<1>6. \/ \E c \in Conn : registry' \in {registry \union {Owner[c]}, registry \ {Owner[c]}}
      \/ registry' = registry
  BY ZenonT(60)
<1>7. \/ SendUpdate
      \/ backlog > 0 /\ backlog' = backlog - 1
      \/ backlog' = backlog
  BY ZenonT(60)
<1>8. (\E t \in Task : commands' = commands \union {t}) \/ commands' \subseteq commands
  BY ZenonT(60)
<1>9. (now' = now \/ now' = now + 1) /\ (faults' = faults \/ faults' = faults + 1)
  BY ZenonT(60)
<1> QED BY <1>1, <1>2, <1>3, <1>4, <1>5, <1>6, <1>7, <1>8, <1>9

LEMMA QueueTypeStep ==
  ASSUME BridgeInv, [Next]_vars
  PROVE  /\ queues' \in [Node -> SUBSET Entry]
         /\ \A n \in Node : IsFiniteSet(queues'[n])
         /\ commands' \subseteq Task
<1>0. /\ TypeOK /\ QueueInv /\ CallerInv /\ DeliveredInv
      /\ queues \in [Node -> SUBSET Entry] /\ commands \subseteq Task
  BY DEF BridgeInv, TypeOK
<1>1. queues' \in [Node -> SUBSET Entry]
  <2>1. ASSUME NEW c \in Conn, Snapshot(c) PROVE queues' \in [Node -> SUBSET Entry]
    BY <1>0, <2>1 DEF Snapshot, Drained
  <2>2. ASSUME NEW p \in Caller, Enqueue(p) PROVE queues' \in [Node -> SUBSET Entry]
    BY <1>0, <2>2, EnqueueEffect DEF PutIn
  <2> QED BY <1>0, <2>1, <2>2, TaskAckEffect, QueueSteps DEF SendTask
<1>2. \A n \in Node : IsFiniteSet(queues'[n])
  BY QueueInvStep DEF QueueInv, Placed
<1>3. commands' \subseteq Task
  BY <1>0, VariableSteps
<1> QED BY <1>1, <1>2, <1>3

LEMMA SharedTypeStep ==
  ASSUME BridgeInv, [Next]_vars
  PROVE  /\ connections' \in [Node -> Conn \union {NoConn}]
         /\ registry' \subseteq Node
         /\ backlog' \in 0..UpdateCap
         /\ reported' \subseteq Task
         /\ now' \in Nat
         /\ faults' \in Nat
<1>0. /\ Owner \in [Conn -> Node] /\ UpdateCap \in Nat
      /\ connections \in [Node -> Conn \union {NoConn}] /\ registry \subseteq Node
      /\ backlog \in 0..UpdateCap /\ reported \subseteq Task /\ now \in Nat /\ faults \in Nat
      /\ update \in [Conn -> Update \union {NoUpdate}] /\ SessionInv
  BY BridgeAssumption DEF BridgeInv, TypeOK
<1>1. connections' \in [Node -> Conn \union {NoConn}]
  BY <1>0, ConnectionsSteps DEF Register, Unroute
<1>2. registry' \subseteq Node
  BY <1>0, VariableSteps
<1>3. backlog' \in 0..UpdateCap
  BY <1>0, VariableSteps DEF SendUpdate
<1>4. reported' \subseteq Task
  <2>1. ASSUME NEW c \in Conn, Emit(c) PROVE reported' \subseteq Task
    <3>1. update[c] \in Update
      BY <1>0, <2>1 DEF Emit, Go, SessionInv, SessionFits
    <3>2. update[c].command => update[c].task \in Task
      BY <3>1 DEF Update, Telemetry, TaskAcknowledged
    <3> QED BY <1>0, <2>1, <3>2 DEF Emit
  <2> QED
    BY <1>0, <2>1, ZenonT(60) DEF Next, vars, SessionStep, ReadStep, WireStep, CallerStep, sharedVars,
     SendRegistrationAck, Snapshot, Replay, FinishRegistration, Correlate, Unroute,
     Unregister, Farewell, Register, Report, ReadTaskAck, EndOfStream, Dial, Write, WriteError,
     Close, Lose, SendTask, Enqueue, Deliver, Unblock, SendAlertAck, Consume, Tick
<1>5. now' \in Nat /\ faults' \in Nat
  BY <1>0, VariableSteps
<1> QED BY <1>1, <1>2, <1>3, <1>4, <1>5

LEMMA CallerTypeStep ==
  ASSUME BridgeInv, [Next]_vars
  PROVE  /\ holder' \subseteq Caller
         /\ caller' \in [Caller -> {"idle", "enqueue", "deliver", "blocked"}]
         /\ message' \in [Caller -> Message \union {NoMessage}]
<1>0. /\ holder \subseteq Caller
      /\ caller \in [Caller -> {"idle", "enqueue", "deliver", "blocked"}]
      /\ message \in [Caller -> Message \union {NoMessage}]
  BY DEF BridgeInv, TypeOK
<1>1. /\ \A t \in Task : TaskMessage(t) \in Message
      /\ \A n \in Node : AlertAck(n) \in Message
  BY DEF Message
<1>2. ASSUME NEW p \in Caller, CallerStep(p)
      PROVE  /\ holder' \in {holder, {p}, {}}
             /\ \E k \in {"idle", "enqueue", "deliver", "blocked"} : caller' = [caller EXCEPT ![p] = k]
             /\ \E m \in Message \union {NoMessage} :
                  message' = [message EXCEPT ![p] = m]
  <2>1. message = [message EXCEPT ![p] = message[p]] /\ message[p] \in Message \union {NoMessage}
    BY <1>0
  <2>2. ASSUME NEW t \in Task, SendTask(p, t)
        PROVE  message' = [message EXCEPT ![p] = TaskMessage(t)]
    BY <2>2 DEF SendTask
  <2>3. ASSUME Enqueue(p) PROVE message' = [message EXCEPT ![p] = message[p]]
    BY <2>1, <2>3 DEF Enqueue
  <2>4. ASSUME Deliver(p)
        PROVE \/ message' = [message EXCEPT ![p] = NoMessage]
              \/ message' = [message EXCEPT ![p] = message[p]]
    BY <2>4 DEF Deliver, SendOrWait
  <2>5. ASSUME Unblock(p) PROVE message' = [message EXCEPT ![p] = NoMessage]
    BY <2>5 DEF Unblock
  <2>6. ASSUME NEW n \in Node, SendAlertAck(p, n)
        PROVE message' = [message EXCEPT ![p] = AlertAck(n)]
    BY <2>6 DEF SendAlertAck
  <2>7. /\ holder' \in {holder, {p}, {}}
        /\ \E k \in {"idle", "enqueue", "deliver", "blocked"} : caller' = [caller EXCEPT ![p] = k]
    BY <1>2 DEF CallerStep, SendTask, Enqueue, Deliver, Unblock, SendAlertAck, SendOrWait
  <2> QED BY <1>1, <1>2, <2>1, <2>2, <2>3, <2>4, <2>5, <2>6, <2>7 DEF CallerStep
<1>3. CASE UNCHANGED callerVars
  BY <1>0, <1>3 DEF callerVars
<1>4. ASSUME NEW p \in Caller, CallerStep(p)
      PROVE  /\ holder' \subseteq Caller
             /\ caller' \in [Caller -> {"idle", "enqueue", "deliver", "blocked"}]
             /\ message' \in [Caller -> Message \union {NoMessage}]
  BY <1>0, <1>2, <1>4
<1> QED BY <1>3, <1>4, CallerSteps

LEMMA SessionTypeStep ==
  ASSUME BridgeInv, [Next]_vars
  PROVE  /\ session' \in [Conn -> SessionState]
         /\ registered' \in [Conn -> BOOLEAN]
         /\ pending' \in [Conn -> SUBSET Entry]
         /\ update' \in [Conn -> Update \union {NoUpdate}]
<1>0. /\ Owner \in [Conn -> Node]
      /\ session \in [Conn -> SessionState]
      /\ registered \in [Conn -> BOOLEAN]
      /\ pending \in [Conn -> SUBSET Entry]
      /\ update \in [Conn -> Update \union {NoUpdate}]
      /\ CallerInv /\ SessionInv
  BY BridgeAssumption DEF BridgeInv, TypeOK
<1>1. session' \in [Conn -> SessionState]
  BY <1>0, VariableSteps
<1>2. registered' \in [Conn -> BOOLEAN]
  BY <1>0, VariableSteps
<1>3. pending' \in [Conn -> SUBSET Entry]
  <2>1. queues' \in [Node -> SUBSET Entry]
    BY QueueTypeStep
  <2> QED BY <1>0, <2>1, VariableSteps
<1>4. update' \in [Conn -> Update \union {NoUpdate}]
  <2>1. \/ \E c \in Conn : \E u : update' = [update EXCEPT ![c] = u]
        \/ update' = update
    <3>1. ASSUME NEW c \in Conn, Correlate(c)
          PROVE \E u : update' = [update EXCEPT ![c] = u]
      BY <3>1 DEF Correlate
    <3>2. ASSUME NEW c \in Conn, FinishRegistration(c) \/ Report(c)
          PROVE \E u : update' = [update EXCEPT ![c] = u]
      BY <3>2 DEF FinishRegistration, Report
    <3>3. ASSUME NEW c \in Conn, NEW t \in Task, NEW s \in AckStatus, ReadTaskAck(c, t, s)
          PROVE \E u : update' = [update EXCEPT ![c] = u]
      BY <3>3 DEF ReadTaskAck
    <3>4. ASSUME NEW c \in Conn, Emit(c)
          PROVE \E u : update' = [update EXCEPT ![c] = u]
      BY <3>4 DEF Emit
    <3> QED BY <3>1, <3>2, <3>3, <3>4
      DEF Next, vars, SessionStep, ReadStep, WireStep, CallerStep, sessionVars,
       SendRegistrationAck, Snapshot, Replay, Unroute,
       Unregister, Farewell, Register, EndOfStream, Dial, Write,
       WriteError, Close, Lose, SendTask, Enqueue, Deliver, Unblock, SendAlertAck, Consume,
       Tick
  <2>2. ASSUME NEW c \in Conn PROVE update'[c] \in Update \union {NoUpdate}
    <3>1. SessionFits(c)'
      BY SessionInvStep DEF SessionInv
    <3>2. \A t \in Task, s \in AckStatus : TaskAcknowledged(Owner[c], t, s, FALSE) \in Update
      BY <1>0, UpdateTyped
    <3> QED BY <3>1, <3>2 DEF SessionFits
  <2> QED BY <1>0, <2>1, <2>2
<1> QED BY <1>1, <1>2, <1>3, <1>4

LEMMA WireTypeStep ==
  ASSUME BridgeInv, [Next]_vars
  PROVE  /\ channel' \in [Conn -> Seq(Message)]
         /\ \A c \in Conn : Len(channel'[c]) <= WriteCap
         /\ writing' \in [Conn -> BOOLEAN]
         /\ peer' \in [Conn -> {"none", "open", "gone"}]
         /\ got' \subseteq Task
         /\ heard' \in [Conn -> SUBSET Task]
         /\ offered' \in [Conn -> SUBSET Task]
<1>0. /\ Owner \in [Conn -> Node] /\ WriteCap \in Nat \ {0}
      /\ channel \in [Conn -> Seq(Message)]
      /\ \A c \in Conn : Len(channel[c]) <= WriteCap
      /\ writing \in [Conn -> BOOLEAN]
      /\ peer \in [Conn -> {"none", "open", "gone"}]
      /\ got \subseteq Task
      /\ heard \in [Conn -> SUBSET Task]
      /\ offered \in [Conn -> SUBSET Task]
      /\ CallerInv /\ SessionInv /\ TypeOK /\ DeliveredInv
  BY BridgeAssumption DEF BridgeInv, TypeOK
<1>1. /\ channel' \in [Conn -> Seq(Message)]
      /\ \A c \in Conn : Len(channel'[c]) <= WriteCap
  <2>1. \/ \E c \in Conn : \/ \E m : Send(c, m)
                           \/ Write(c) \/ WriteError(c)
        \/ \E c, m : Send(c, m) /\ c \notin Conn
        \/ channel' = channel
    BY ZenonT(60) DEF Next, vars, SessionStep, ReadStep, WireStep, CallerStep, wireVars,
       SendRegistrationAck, Snapshot, Replay, FinishRegistration, Correlate, Emit, Unroute,
       Unregister, Farewell, Register, Report, ReadTaskAck, EndOfStream, Dial,
       Close, Lose, SendTask, Enqueue, Deliver, Unblock, SendAlertAck, SendOrWait, Consume,
       Tick
  <2>2. ASSUME NEW c \in Conn
        PROVE  channel'[c] \in Seq(Message)
    <3>1. DeliveredInv'
      BY DeliveredInvStep
    <3>2. channel'[c] \in Seq(Sendable(c)')
      BY <3>1 DEF DeliveredInv
    <3> QED BY <3>2 DEF Sendable
  <2>3. DOMAIN channel' = Conn /\ channel' = [c \in Conn |-> channel'[c]]
    BY <1>0, <2>1 DEF Send, Write, WriteError
  <2>4. ASSUME NEW c \in Conn PROVE Len(channel'[c]) <= WriteCap
    <3>1. ASSUME NEW d, NEW m, Send(d, m) PROVE Len(channel'[c]) <= WriteCap
      <4>1. CASE channel' = channel
        BY <1>0, <4>1
      <4>2. CASE channel' # channel
        <5>1. /\ writing[d] /\ Len(channel[d]) < WriteCap
              /\ channel' = [channel EXCEPT ![d] = Append(@, m)]
          BY <3>1, <4>2 DEF Send, CanSend
        <5>2. CASE d = c
          <6>1. channel'[c] = Append(channel[c], m) /\ Len(Append(channel[c], m)) = Len(channel[c]) + 1
            BY <1>0, <5>1, <5>2
          <6> QED BY <1>0, <5>1, <5>2, <6>1
        <5>3. CASE d # c
          BY <1>0, <5>1, <5>3
        <5> QED BY <5>2, <5>3
      <4> QED BY <4>1, <4>2
    <3>2. ASSUME NEW d \in Conn, Write(d) PROVE Len(channel'[c]) <= WriteCap
      <4>1. channel[d] # << >> /\ channel' = [channel EXCEPT ![d] = Tail(@)]
        BY <3>2 DEF Write
      <4>2. channel[d] \in Seq(Message) /\ Len(Tail(channel[d])) = Len(channel[d]) - 1
            /\ Len(channel[d]) \in Nat
        BY <1>0, <4>1
      <4>3. channel'[c] = IF c = d THEN Tail(channel[d]) ELSE channel[c]
        BY <1>0, <4>1
      <4> QED BY <1>0, <4>2, <4>3
    <3>3. ASSUME NEW d \in Conn, WriteError(d) PROVE Len(channel'[c]) <= WriteCap
      BY <1>0, <3>3 DEF WriteError
    <3> QED BY <1>0, <2>1, <3>1, <3>2, <3>3
  <2> QED BY <2>2, <2>3, <2>4
<1>2. writing' \in [Conn -> BOOLEAN]
  BY <1>0, VariableSteps
<1>3. peer' \in [Conn -> {"none", "open", "gone"}]
  BY <1>0, VariableSteps
<1>4. got' \subseteq Task /\ heard' \in [Conn -> SUBSET Task]
  <2>1. ASSUME NEW c \in Conn, Write(c) PROVE got' \subseteq Task /\ heard' \in [Conn -> SUBSET Task]
    <3>1. channel[c] # << >> /\ channel[c] \in Seq(Message)
      BY <1>0, <2>1 DEF Write
    <3>2. Head(channel[c]) \in Message
      BY <3>1
    <3>3. Head(channel[c]).kind = "Task" => Head(channel[c]).task \in Task
      BY <3>2, TaskMessageFields, AckFields DEF Message
    <3> QED BY <1>0, <2>1, <3>3 DEF Write
  <2>2. ASSUME NEW c \in Conn, Dial(c) \/ Close(c)
        PROVE  got' \subseteq Task /\ heard' \in [Conn -> SUBSET Task]
    <3>1. PICK told \in SUBSET got : got' = got /\ heard' = [heard EXCEPT ![c] = told]
      BY <2>2 DEF Dial, Close
    <3> QED BY <1>0, <3>1
  <2>3. \/ \E c \in Conn : Write(c) \/ Dial(c) \/ Close(c)
        \/ got' = got /\ heard' = heard
    BY ZenonT(60) DEF Next, vars, SessionStep, ReadStep, WireStep, CallerStep, wireVars,
       SendRegistrationAck, Snapshot, Replay, FinishRegistration, Correlate, Emit, Unroute,
       Unregister, Farewell, Register, Report, ReadTaskAck, EndOfStream,
       WriteError, Lose, SendTask, Enqueue, Deliver, Unblock, SendAlertAck, Consume,
       Tick
  <2> QED BY <1>0, <2>1, <2>2, <2>3
<1>5. offered' \in [Conn -> SUBSET Task]
  <2>1. ASSUME NEW c \in Conn, Replay(c) PROVE offered' \in [Conn -> SUBSET Task]
    <3>1. Placed(pending[c]) /\ pending[c] # {}
      BY <1>0, <2>1 DEF Replay, SessionInv, SessionFits
    <3>2. Oldest(pending[c]).task \in Task
      BY <3>1, OldestExists DEF Placed, Entry
    <3> QED BY <1>0, <2>1, <3>2 DEF Replay, Offer
  <2>2. ASSUME NEW p \in Caller, Deliver(p) \/ Unblock(p)
        PROVE  offered' \in [Conn -> SUBSET Task]
    <3>1. message[p].task \in Task \union {NoTask}
      <4>1. \/ \E t \in Task : message[p] = TaskMessage(t)
            \/ \E n \in Node : message[p] = AlertAck(n)
        <5>1. caller[p] \in {"deliver", "blocked"}
          BY <2>2 DEF Deliver, Unblock
        <5>2. CallerFits(p)
          BY <1>0 DEF CallerInv
        <5> QED BY <5>1, <5>2 DEF CallerFits
      <4> QED BY <4>1, TaskMessageFields, AckFields
    <3>2. (\E c : Offer(c, {message[p].task} \ {NoTask})) \/ offered' = offered
      BY <2>2 DEF Deliver, Unblock, SendOrWait
    <3> QED BY <1>0, <3>1, <3>2 DEF Offer
  <2>3. \/ \E c \in Conn : Replay(c) \/ Close(c)
        \/ \E p \in Caller : Deliver(p) \/ Unblock(p)
        \/ offered' = offered
    BY ZenonT(60) DEF Next, vars, SessionStep, ReadStep, WireStep, CallerStep, sessionVars,
       SendRegistrationAck, Snapshot, FinishRegistration, Correlate, Emit, Unroute,
       Unregister, Farewell, Register, Report, ReadTaskAck, EndOfStream, Dial, Write,
       WriteError, Lose, SendTask, SendAlertAck, Enqueue, Consume, Tick
  <2> QED BY <1>0, <2>1, <2>2, <2>3 DEF Close
<1> QED BY <1>1, <1>2, <1>3, <1>4, <1>5

-----------------------------------------------------------------------------
(***************************************************************************)
(* The invariant holds, and what follows from it.                          *)
(***************************************************************************)

LEMMA BridgeInvInit == Init => BridgeInv
<1> SUFFICES ASSUME Init PROVE BridgeInv
  OBVIOUS
<1>0. Owner \in [Conn -> Node] /\ Target \in [Task -> Node]
      /\ WriteCap \in Nat \ {0} /\ UpdateCap \in Nat \ {0}
  BY BridgeAssumption
<1>1. Placed({})
  BY FS_EmptySet DEF Placed
<1>2. TypeOK
  <2>1. /\ queues \in [Node -> SUBSET Entry] /\ \A n \in Node : IsFiniteSet(queues[n])
        /\ commands \subseteq Task /\ connections \in [Node -> Conn \union {NoConn}]
        /\ holder \subseteq Caller /\ registry \subseteq Node /\ backlog \in 0..UpdateCap
    BY <1>0, FS_EmptySet DEF Init
  <2>2. /\ session \in [Conn -> SessionState] /\ registered \in [Conn -> BOOLEAN]
        /\ pending \in [Conn -> SUBSET Entry] /\ update \in [Conn -> Update \union {NoUpdate}]
    BY DEF Init, SessionState
  <2>3. /\ channel \in [Conn -> Seq(Message)] /\ \A c \in Conn : Len(channel[c]) <= WriteCap
        /\ writing \in [Conn -> BOOLEAN]
    BY <1>0 DEF Init
  <2>4. /\ caller \in [Caller -> {"idle", "enqueue", "deliver", "blocked"}]
        /\ message \in [Caller -> Message \union {NoMessage}]
        /\ peer \in [Conn -> {"none", "open", "gone"}] /\ now \in Nat
        /\ life \in [Task -> {"new", "sending", "queued", "acked", "expired", "evicted"}]
        /\ got \subseteq Task /\ heard \in [Conn -> SUBSET Task]
        /\ offered \in [Conn -> SUBSET Task] /\ reported \subseteq Task /\ faults \in Nat
    BY DEF Init
  <2> QED BY <2>1, <2>2, <2>3, <2>4 DEF TypeOK
<1>3. QueueInv
  BY <1>1 DEF Init, QueueInv
<1>4. CallerInv
  BY DEF Init, CallerInv, CallerFits
<1>5. SessionInv
  BY <1>1 DEF Init, SessionInv, SessionFits
<1>6. DeliveredInv
  BY DEF Init, DeliveredInv
<1>7. CommandInv
  BY BridgeAssumption DEF Init, CommandInv, CommandGoesWithTask
<1>8. NoDanglingConnection /\ QueuedTaskIsOffered
  BY DEF Init, NoDanglingConnection, QueuedTaskIsOffered
<1> QED BY <1>2, <1>3, <1>4, <1>5, <1>6, <1>7, <1>8 DEF BridgeInv

LEMMA BridgeInvStep == BridgeInv /\ [Next]_vars => BridgeInv'
<1> SUFFICES ASSUME BridgeInv, [Next]_vars PROVE BridgeInv'
  OBVIOUS
<1>1. TypeOK'
  BY QueueTypeStep, SharedTypeStep, CallerTypeStep, SessionTypeStep, WireTypeStep, LifeSteps
     DEF TypeOK
<1> QED BY <1>1, QueueInvStep, CallerInvStep, SessionInvStep, DeliveredInvStep, CommandInvStep,
           NoDanglingStep, QueuedTaskIsOfferedStep DEF BridgeInv

LEMMA BridgeInvariant == Spec => []BridgeInv
BY BridgeInvInit, BridgeInvStep, PTL DEF Spec

\* Every variable of the bridge keeps its type, the channels their capacity.
THEOREM BridgeTypeCorrect == Spec => []TypeOK
<1>1. BridgeInv => TypeOK
  BY DEF BridgeInv
<1> QED BY <1>1, BridgeInvariant, PTL

\* The connections map never leads a sender to a connection that has cleaned
\* up, or to a slot in the hands of somebody who has not registered.
THEOREM ConnectionsNeverDangle == Spec => []NoDanglingConnection
<1>1. BridgeInv => NoDanglingConnection
  BY DEF BridgeInv
<1> QED BY <1>1, BridgeInvariant, PTL

\* Between the replay of a registration and the immediate send of send_task no
\* queued task falls through.
THEOREM QueuedTasksAreOffered == Spec => []QueuedTaskIsOffered
<1>1. BridgeInv => QueuedTaskIsOffered
  BY DEF BridgeInv
<1> QED BY <1>1, BridgeInvariant, PTL

\* task_commands remembers a command as long as its task needs it, and no
\* longer; an acknowledged task's command reaches the consumer.
THEOREM CommandsGoWithTasks == Spec => []CommandGoesWithTask
<1>1. BridgeInv => CommandGoesWithTask
  BY DEF BridgeInv, CommandInv
<1> QED BY <1>1, BridgeInvariant, PTL

-----------------------------------------------------------------------------

LEMMA NoGhostStep ==
  ASSUME ~EarlyTelemetry, BridgeInv, NoGhostNode, [Next]_vars
  PROVE  NoGhostNode'
<1> SUFFICES ASSUME NEW n \in registry'
             PROVE  \E c \in Conn : /\ Owner[c] = n /\ registered'[c]
                                    /\ session'[c] \notin {"closed", "farewell", "ended"}
  BY DEF NoGhostNode
<1>0. /\ TypeOK /\ SessionInv
      /\ session \in [Conn -> SessionState] /\ registered \in [Conn -> BOOLEAN]
  BY DEF BridgeInv, TypeOK
<1>1. CASE n \notin registry
  <2>1. (\E c \in Conn : FinishRegistration(c) \/ Report(c)) \/ registry' \subseteq registry
    BY ZenonT(60) DEF Next, vars, SessionStep, ReadStep, WireStep, CallerStep, sharedVars,
       SendRegistrationAck, Snapshot, Replay, Correlate, Emit, Unroute, Unregister, Farewell,
       Register, ReadTaskAck, EndOfStream, Dial, Write, WriteError, Close, Lose, SendTask,
       Enqueue, Deliver, Unblock, SendAlertAck, Consume, Tick
  <2>2. PICK c \in Conn : FinishRegistration(c) \/ Report(c)
    BY <1>1, <2>1
  <2>3. registry' \subseteq registry \union {Owner[c]}
    BY <2>2 DEF FinishRegistration, Report
  <2>4. Owner[c] = n
    BY <1>1, <2>3
  <2>5. registered'[c] /\ session'[c] = "emit"
    BY <1>0, <2>2 DEF FinishRegistration, Report, Go, SessionInv, SessionFits
  <2> QED BY <2>4, <2>5
<1>2. CASE n \in registry
  <2>1. PICK c \in Conn : /\ Owner[c] = n /\ registered[c]
                          /\ session[c] \notin {"closed", "farewell", "ended"}
    BY <1>2 DEF NoGhostNode
  <2>2. ~Unregister(c)
    BY <2>1 DEF Unregister
  <2>3. registered'[c] /\ session'[c] \notin {"closed", "farewell", "ended"}
    BY <1>0, <2>1, <2>2, SessionSteps
       DEF Dial, Register, SendRegistrationAck, Snapshot, Replay, FinishRegistration, Report,
           ReadTaskAck, Correlate, Emit, EndOfStream, Unroute, Farewell, Close, Go, AfterLoop,
           sessionVars
  <2> QED BY <2>1, <2>3
<1> QED BY <1>1, <1>2

\* With DLMMs that register before they report, a node that is in the registry
\* has a connection whose clean up is still to come.
THEOREM NoGhosts ==
  ASSUME ~EarlyTelemetry
  PROVE  Spec => []NoGhostNode
<1>1. Init => NoGhostNode
  BY DEF Init, NoGhostNode
<1>2. BridgeInv /\ NoGhostNode /\ [Next]_vars => NoGhostNode'
  BY NoGhostStep
<1> QED BY <1>1, <1>2, BridgeInvariant, PTL DEF Spec

-----------------------------------------------------------------------------
(***************************************************************************)
(* Bridge implements TaskDelivery.                                         *)
(***************************************************************************)

\* What TaskDelivery sees of a task is a function of its life alone.
FateOf(l) == IF l = "sending" THEN "new" ELSE IF l = "queued" THEN "pending" ELSE l

LEMMA FateFollowsLife ==
  ASSUME QueueInv
  PROVE  TaskFate = [t \in Task |-> FateOf(life[t])]
<1>1. \A t \in Task : t \in TasksOf(queues[Target[t]]) <=> life[t] = "queued"
  BY BridgeAssumption DEF QueueInv, TasksOf
<1> QED BY <1>1 DEF TaskFate, FateOf

LEMMA FateFollowsLifeNext ==
  ASSUME QueueInv'
  PROVE  TaskFate' = [t \in Task |-> FateOf(life'[t])]
<1>1. \A t \in Task : t \in TasksOf(queues'[Target[t]]) <=> life'[t] = "queued"
  BY BridgeAssumption DEF QueueInv, TasksOf
<1> QED BY <1>1 DEF TaskFate, FateOf

\* The instance counts as this module does.
LEMMA SameCardinality == ASSUME NEW S PROVE Delivery!Cardinality(S) = Cardinality(S)
BY DEF Delivery!Cardinality, Cardinality

LEMMA DeliveryInitially == Init => Delivery!DeliveryInit
<1> SUFFICES ASSUME Init PROVE Delivery!DeliveryInit
  OBVIOUS
<1>1. QueueInv
  BY BridgeInvInit DEF BridgeInv
<1>2. TaskFate = [t \in Task |-> "new"]
  BY <1>1, FateFollowsLife DEF Init, FateOf
<1>3. got = {}
  BY DEF Init
<1> QED BY <1>2, <1>3 DEF Delivery!DeliveryInit

\* Every step of the bridge is a step of the delivery, or none.
LEMMA DeliveryStep ==
  ASSUME BridgeInv, [Next]_vars
  PROVE  [Delivery!DeliveryNext]_(Delivery!deliveryVars)
<1>0. /\ TypeOK /\ QueueInv /\ CallerInv /\ DeliveredInv
      /\ got \subseteq Task
      /\ life \in [Task -> {"new", "sending", "queued", "acked", "expired", "evicted"}]
      /\ QueueInv'
  BY QueueInvStep DEF BridgeInv, TypeOK
<1>1. /\ TaskFate = [t \in Task |-> FateOf(life[t])]
      /\ TaskFate' = [t \in Task |-> FateOf(life'[t])]
  BY <1>0, FateFollowsLife, FateFollowsLifeNext
<1>2. ASSUME NEW c \in Conn, Snapshot(c)
      PROVE  Delivery!Expire(DrainedTasks(queues, now)) /\ DrainedTasks(queues, now) \in SUBSET Task
  <2>1. /\ got' = got
        /\ life' = [t \in Task |-> IF t \in DrainedTasks(queues, now) THEN "expired" ELSE life[t]]
    BY <1>2 DEF Snapshot, Settle, wireVars
  <2>2. \A t \in DrainedTasks(queues, now) : t \in Task /\ life[t] = "queued"
    BY <1>0, DrainEffect
  <2> QED BY <1>1, <2>1, <2>2 DEF Delivery!Expire, Delivery!Become, FateOf
<1>3. ASSUME NEW c \in Conn, NEW t \in Task, NEW s \in AckStatus, ReadTaskAck(c, t, s)
      PROVE  Delivery!Acknowledge(t) \/ UNCHANGED << TaskFate, got >>
  <2>1. /\ t \in got /\ got' = got
    BY <1>0, <1>3 DEF ReadTaskAck, DeliveredInv, wireVars
  <2>2. life' = [u \in Task |-> IF u = t /\ life[t] = "queued" THEN "acked" ELSE life[u]]
    BY <1>0, <1>3, TaskAckEffect
  <2>3. CASE life[t] = "queued"
    BY <1>1, <2>1, <2>2, <2>3 DEF Delivery!Acknowledge, Delivery!Become, FateOf
  <2>4. CASE life[t] # "queued"
    BY <1>0, <1>1, <2>1, <2>2, <2>4
  <2> QED BY <2>3, <2>4
<1>4. ASSUME NEW p \in Caller, NEW t \in Task, SendTask(p, t)
      PROVE  UNCHANGED << TaskFate, got >>
  <2>1. life[t] = "new" /\ life' = [life EXCEPT ![t] = "sending"] /\ got' = got
    BY <1>4 DEF SendTask, wireVars
  <2> QED BY <1>0, <1>1, <2>1 DEF FateOf
<1>5. ASSUME NEW p \in Caller, Enqueue(p)
      PROVE  \E t \in Task, old, victim \in SUBSET Task : Delivery!Accept(t, old, victim)
  <2>1. PICK t \in Task, entry \in Entry, evicted \in SUBSET Task : PutIn(t, entry, evicted)
    BY <1>0, <1>5, EnqueueEffect
  <2> DEFINE old == DrainedTasks(queues, now)
             q == Drained(queues, now)[Target[t]]
  <2>2. /\ old \in SUBSET Task
        /\ \A u \in old : life[u] = "queued"
    BY <1>0, DrainEffect
  <2>3. /\ life[t] = "sending"
        /\ evicted = TasksOf(Evicted(q)) /\ evicted \intersect old = {}
        /\ \A u \in evicted : life[u] = "queued" /\ Target[u] = Target[t]
        /\ life' = [u \in Task |-> IF u = t THEN "queued"
                                   ELSE IF u \in old THEN "expired"
                                   ELSE IF u \in evicted THEN "evicted"
                                   ELSE life[u]]
    BY <2>1 DEF PutIn
  <2>4. got' = got
    BY <1>5 DEF Enqueue, wireVars
  <2>5. Target[t] \in Node /\ Placed(q) /\ q \subseteq queues[Target[t]]
    BY <1>0, DrainEffect, BridgeAssumption
  <2>6. evicted # {} => /\ Cardinality(evicted) = 1
                        /\ evicted \subseteq Delivery!Pending(Target[t])
                        /\ Cardinality(Delivery!Pending(Target[t]) \ old) >= MaxDepth
    <3> SUFFICES ASSUME evicted # {}
                 PROVE  /\ Cardinality(evicted) = 1
                        /\ evicted \subseteq Delivery!Pending(Target[t])
                        /\ Cardinality(Delivery!Pending(Target[t]) \ old) >= MaxDepth
      OBVIOUS
    <3>1. Evicted(q) = {Oldest(q)} /\ Cardinality(q) >= MaxDepth
      BY <2>3 DEF Evicted, TasksOf
    <3>2. Cardinality(evicted) = 1
      <4>1. evicted = {Oldest(q).task}
        BY <2>3, <3>1 DEF TasksOf
      <4> QED BY <4>1, FS_Singleton
    <3>3. evicted \subseteq Delivery!Pending(Target[t])
      BY <1>1, <2>3 DEF Delivery!Pending, FateOf
    <3>4. Delivery!Pending(Target[t]) \ old = TasksOf(q)
      <4>1. \A e \in queues[Target[t]] : e \in q <=> e.task \notin old
        BY <1>0, <2>5, DrainEffect
      <4>2. \A u \in Task : u \in Delivery!Pending(Target[t])
                              <=> life[u] = "queued" /\ Target[u] = Target[t]
        BY <1>0, <1>1 DEF Delivery!Pending, FateOf
      <4>3. \A u \in Task : u \in Delivery!Pending(Target[t])
                              <=> u \in TasksOf(queues[Target[t]])
        BY <1>0, <2>5, <4>2 DEF QueueInv, TasksOf
      <4>4. \A e \in queues[Target[t]] : e.task \in Task
        BY <1>0, <2>5 DEF QueueInv, Placed, Entry
      <4> HIDE DEF old, q
      <4> QED BY <2>5, <4>1, <4>3, <4>4 DEF TasksOf, Delivery!Pending
    <3>5. Cardinality(TasksOf(q)) = Cardinality(q)
      <4> DEFINE f == [e \in q |-> e.task]
      <4>1. f \in Bijection(q, TasksOf(q))
        BY <1>0, <2>5 DEF QueueInv, TasksOf, Bijection, Injection, Surjection, IsInjective
      <4>2. IsFiniteSet(q)
        BY <2>5 DEF Placed
      <4> HIDE DEF f, q
      <4> QED BY <4>1, <4>2, FS_Bijection DEF ExistsBijection
    <3> QED BY <3>1, <3>2, <3>3, <3>4, <3>5
  <2>7. Delivery!Accept(t, old, evicted)
    <3>1. /\ TaskFate[t] = "new"
          /\ \A u \in old \union evicted : TaskFate[u] = "pending"
      BY <1>1, <2>2, <2>3 DEF FateOf
    <3>2. TaskFate' = [u \in Task |-> IF u = t THEN "pending"
                                      ELSE IF u \in old THEN "expired"
                                      ELSE IF u \in evicted THEN "evicted"
                                      ELSE TaskFate[u]]
      BY <1>1, <2>3 DEF FateOf
    <3> HIDE DEF old
    <3> QED BY <2>3, <2>4, <2>6, <3>1, <3>2, SameCardinality DEF Delivery!Accept
  <2> HIDE DEF old
  <2> QED BY <2>2, <2>7
<1>6. ASSUME NEW c \in Conn, Write(c)
      PROVE  (\E t \in Task : Delivery!Receive(t)) \/ UNCHANGED << TaskFate, got >>
  <2> DEFINE m == Head(channel[c])
  <2>1. channel[c] # << >> /\ life' = life /\ channel[c] \in Seq(Sendable(c))
    BY <1>0, <1>6 DEF Write, queueVars, DeliveredInv
  <2>2. m \in Sendable(c)
    BY <2>1
  <2>3. m.kind = "Task" => m.task \in Task /\ Accepted(m.task)
    BY <2>2, TaskMessageFields, AckFields DEF Sendable, Message
  <2>4. TaskFate' = TaskFate
    BY <1>1, <2>1
  <2>5. CASE m.kind = "Task" /\ peer[c] = "open"
    <3>1. got' = got \union {m.task} /\ m.task \in Task /\ Accepted(m.task)
      BY <1>6, <2>3, <2>5 DEF Write
    <3>2. TaskFate[m.task] # "new"
      BY <1>1, <3>1 DEF FateOf, Accepted
    <3> QED BY <2>4, <3>1, <3>2 DEF Delivery!Receive
  <2>6. CASE ~(m.kind = "Task" /\ peer[c] = "open")
    <3>1. got' = got
      BY <1>6, <2>6 DEF Write
    <3> QED BY <2>4, <3>1
  <2> QED BY <2>5, <2>6
<1>7. CASE UNCHANGED << queues, life, got >>
  BY <1>1, <1>7 DEF Delivery!deliveryVars
<1>8. UNCHANGED << TaskFate, got >> => UNCHANGED Delivery!deliveryVars
  BY DEF Delivery!deliveryVars
<1>9. (\E c \in Conn : Write(c)) \/ got' = got
  BY ZenonT(60) DEF Next, vars, SessionStep, ReadStep, WireStep, CallerStep, wireVars,
     SendRegistrationAck, Snapshot, Replay, FinishRegistration, Correlate, Emit, Unroute,
     Unregister, Farewell, Register, Report, ReadTaskAck, EndOfStream, Dial,
     WriteError, Close, Lose, SendTask, Enqueue, Deliver, Unblock, SendAlertAck, Consume, Tick
<1>10. CASE \E c \in Conn : Write(c)
  <2>1. PICK c \in Conn : Write(c)
    BY <1>10
  <2>2. CASE \E t \in Task : Delivery!Receive(t)
    BY <2>2 DEF Delivery!DeliveryNext
  <2>3. CASE UNCHANGED << TaskFate, got >>
    BY <1>8, <2>3
  <2> QED BY <1>6, <2>1, <2>2, <2>3
<1>11. CASE got' = got
  <2>1. CASE UNCHANGED << queues, life >>
    BY <1>7, <1>8, <1>11, <2>1
  <2>2. ASSUME NEW c \in Conn, Snapshot(c)
        PROVE  [Delivery!DeliveryNext]_(Delivery!deliveryVars)
    BY <1>2, <2>2 DEF Delivery!DeliveryNext
  <2>3. ASSUME NEW c \in Conn, NEW t \in Task, NEW s \in AckStatus, ReadTaskAck(c, t, s)
        PROVE  [Delivery!DeliveryNext]_(Delivery!deliveryVars)
    BY <1>3, <1>8, <2>3 DEF Delivery!DeliveryNext
  <2>4. ASSUME NEW p \in Caller, Enqueue(p)
        PROVE  [Delivery!DeliveryNext]_(Delivery!deliveryVars)
    BY <1>5, <2>4 DEF Delivery!DeliveryNext
  <2>5. ASSUME NEW p \in Caller, NEW t \in Task, SendTask(p, t)
        PROVE  [Delivery!DeliveryNext]_(Delivery!deliveryVars)
    BY <1>4, <1>8, <2>5
  <2> QED BY <2>1, <2>2, <2>3, <2>4, <2>5, QueueSteps
<1> QED BY <1>9, <1>10, <1>11

\* A task the bridge was asked to send stays pending until it is acknowledged
\* by a DLMM that received it, its time is over, or a newer task needs its
\* place: whatever the connections do, the bridge implements TaskDelivery.
THEOREM BridgeDelivers == Spec => DeliversTasks
<1>1. Init => Delivery!DeliveryInit
  BY DeliveryInitially
<1>2. BridgeInv /\ [Next]_vars => [Delivery!DeliveryNext]_(Delivery!deliveryVars)
  BY DeliveryStep
<1> QED BY <1>1, <1>2, BridgeInvariant, PTL DEF Spec, DeliversTasks, Delivery!DeliverySpec

=============================================================================
