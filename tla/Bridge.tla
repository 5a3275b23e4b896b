-------------------------------- MODULE Bridge --------------------------------
(***************************************************************************)
(* SapientBridge (peat-sapient/src/bridge.rs): the HLDMM side of SAPIENT.  *)
(*                                                                         *)
(* One run_connection task per accepted TCP connection, the writer task it *)
(* spawns, the callers of send_task and send_alert_ack, the consumer of    *)
(* the update channel and the DLMMs at the other end, interleaved at the   *)
(* await points: an action is what one task does between two of them. A    *)
(* mutex is modelled where it is held across an await (connections, while  *)
(* a send waits for room); elsewhere the critical section is one action.   *)
(*                                                                         *)
(* A connection c is a slot that one DLMM, Owner[c], dials again and       *)
(* again. A DLMM that loses a connection dials another slot at once: the   *)
(* bridge may still be serving the old one.                                *)
(***************************************************************************)
EXTENDS TaskQueueOps, Sequences

CONSTANTS
  Conn,           \* connection slots
  Owner,          \* [Conn -> Node]: the DLMM that dials the slot
  Caller,         \* application tasks that call send_task, send_alert_ack
  Target,         \* [Task -> Node]: the DLMM the task is sent to
  Commanded,      \* tasks sent with Some(command_id)
  AckStatus,      \* the TaskAckStatus values DLMMs answer with
  Alerting,       \* DLMMs whose alerts the application acknowledges
  WriteCap,       \* capacity of a connection's write channel (64)
  UpdateCap,      \* capacity of the update channel (256)
  EarlyTelemetry, \* may a DLMM report before it has registered?
  NoConn, NoTask,
  MaxNow,         \* bound of the clock, for TLC
  MaxFaults       \* bound of the losses of a connection, for TLC

ASSUME BridgeAssumption ==
  /\ Owner \in [Conn -> Node]
  /\ Target \in [Task -> Node]
  /\ Commanded \subseteq Task
  /\ Alerting \subseteq Node
  /\ AckStatus \subseteq {"Accepted", "Rejected", "Completed", "Failed"}
  /\ WriteCap \in Nat \ {0} /\ UpdateCap \in Nat \ {0}
  /\ EarlyTelemetry \in BOOLEAN
  /\ NoConn \notin Conn /\ NoTask \notin Task

VARIABLES
  queues,       \* BridgeInner::task_queue
  commands,     \* BridgeInner::task_commands, its keys
  connections,  \* BridgeInner::connections, NoConn where there is no entry
  holder,       \* callers that hold the connections mutex across an await
  registry,     \* BridgeInner::registry, its keys
  backlog,      \* how many updates wait in the update channel
  session,      \* where run_connection stands
  registered,   \* run_connection's registered_node_id.is_some()
  pending,      \* run_connection's `pending`: the entries still to replay
  update,       \* run_connection's `update`, while it is to be sent
  channel,      \* the write channel
  writing,      \* is the writer task running?
  caller,       \* where a caller stands in send_task or send_alert_ack
  message,      \* the message it sends
  peer,         \* the DLMM's end of the connection
  now           \* tokio's Instant::now()

(***************************************************************************)
(* What the environment and the properties need to remember.               *)
(***************************************************************************)
VARIABLES
  life,         \* what has become of a task
  got,          \* the tasks the DLMMs have received
  heard,        \* those of them a connection's acknowledgements may name
  offered,      \* the tasks given to a connection's write channel
  reported,     \* the tasks whose command_id the consumer was told of
  faults        \* connections lost so far

queueVars == << queues, commands, life >>
sessionVars == << session, registered, pending, update, offered >>
wireVars == << channel, writing, peer, got, heard >>
callerVars == << caller, message, holder >>
sharedVars == << connections, registry, backlog, reported >>
clockVars == << now, faults >>
vars == << queueVars, sessionVars, wireVars, callerVars, sharedVars, clockVars >>

-----------------------------------------------------------------------------

\* The outbound SapientMessages: content, and destination_id.
RegistrationAck(n) == [kind |-> "RegistrationAck", task |-> NoTask, to |-> n]
AlertAck(n) == [kind |-> "AlertAck", task |-> NoTask, to |-> n]
TaskMessage(t) == [kind |-> "Task", task |-> t, to |-> Target[t]]
NoMessage == [kind |-> "none", task |-> NoTask]

\* SapientUpdate, as far as anything here depends on it: "Telemetry" stands
\* for every variant that carries no more than the node's own data.
Telemetry(n) ==
  [kind |-> "Telemetry", node |-> n, task |-> NoTask, status |-> "none",
   command |-> FALSE]
TaskAcknowledged(n, t, status, command) ==
  [kind |-> "TaskAcknowledged", node |-> n, task |-> t, status |-> status,
   command |-> command]
NoUpdate == [kind |-> "none"]

Init ==
  /\ queues = [n \in Node |-> {}]
  /\ commands = {}
  /\ connections = [n \in Node |-> NoConn]
  /\ holder = {}
  /\ registry = {}
  /\ backlog = 0
  /\ session = [c \in Conn |-> "closed"]
  /\ registered = [c \in Conn |-> FALSE]
  /\ pending = [c \in Conn |-> {}]
  /\ update = [c \in Conn |-> NoUpdate]
  /\ channel = [c \in Conn |-> << >>]
  /\ writing = [c \in Conn |-> FALSE]
  /\ caller = [p \in Caller |-> "idle"]
  /\ message = [p \in Caller |-> NoMessage]
  /\ peer = [c \in Conn |-> "none"]
  /\ now = 0
  /\ life = [t \in Task |-> "new"]
  /\ got = {}
  /\ heard = [c \in Conn |-> {}]
  /\ offered = [c \in Conn |-> {}]
  /\ reported = {}
  /\ faults = 0

-----------------------------------------------------------------------------
(***************************************************************************)
(* The write channel. A send waits for room; once the writer task is gone  *)
(* the receiver is dropped, and a send fails at once, its error ignored.   *)
(***************************************************************************)

\* An unbounded channel.
AlwaysRoom(c) == TRUE

CanSend(c) == writing[c] => Len(channel[c]) < WriteCap

Send(c, m) ==
  /\ CanSend(c)
  /\ channel' = IF writing[c] THEN [channel EXCEPT ![c] = Append(@, m)] ELSE channel

\* update_tx.send: the update channel has room for one more.
SendUpdate == backlog < UpdateCap /\ backlog' = backlog + 1

Offer(c, tasks) == offered' = [offered EXCEPT ![c] = @ \union tasks]

Settle(tasks, fate) == [t \in Task |-> IF t \in tasks THEN fate ELSE life[t]]

Go(c, from, to) ==
  /\ session[c] = from
  /\ session' = [session EXCEPT ![c] = to]

(***************************************************************************)
(* run_connection.                                                         *)
(***************************************************************************)

\* A DLMM dials, and the accept loop spawns run_connection, which spawns its
\* writer. The DLMM has given up any earlier connection of its own.
Dial(c) ==
  /\ Go(c, "closed", "read")
  /\ \A d \in Conn : Owner[d] = Owner[c] => peer[d] # "open"
  /\ peer' = [peer EXCEPT ![c] = "open"]
  /\ writing' = [writing EXCEPT ![c] = TRUE]
  /\ heard' = [heard EXCEPT ![c] = { t \in got : Target[t] = Owner[c] }]
  /\ UNCHANGED << queueVars, registered, pending, update, offered, channel, got,
                  callerVars, sharedVars, clockVars >>

\* The first Registration of the connection: the connection takes the node's
\* entry, whatever stood there.
Register(c) ==
  /\ Go(c, "read", "acknowledge")
  /\ ~registered[c]
  /\ holder = {}
  /\ registered' = [registered EXCEPT ![c] = TRUE]
  /\ connections' = [connections EXCEPT ![Owner[c]] = c]
  /\ UNCHANGED << queueVars, pending, update, offered, wireVars, callerVars,
                  registry, backlog, reported, clockVars >>

SendRegistrationAck(c) ==
  /\ Go(c, "acknowledge", "snapshot")
  /\ Send(c, RegistrationAck(Owner[c]))
  /\ UNCHANGED << queueVars, registered, pending, update, offered, writing, peer,
                  got, heard, callerVars, sharedVars, clockVars >>

\* Under the task_queue mutex: drain, forget the commands of the drained
\* tasks, and copy what is left of this node's queue.
Snapshot(c) ==
  LET expired == DrainedTasks(queues, now)
  IN  /\ Go(c, "snapshot", "replay")
      /\ queues' = Drained(queues, now)
      /\ commands' = commands \ expired
      /\ life' = Settle(expired, "expired")
      /\ pending' = [pending EXCEPT ![c] = queues'[Owner[c]]]
      /\ UNCHANGED << registered, update, offered, wireVars, callerVars, sharedVars,
                      clockVars >>

\* try_send: what finds no room is dropped.
ReplayWithoutWaiting(c) ==
  LET next == Oldest(pending[c])
  IN  /\ session[c] = "replay"
      /\ pending[c] # {}
      /\ pending' = [pending EXCEPT ![c] = @ \ {next}]
      /\ \/ Send(c, TaskMessage(next.task)) /\ Offer(c, {next.task})
         \/ ~CanSend(c) /\ UNCHANGED << channel, offered >>
      /\ UNCHANGED << queueVars, session, registered, update, writing, peer, got,
                      heard, callerVars, sharedVars, clockVars >>

\* One pending task goes out, in queue order.
Replay(c) ==
  LET next == Oldest(pending[c])
  IN  /\ session[c] = "replay"
      /\ pending[c] # {}
      /\ Send(c, TaskMessage(next.task))
      /\ Offer(c, {next.task})
      /\ pending' = [pending EXCEPT ![c] = @ \ {next}]
      /\ UNCHANGED << queueVars, session, registered, update, writing, peer, got,
                      heard, callerVars, sharedVars, clockVars >>

\* The Registration itself is then routed: upsert, and a Registered update.
FinishRegistration(c) ==
  /\ Go(c, "replay", "emit")
  /\ pending[c] = {}
  /\ registry' = registry \union {Owner[c]}
  /\ update' = [update EXCEPT ![c] = Telemetry(Owner[c])]
  /\ UNCHANGED << queueVars, registered, pending, offered, wireVars, callerVars,
                  connections, backlog, reported, clockVars >>

\* Any other message but a TaskAck. A later Registration, a StatusReport and
\* an accepted DetectionReport upsert the node; an Alert, an AlertAck and
\* what is Ignored do not. A message route_message rejects changes nothing.
Report(c) ==
  /\ Go(c, "read", "emit")
  /\ registered[c] \/ EarlyTelemetry
  /\ \/ registry' = registry \union {Owner[c]}
     \/ UNCHANGED registry
  /\ update' = [update EXCEPT ![c] = Telemetry(Owner[c])]
  /\ UNCHANGED << queueVars, registered, pending, offered, wireVars, callerVars,
                  connections, backlog, reported, clockVars >>

\* A TaskAck for a task this DLMM has received: the queue forgets the task,
\* whatever the status.
ReadTaskAck(c, t, status) ==
  /\ Go(c, "read", "correlate")
  /\ registered[c] \/ EarlyTelemetry
  /\ t \in heard[c]
  /\ queues' = [queues EXCEPT ![Owner[c]] = Acked(@, t)]
  /\ life' = Settle({t} \intersect TasksOf(queues[Owner[c]]), "acked")
  /\ update' = [update EXCEPT ![c] = TaskAcknowledged(Owner[c], t, status, FALSE)]
  /\ UNCHANGED << commands, registered, pending, offered, wireVars, callerVars,
                  sharedVars, clockVars >>

\* The update takes the command_id out of task_commands.
Correlate(c) ==
  LET t == update[c].task
  IN  /\ Go(c, "correlate", "emit")
      /\ update' = [update EXCEPT ![c] =
                      TaskAcknowledged(@.node, t, @.status, t \in commands)]
      /\ commands' = commands \ {t}
      /\ UNCHANGED << queues, life, registered, pending, offered, wireVars,
                      callerVars, sharedVars, clockVars >>

\* The update goes to the consumer, when its channel has room.
Emit(c) ==
  /\ Go(c, "emit", "read")
  /\ SendUpdate
  /\ reported' = IF update[c].command THEN reported \union {update[c].task} ELSE reported
  /\ update' = [update EXCEPT ![c] = NoUpdate]
  /\ UNCHANGED << queueVars, registered, pending, offered, wireVars, callerVars,
                  connections, registry, clockVars >>

\* A frame that cannot be decoded returns at once instead of breaking out of
\* the loop.
ReturnOnError(c) == IF registered[c] /\ peer[c] = "gone" THEN "unroute" ELSE "ended"

\* Behind the read loop: clean up, if the connection has registered.
AfterLoop(c) == IF registered[c] THEN "unroute" ELSE "ended"

\* The read loop ends: the DLMM is gone, or a frame cannot be decoded.
EndOfStream(c) ==
  /\ Go(c, "read", AfterLoop(c))
  /\ \/ peer[c] = "gone" /\ UNCHANGED faults
     \/ peer[c] = "open" /\ faults < MaxFaults /\ faults' = faults + 1
  /\ UNCHANGED << queueVars, registered, pending, update, offered, wireVars,
                  callerVars, sharedVars, now >>

\* Clean up: connections.remove(&nid), which looks at the node id only ...
Unroute(c) ==
  /\ Go(c, "unroute", "unregister")
  /\ holder = {}
  /\ connections' = [connections EXCEPT ![Owner[c]] = NoConn]
  /\ UNCHANGED << queueVars, registered, pending, update, offered, wireVars,
                  callerVars, registry, backlog, reported, clockVars >>

Unregister(c) ==
  /\ Go(c, "unregister", "farewell")
  /\ registry' = registry \ {Owner[c]}
  /\ UNCHANGED << queueVars, registered, pending, update, offered, wireVars,
                  callerVars, connections, backlog, reported, clockVars >>

Farewell(c) ==
  /\ Go(c, "farewell", "ended")
  /\ SendUpdate
  /\ UNCHANGED << queueVars, registered, pending, update, offered, wireVars,
                  callerVars, connections, registry, reported, clockVars >>

(***************************************************************************)
(* The writer task, and the DLMM at the other end of the socket.           *)
(***************************************************************************)

\* The writer takes a message to the socket. It reaches the DLMM, or it is
\* lost in the buffers of a connection nobody reads any more. The write has no
\* time limit: to a DLMM that is connected and does not read it may never come.
Write(c) ==
  LET m == Head(channel[c])
      received == IF m.kind = "Task" /\ peer[c] = "open" THEN {m.task} ELSE {}
  IN  /\ writing[c] /\ channel[c] # << >>
      /\ channel' = [channel EXCEPT ![c] = Tail(@)]
      /\ got' = got \union received
      /\ heard' = [heard EXCEPT ![c] = @ \union received]
      /\ UNCHANGED << queueVars, sessionVars, writing, peer, callerVars, sharedVars,
                      clockVars >>

\* A write to a lost connection fails: the writer stops, and what waits in
\* the channel is dropped with it.
WriteError(c) ==
  /\ writing[c] /\ channel[c] # << >> /\ peer[c] = "gone"
  /\ writing' = [writing EXCEPT ![c] = FALSE]
  /\ channel' = [channel EXCEPT ![c] = << >>]
  /\ UNCHANGED << queueVars, sessionVars, peer, got, heard, callerVars, sharedVars,
                  clockVars >>

\* run_connection has returned and every sender is dropped: the writer ends
\* when the channel is empty, the socket closes, and the slot is free.
Close(c) ==
  /\ Go(c, "ended", "closed")
  /\ channel[c] = << >>
  /\ \A n \in Node : connections[n] # c
  /\ writing' = [writing EXCEPT ![c] = FALSE]
  /\ peer' = [peer EXCEPT ![c] = "none"]
  /\ registered' = [registered EXCEPT ![c] = FALSE]
  /\ heard' = [heard EXCEPT ![c] = {}]
  /\ offered' = [offered EXCEPT ![c] = {}]
  /\ UNCHANGED << queueVars, pending, update, channel, got, callerVars, sharedVars,
                  clockVars >>

\* The DLMM loses the connection: the bridge learns of it when it reads.
Lose(c) ==
  /\ peer[c] = "open"
  /\ faults < MaxFaults
  /\ faults' = faults + 1
  /\ peer' = [peer EXCEPT ![c] = "gone"]
  /\ UNCHANGED << queueVars, sessionVars, channel, writing, got, heard, callerVars,
                  sharedVars, now >>

(***************************************************************************)
(* send_task and send_alert_ack.                                           *)
(***************************************************************************)

\* send_task up to the queue: remember the command the task comes from. Task
\* ids are fresh (transform/task.rs), so a task is sent once.
SendTask(p, t) ==
  /\ caller[p] = "idle"
  /\ life[t] = "new"
  /\ caller' = [caller EXCEPT ![p] = "enqueue"]
  /\ message' = [message EXCEPT ![p] = TaskMessage(t)]
  /\ life' = [life EXCEPT ![t] = "sending"]
  /\ commands' = IF t \in Commanded THEN commands \union {t} ELSE commands
  /\ UNCHANGED << queues, sessionVars, wireVars, holder, sharedVars, clockVars >>

\* send_alert_ack queues nothing: it goes straight to the connections mutex.
SendAlertAck(p, n) ==
  /\ n \in Alerting
  /\ caller[p] = "idle"
  /\ caller' = [caller EXCEPT ![p] = "deliver"]
  /\ message' = [message EXCEPT ![p] = AlertAck(n)]
  /\ UNCHANGED << queueVars, sessionVars, wireVars, holder, sharedVars, clockVars >>

\* Under the task_queue mutex: drain, enqueue, and forget the commands of the
\* drained and of the evicted tasks.
Enqueue(p) ==
  LET t == message[p].task
      n == message[p].to
      drained == Drained(queues, now)
      expired == DrainedTasks(queues, now)
      evicted == TasksOf(Evicted(drained[n]))
  IN  /\ caller[p] = "enqueue"
      /\ caller' = [caller EXCEPT ![p] = "deliver"]
      /\ queues' = [drained EXCEPT ![n] = Enqueued(@, t, now)]
      /\ commands' = commands \ (expired \union evicted)
      /\ life' = [u \in Task |-> IF u = t THEN "queued"
                                 ELSE IF u \in expired THEN "expired"
                                 ELSE IF u \in evicted THEN "evicted"
                                 ELSE life[u]]
      /\ UNCHANGED << sessionVars, wireVars, message, holder, sharedVars, clockVars >>

\* The message of caller p is sent to connection c, or p waits for room there
\* with the connections mutex in its hands.
SendOrWait(p, c, m) ==
  \/ /\ Send(c, m)
     /\ Offer(c, {m.task} \ {NoTask})
     /\ caller' = [caller EXCEPT ![p] = "idle"]
     /\ message' = [message EXCEPT ![p] = NoMessage]
     /\ UNCHANGED holder
  \/ /\ ~CanSend(c)
     /\ caller' = [caller EXCEPT ![p] = "blocked"]
     /\ message' = [message EXCEPT ![p] = m]
     /\ holder' = {p}
     /\ UNCHANGED << channel, offered >>

\* Under the connections mutex, once nobody else has it: look the node up and
\* send at once if it is connected. Without an entry send_task returns Ok, and
\* send_alert_ack NodeNotFound.
Deliver(p) ==
  LET c == connections[message[p].to]
  IN  /\ caller[p] = "deliver"
      /\ holder = {}
      /\ \/ c # NoConn /\ SendOrWait(p, c, message[p])
         \/ /\ c = NoConn
            /\ caller' = [caller EXCEPT ![p] = "idle"]
            /\ message' = [message EXCEPT ![p] = NoMessage]
            /\ UNCHANGED << channel, offered, holder >>
      /\ UNCHANGED << queueVars, session, registered, pending, update, writing, peer,
                      got, heard, sharedVars, clockVars >>

\* The sender is woken without a place of its own: it begins again, and another
\* may have taken the room.
UnblockWithoutPlace(p) ==
  /\ caller[p] = "blocked"
  /\ CanSend(connections[message[p].to])
  /\ caller' = [caller EXCEPT ![p] = "deliver"]
  /\ holder' = {}
  /\ UNCHANGED << queueVars, sessionVars, wireVars, message, sharedVars, clockVars >>

\* There is room at last, or the writer is gone: send, and release the mutex.
Unblock(p) ==
  LET c == connections[message[p].to]
  IN  /\ caller[p] = "blocked"
      /\ Send(c, message[p])
      /\ Offer(c, {message[p].task} \ {NoTask})
      /\ caller' = [caller EXCEPT ![p] = "idle"]
      /\ message' = [message EXCEPT ![p] = NoMessage]
      /\ holder' = {}
      /\ UNCHANGED << queueVars, session, registered, pending, update, writing, peer,
                      got, heard, sharedVars, clockVars >>

\* The consumer of the update channel.
Consume ==
  /\ backlog > 0
  /\ backlog' = backlog - 1
  /\ UNCHANGED << queueVars, sessionVars, wireVars, callerVars, connections, registry,
                  reported, clockVars >>

Tick ==
  /\ now < MaxNow
  /\ now' = now + 1
  /\ UNCHANGED << queueVars, sessionVars, wireVars, callerVars, sharedVars, faults >>

-----------------------------------------------------------------------------

SessionStep(c) ==
  \/ SendRegistrationAck(c) \/ Snapshot(c) \/ Replay(c) \/ FinishRegistration(c)
  \/ Correlate(c) \/ Emit(c)
  \/ Unroute(c) \/ Unregister(c) \/ Farewell(c)

ReadStep(c) ==
  \/ Register(c)
  \/ Report(c)
  \/ \E t \in Task, s \in AckStatus : ReadTaskAck(c, t, s)
  \/ EndOfStream(c)

WireStep(c) == Dial(c) \/ Write(c) \/ WriteError(c) \/ Close(c) \/ Lose(c)

CallerStep(p) ==
  \/ \E t \in Task : SendTask(p, t)
  \/ Enqueue(p) \/ Deliver(p) \/ Unblock(p)
  \/ \E n \in Node : SendAlertAck(p, n)

Next ==
  \/ \E c \in Conn : SessionStep(c) \/ ReadStep(c) \/ WireStep(c)
  \/ \E p \in Caller : CallerStep(p)
  \/ Consume
  \/ Tick

Spec == Init /\ [][Next]_vars

-----------------------------------------------------------------------------
(***************************************************************************)
(* Properties.                                                             *)
(***************************************************************************)

Message ==
  { RegistrationAck(n) : n \in Node } \union { AlertAck(n) : n \in Node }
  \union { TaskMessage(t) : t \in Task }

Update ==
  { Telemetry(n) : n \in Node }
  \union { TaskAcknowledged(n, t, s, b) :
             n \in Node, t \in Task, s \in AckStatus, b \in BOOLEAN }

SessionState ==
  {"closed", "read", "acknowledge", "snapshot", "replay", "correlate", "emit",
   "unroute", "unregister", "farewell", "ended"}

\* Every variable has its type.
TypeOK ==
  /\ queues \in [Node -> SUBSET Entry]
  /\ \A n \in Node : IsFiniteSet(queues[n])
  /\ commands \subseteq Task
  /\ connections \in [Node -> Conn \union {NoConn}]
  /\ holder \subseteq Caller
  /\ registry \subseteq Node
  /\ backlog \in 0..UpdateCap
  /\ session \in [Conn -> SessionState]
  /\ registered \in [Conn -> BOOLEAN]
  /\ pending \in [Conn -> SUBSET Entry]
  /\ update \in [Conn -> Update \union {NoUpdate}]
  /\ channel \in [Conn -> Seq(Message)]
  /\ \A c \in Conn : Len(channel[c]) <= WriteCap
  /\ writing \in [Conn -> BOOLEAN]
  /\ caller \in [Caller -> {"idle", "enqueue", "deliver", "blocked"}]
  /\ message \in [Caller -> Message \union {NoMessage}]
  /\ peer \in [Conn -> {"none", "open", "gone"}]
  /\ now \in Nat
  /\ life \in [Task -> {"new", "sending", "queued", "acked", "expired", "evicted"}]
  /\ got \subseteq Task
  /\ heard \in [Conn -> SUBSET Task]
  /\ offered \in [Conn -> SUBSET Task]
  /\ reported \subseteq Task
  /\ faults \in Nat

\* The connections map never points to a connection whose run_connection has
\* cleaned up, nor to a slot dialled since by someone who has not registered:
\* a send never goes into a channel nobody will read. The unconditional
\* remove of the clean up is what keeps it so (bridge.rs:384-388, 466-468).
NoDanglingConnection ==
  \A n \in Node : connections[n] # NoConn =>
    LET c == connections[n]
    IN  /\ Owner[c] = n
        /\ registered[c]
        /\ session[c] \notin {"closed", "unregister", "farewell", "ended"}

\* No task falls between the replay and the immediate send: whatever is in
\* the queue of a node whose entry has finished its snapshot has been given to
\* that connection, is about to be replayed on it, or is in the hands of a
\* send_task that has yet to look the node up. It takes both orders: connect,
\* then read the queue; enqueue, then look the connection up
\* (bridge.rs:267-286, 384-408).
InHand(t) == \E p \in Caller : caller[p] \in {"deliver", "blocked"} /\ message[p].task = t

QueuedTaskIsOffered ==
  \A n \in Node :
    LET c == connections[n]
    IN  c # NoConn /\ session[c] \notin {"acknowledge", "snapshot"} =>
          \A t \in TasksOf(queues[n]) :
            t \in offered[c] \/ t \in TasksOf(pending[c]) \/ InHand(t)

\* A command_id goes when its task goes, and no sooner: task_commands remembers
\* it only while the task is on its way into the queue, in the queue, or being
\* acknowledged; and an acknowledgement that takes the task out of the queue
\* leads it to the consumer. No drain, eviction or second acknowledgement in
\* between leaks or loses it (bridge.rs:259-280, 395-403, 432-458).
CommandGoesWithTask ==
  /\ \A t \in commands :
       \/ life[t] = "sending"
       \/ t \in TasksOf(queues[Target[t]])
       \/ \E c \in Conn : session[c] = "correlate" /\ update[c].task = t
  /\ \A t \in Commanded :
       life[t] = "acked" =>
         \/ t \in reported
         \/ t \in commands
         \/ \E c \in Conn : update[c].kind = "TaskAcknowledged"
                            /\ update[c].task = t /\ update[c].command

\* A node is in the registry only while some connection of it has its clean up
\* ahead: no ghost of a node survives its last connection, however the clean
\* ups and the messages of overlapping connections interleave
\* (bridge.rs:415-431, 466-475). It needs DLMMs that register first.
NoGhostNode ==
  \A n \in registry :
    \E c \in Conn : /\ Owner[c] = n
                    /\ registered[c]
                    /\ session[c] \notin {"closed", "farewell", "ended"}

\* Bridge implements TaskDelivery: a task is pending while it is in the queue.
TaskFate ==
  [t \in Task |-> IF life[t] = "sending" THEN "new"
                  ELSE IF t \in TasksOf(queues[Target[t]]) THEN "pending"
                  ELSE life[t]]

Delivery ==
  INSTANCE TaskDelivery WITH Depth <- MaxDepth, delivered <- got, fate <- TaskFate

DeliversTasks == Delivery!DeliverySpec

-----------------------------------------------------------------------------
(***************************************************************************)
(* Liveness. Every task of the program takes its next step when it can.    *)
(* tokio serves those that wait for a mutex, and those that wait for room  *)
(* in a channel, in order of arrival: hence strong fairness of the tasks   *)
(* that wait for either. What a lost connection still has to read comes to *)
(* an end, and so does a write to it. A DLMM registers on its connection,  *)
(* and dials again when it is lost; MaxFaults makes the network stable in  *)
(* the end. The consumer takes its updates. Nothing makes a DLMM read what *)
(* the bridge writes: the writer awaits the socket without a time limit    *)
(* (bridge.rs:358-365).                                                    *)
(***************************************************************************)
Fairness ==
  /\ \A c \in Conn :
       /\ SF_vars(Register(c) \/ SessionStep(c))
       /\ SF_vars(peer[c] = "gone" /\ EndOfStream(c))
       /\ WF_vars(Close(c) \/ (peer[c] = "gone" /\ (Write(c) \/ WriteError(c))))
  /\ WF_vars(\E c \in Conn : Dial(c))
  /\ \A p \in Caller : SF_vars(Enqueue(p) \/ Deliver(p) \/ Unblock(p))
  /\ WF_vars(Consume)

FairSpec == Spec /\ Fairness

\* A sender has the connections mutex in its hands and waits for room in the
\* channel of a DLMM that is connected and does not read.
SenderStuck ==
  \E p \in Caller :
    LET c == connections[message[p].to]
    IN  /\ caller[p] = "blocked"
        /\ c # NoConn /\ peer[c] = "open" /\ Len(channel[c]) = WriteCap

\* Only a DLMM that stops reading while a sender waits for it blocks the bridge
\* for good: unless some sender is stuck like that for ever, every send_task and
\* every send_alert_ack returns, also those that wait behind another sender for
\* the connections mutex, and the lost connections are cleaned up, also one a
\* sender waits on (bridge.rs:284-287, 315-317, 358-365, 466-475).
NobodyWaitsForEver ==
  /\ \A p \in Caller : <>[](caller[p] # "idle") => <>[]SenderStuck
  /\ <>[](\E c \in Conn : peer[c] = "gone" /\ session[c] \notin {"ended", "closed"}) =>
       <>[]SenderStuck

\* A task that stays in the queue for ever without reaching its DLMM has one of
\* two reasons: its DLMM has no entry in the connections map for ever, or some
\* connected DLMM never reads what waits for it in its channel. A registered,
\* routed DLMM that reads receives what is queued for it, whatever was lost
\* before (bridge.rs:236-250, 358-365, 384-408).
UndeliveredIsUnroutable ==
  \A t \in Task :
    <>[](life[t] = "queued" /\ t \notin got) =>
      \/ <>[](connections[Target[t]] = NoConn)
      \/ \E c \in Conn : <>[](peer[c] = "open" /\ channel[c] # << >>)

-----------------------------------------------------------------------------
(***************************************************************************)
(* What the documentation says and the code does not do.                   *)
(***************************************************************************)

\* "If the DLMM is currently connected, it is also sent without waiting for
\* the queue" (bridge.rs:238-239): send_task gives the task to a connection
\* on which the DLMM has registered, which is being served, and beside which
\* no other connection of this DLMM is.
Serving(c) ==
  /\ registered[c] /\ peer[c] = "open"
  /\ session[c] \notin {"unroute", "unregister", "farewell", "ended"}
  /\ \A d \in Conn \ {c} : Owner[d] = Owner[c] => session[d] \in {"closed", "ended"}

SentIfConnected ==
  \A p \in Caller, c \in Conn :
    /\ caller[p] = "deliver" /\ caller'[p] = "idle" /\ message[p].kind = "Task"
    /\ Owner[c] = message[p].to
    /\ Serving(c)
    => message[p].task \in offered'[c]
SentIfConnectedProperty == [][SentIfConnected]_vars

=============================================================================
