# A verification of peat-sapient

TLA+ models of `peat-sapient`, checked with TLC. The safety properties are also
proved with TLAPS; liveness is for TLC alone. Paths below are those of the
repository; `bridge.rs` stands for `peat-sapient/src/bridge.rs` and so on.

## 1. The system

SAPIENT (BSI Flex 335 v2) is a sensor protocol: sensors and their managers
(DLMMs) connect over TCP to a high-level manager (HLDMM), register, report
detections and status, and are tasked. The repository holds three crates:
`peat-sapient`, the bridge that plays the HLDMM; `peat-mesh-sapient`, a second,
independent integration that projects SAPIENT traffic into mesh documents and can
also play the DLMM; and `peat-sapient-bridge`, a binary that wires the latter to a
mesh.

### Inventory

| component | state it keeps | operations | what is hard | what makes it correct |
|---|---|---|---|---|
| DIL task queue (`task_queue.rs`) | per node, a deque of (message, task id, instant); depth and TTL | `enqueue` (evicts the front of a full queue), `ack`, `drain_expired`, `pending_for` | bounds at their edge; time moving between calls | bounded; insertion order; no live task lost that no call accounts for |
| bridge (`bridge.rs`) | `connections` (node → write channel), `task_queue`, `task_commands` (task → command), `registry`, the update channel; per connection a reader task and a writer task | `start` (accept loop), `run_connection` (register, replay, route, clean up), `send_task`, `send_alert_ack` | many tasks interleaved at `await` points; a mutex held across an `await`; overlapping connections of one DLMM; bounded channels; lost connections; retries by replay | every queued task reaches a routed DLMM; routes lead to live connections; command ids are neither lost nor leaked; nothing blocks for ever |
| registry (`registry.rs`) | node → capability, position, last seen | `upsert`, `remove`, `get_position` | written by connections and by the watchdog | no ghosts, nothing forgotten |
| watchdog (`watchdog.rs`) | the list of silent nodes of one sweep | a sweep per interval | the sweep is not atomic: it waits between removals, and connections of one node overlap | a silent node is dropped in time; nobody goes but the overdue and those whose connection ends |
| rate limiter (`rate_limit.rs`) | a token bucket per node | `check` | arithmetic at the boundary, over long silences and reconnects | the burst and the rate are never exceeded, in any window |
| codec (`codec.rs`) | a read buffer | `encode`, `decode` | partial reads, streams that break within a frame, the frame limit | what is decoded is a prefix of what was encoded; the buffer is bounded; the reader ends |
| connection management (`connection.rs`) | the retry delay; the TLS ends | `connect`, `accept`, the TLS variants, `connect_with_retry` | one end believes in a connection the other refuses; a handshake that never ends | ends that count as connected have identified each other; two that fit do connect |
| mesh transport (`peat-mesh-sapient/src/transport.rs`) | `peers`, subscribers, the outbound channel, the tasks | `start`, `stop`, `disconnect`, the accept loop, the connect loop, the peer loops, the outbound sink | `stop`/`disconnect` racing the loops; addresses that come again; the channel that outlives its connections | what runs can be reached and stopped, as far as `start` keeps its handle; nothing reordered or duplicated; records and events tell the truth |
| translator (`translator.rs`) | the last position of each sensor | `decode_inbound`, `encode_outbound` | positions cached by one task and published by another | the cache and the mesh agree; a track that is passed on stays what it was |
| subscriber (`subscriber.rs`) | none; it consumes the update channel | `run_bridge_subscriber` | a publication that fails, a channel that is full | every update is published in its turn |
| transforms, mesh fields (`transform/*`, `mesh_fields.rs`) | none | pure mappings | eleven coordinate systems; fields that are absent and fields that are empty, in a mesh that merges | units are right; what a message does not say overwrites nothing |
| binary and configuration (`peat-sapient-bridge`) | the settings; the transport, the mesh peers | `Config::load`, `main` | three sources for one setting; a start-up that fails half-way | a flag is in force; no fall-back to plain text; every mesh peer is reached |
| protocol types, compliance tools | none of their own | | | |

How they interact. The application calls `send_task` and `send_alert_ack`, and
consumes the update channel (256 updates). `send_task` stores the command id, puts
the task in the queue, and, if the node has an entry in `connections`, sends it
into that connection's write channel (64 messages). `run_connection`, one task per
accepted TCP connection, reads messages; the first Registration makes it the node's
entry in `connections`, is acknowledged, and has the node's queue replayed into the
write channel; every message then becomes an update. A TaskAck takes the task out
of the queue and its command id out of `task_commands`. When the stream ends the
connection removes the node's entry and its registry record, and announces
`NodeDisconnected`. The watchdog removes silent nodes from the same registry. The
transport of `peat-mesh-sapient` shares none of this; it has its own peers, and
a task per peer that decodes with the translator and publishes to the mesh. The
binary reads its settings, dials its mesh peers, starts that transport in one of
its two modes, and then TAK.

## 2. The plan

Done, in this order:

1. `TaskQueueOps`, `TaskQueue`: the queue as operators and as a state machine,
   with `TaskQueueLemmas` and `TaskQueueProofs`.
2. `Bridge`: the composition of queue, connections, callers and consumer, with
   its liveness, and `BridgeProofs`.
3. `TaskDelivery`: what the bridge promises of a task; `Bridge` implements it,
   which TLC checks and `BridgeProofs` proves.
4. `Watchdog`: the registry's entries, the connections that refresh them and the
   sweeps that prune them, with `WatchdogProofs`.
5. `DlmmTransport`: the connect loop and its peer loops against `stop` and
   `disconnect`, with `DlmmTransportProofs`.
6. `RateLimit`; its bound, for every rate and burst, is proved in `IngestProofs`.
7. `Conversion`, `MeshFields`: what the transforms, `route_message` and
   `mesh_fields` keep, refuse and default of a message, and in which units.
8. `Ingest`: a sensor's data on its way through the read loops, the limiter, the
   registry, the update channel and the subscriber to the mesh, with node ids
   that are a sender's claim; `IngestProofs`.
9. `Translator`, `HldmmTransport`: the accept loop, its receiving tasks, the
   translator and its cache, against `start`, `stop` and `disconnect`;
   `HldmmTransportProofs`.
10. `Framing`: the codec over a stream that is cut and breaks anywhere, and
11. `Configuration`, `Gateway`: processes from settings to shutdown, and the
    connection, with TLS or without, between one that dials and one that listens;
    `ConnectionProofs` for both.

Left:

12. Abstract specifications that two more modules could be shown to implement: a
    lossy FIFO channel for `DlmmTransport` (`MessagesKeepTheirPlace` is the state
    invariant such a refinement needs), and, for `Framing`, the sequence of frames
    with a prefix of it read.
13. Liveness of `HldmmTransport`, which needs an account of when its environment
    (the sensors, the mesh) answers.

## 3. The modules

| module | models | extends |
|---|---|---|
| `TaskQueueOps` | the operations of `task_queue.rs` on one queue | |
| `TaskQueue` | `TaskQueue` as a state machine, called in any order | `TaskQueueOps` |
| `TaskQueueLemmas` | what the operations do to a queue (proved) | `TaskQueueOps` |
| `TaskQueueProofs` | the theorems about `TaskQueue` | `TaskQueue`, `TaskQueueLemmas` |
| `TaskDelivery` | the promise about a task, without connections | |
| `Bridge` | tasking in `bridge.rs`, the keys of `registry.rs` | `TaskQueueOps`, instance of `TaskDelivery` |
| `BridgeProofs` | the theorems about `Bridge` | `Bridge`, `TaskQueueLemmas` |
| `Watchdog`, `WatchdogProofs` | `watchdog.rs`, the entries of `registry.rs` | |
| `RateLimit` | `rate_limit.rs` | |
| `Conversion` | `transform/*`, `route_message` | |
| `MeshFields` | `mesh_fields.rs` | |
| `Ingest` | data in `bridge.rs`, `subscriber.rs` | `RateLimit`, `Conversion`, `MeshFields` |
| `IngestProofs` | the theorems about `RateLimit` and `Ingest` | `Ingest` |
| `Framing` | `codec.rs`, `recv` of `connection.rs` | |
| `DlmmTransport`, `DlmmTransportProofs` | DLMM mode of `transport.rs` | |
| `Translator` | `translator.rs` | `Conversion`, `MeshFields` |
| `HldmmTransport` | HLDMM mode of `transport.rs` | `Translator` |
| `HldmmTransportProofs` | the theorems about `HldmmTransport` | `HldmmTransport` |
| `Configuration` | `config.rs`, TLS set-up | |
| `Gateway` | `main.rs`, `connection.rs` | `Configuration` |
| `ConnectionProofs` | the theorems about `Gateway` and `Framing` | `Gateway`, `Framing` |
| `MC*` | instances for TLC | |

Operators whose comment calls them a slip, and the few that stand before the
definition they alter (`EvictNothing`, `OnceAWake`, ...), are not part of any
specification: they are the errors each property has been seen to catch.

### The queue

A deque is the set of its entries; an entry's `slot` is its place. The front is the
least slot, `push_back` takes a slot above all the others, `retain` is a set
comprehension, so what a slot *is* never matters, only the order. `Evicted` is the
entry `enqueue` pops (none from an empty queue, which is why a depth of zero still
holds a task), `Expired` compares strictly, as `drain_expired` does, and `Drained`
sweeps the queues of all the nodes, which it does even on behalf of one. `called` is
the call of the last step, so that a loss can be held against the call that made it.

### The bridge

| state | code |
|---|---|
| `queues`, `commands`, `connections`, `registry` | the fields of `BridgeInner`; the last three by their keys, `connections` with the connection that owns the entry |
| `holder` | the caller that holds the `connections` mutex while it awaits room in a channel |
| `backlog` | how full the update channel is |
| `session[c]` | where `run_connection` stands: each value is an `await` it may wait at |
| `registered[c]`, `pending[c]`, `update[c]` | its locals `registered_node_id`, `pending`, `update` |
| `channel[c]`, `writing[c]` | the write channel; whether the writer task, and so the receiver, lives |
| `caller[p]`, `message[p]` | where a caller of `send_task` or `send_alert_ack` stands, and its message |
| `peer[c]` | the DLMM's end of the TCP connection |
| `life`, `got`, `heard`, `offered`, `reported`, `faults` | history, for the properties and the environment |

An action is what one task does between two `await`s that can wait. Mutexes that
are never held across such an `await` (`task_queue`, `task_commands`, the
registry's lock) make their critical section one action; `connections` is held
across `tx.send(msg).await` in `send_task` and `send_alert_ack`, so `holder` models
it, and `Register`, `Unroute`, `Deliver` and `SendAlertAck` need it free. A place in the
channel is free when the writer has taken a message out (`Write`), and `Write` waits for
the DLMM for as long as it does not read: the code sets no time limit.

`run_connection` is `Dial` → (`read`) → `Register`, `SendRegistrationAck`,
`Snapshot`, `Replay`*, `FinishRegistration` for the first Registration; `Report` for
any other message; `ReadTaskAck`, `Correlate` for a TaskAck; each ends in `Emit`,
which waits for room in the update channel. `EndOfStream` leads to `Unroute`,
`Unregister`, `Farewell`. `Write`, `WriteError` and `Close` are the writer task.
`send_task` is `SendTask`, `Enqueue`, `Deliver`, and `Unblock` if it had to wait.

A connection slot `c` belongs to the DLMM `Owner[c]`. A DLMM that loses a
connection dials another slot at once, whether the bridge has noticed or not: two
slots of one DLMM give every overlap of an old connection's end with a new
connection's beginning. What the bridge reads from a connection that is gone is
what the TCP buffers still held: a Registration, a report, an acknowledgement.

Choices about data. Payloads, positions, capabilities and reasons are left out;
updates that carry nothing but the node's data are one kind, `Telemetry`. Tasks
have fresh ids (`transform/task.rs` draws a ULID for each), so a task is sent once.
A DLMM uses its own node id in every message, and acknowledges only tasks it has
received (on this connection or an earlier one). With `EarlyTelemetry` it may
report before it registers.

### The watchdog

`registry[n]` is the entry or `Absent`: the instant of the last message, and
whether the stored capability came from a Registration or from a status report's
delta. `watchdog` is where `run_watchdog` stands: at the ticker (`wait`), before the
scan, in the loop over the list (`sweep`), or waiting for room in its channel
(`announce`). `Wake` reads the clock; `Scan`, under the read lock, makes the list;
`Remove` and `Announce` alternate until the list is empty. `Register`, `Report` and
`Disconnect` are what `run_connection` does to the registry meanwhile. `served[n]`
counts the registered connections of a node: there may be several, and the clean up of
any of them takes the node's entry, whoever else has refreshed it (`Disconnect`). The
ticker is tokio's: its deadlines are fixed, so a late tick is followed by the next one
at once. `overdue` and `taken` are history: who was silent for two intervals when the
clock was read and not heard of before the list was drawn up; and whose entry has been
taken since it registered.

### From a sensor to the mesh

`Ingest` is the read loop of `run_connection` for everything that is not tasking.
`Read` is one turn of it up to the send: the limiter is asked about a detection
(`Check`), `RouteMessage` makes the update or refuses the message, and the registry
is updated (`Upsert`, for which no caller in the code has a position). `held[c]` is
the update that waits for room; while it waits the connection neither reads nor
notices its end. `Lose` is the end of the loop with its clean up, whose
`NodeDisconnected` waits like any other update. `Publish` is one turn of
`run_bridge_subscriber`: the update becomes fields, and the mesh merges them. Any
connection may send any message, in any node's name.

The limiter counts in fractions of a token: `Refill` of them are earned per tick of
the clock and `OneToken` of them buy a detection. The code counts in floating point;
its rounding is left out.

In `Conversion` a measure is the unit its number is in, and a place is a name, so
that a conversion gives the right unit or `"wrong"`: a coordinate in radians that is
taken for degrees, a height in feet that is left as it is. A bearing's elevation counts
for where the object is and for how high: it is level, or the object is `"raised"` above
its sensor. A function that may fail
returns a set of at most one result. A document of the mesh is a set of
pairs of a field's name and its value, one pair to a name; `Field(document, name)` is
the set of the at most one value; `Merge` keeps of the old document what the new
fields do not name. A height of zero and a status that is unspecified are no fields,
as in `mesh_fields.rs`.

### The codec

A byte is `<< frame, index >>`, so that a decoder out of step can be told from one in
step without modelling values: four bytes that are a header declare that frame's length
(cut to its low bits by the cast to `u32`), any other four bytes declare anything.
`Encode` checks no limit, `Read` takes any number of bytes that are there, `Decode` and
`FrameTooLarge` are the two answers of `decode`, `CloseStream` ends the stream with any
part of what was under way, and `EndOfStream` is `recv` at the end.

### The DLMM transport

`loop` is where `run_dlmm_connect_loop` stands, `peer` where the peer loop it
spawned does. `receiver` says who owns the receiver of the outbound channel:
`start` takes it from the transport, `Connect` gives it to the peer loop,
`Finish` returns it over the oneshot channel, `TakeBack` takes it, and whoever is
dropped with it drops it, with all that waits in the channel. `record` is the entry
of `peers`, `alive` its flag. The halves of `register_peer`, `deregister_peer` and
`disconnect` on either side of the lock are actions of their own, and so are the two
of `stop`: the callers run on other threads. `abort` only sets `loopAborted` or
`peerAborted`; the task dies where it next waits (`LoopDies`, `PeerDies`), which is
how tokio aborts. A connection carries what was written in order (`wire`), breaks
with what the HLDMM has not read (`Break`), or is closed at this end, with or
without what is on the way (`Vanish`, `Receive`). `stop` is called once.

### The HLDMM transport

`loops[l]` is where the accept loop that the l-th `start` spawned stands, `joining[l]`
the connection it has accepted and not yet put on record. `receiver[c]` is where the
receiving task of a connection stands, `hand[c]` the document it is about to publish,
`peers` the records by address. An address is free again when the other end of its
connection is closed, which the bridge may not have noticed. HLDMM `start` looks at
nothing: it may be called again, or while a `stop` is under way. `Start` spawns the loop
and succeeds before `Bind` is tried; `StoreListener` puts its handle in `listener_task`
(`listener`), and drops the one that is there, whose loop no `stop` can abort from then on
(`detached`). `StopListener` and `StopPeers` are `stop` on either side of its two
locks, `Disconnect` and `EmitDisconnected` those of `disconnect`, `RegisterPeer` and
`EmitConnected` those of `register_peer`. Aborts are as in `DlmmTransport`. `Receive`
decodes a message and caches its position; `Publish` hands the document to the mesh,
and may fail; two tasks may do so in either order (`unsure` remembers for whom).

### The processes

`Load` is `Config::load`, on settings that are functions on the flags they give.
`phase[p]` is where `main` stands: it loads, starts the mesh (each peer that can be
parsed is dialled by a task), builds the transport from role and TLS settings, readies
TAK, starts the fan-out, and runs until Ctrl-C. Every one of these may fail, which
closes what is open and ends the process (`Fail`). The accept loop binds its address
when `StartSapient` is over (`Bind`); a bind that fails ends the loop, not the process.
Between `Dialler` and `Listener` there is one TCP connection at a time, `line`. Without
TLS the dialler is connected once the connection is in the listener's backlog
(`Connect`); with TLS its handshake ends before the listener has looked at its
certificate (`HandshakeDone`, then `EndHandshake`). The accept loop shakes hands with
one connection at a time, and a `Stranger` that says nothing has it to itself, until it
hangs up, if it does. What the certificates settle is in `ServerVerified` and
`ClientVerified`, the external part.

## 4. The runs

| run | instance | question |
|---|---|---|
| `MCTaskQueue` | 2 nodes, 4 tasks, depth 2, TTL 1, clock to 3 | is the queue bounded, ordered and free of unexplained losses under any sequence of calls? |
| `MCBridge` | 1 DLMM with 2 slots, 2 tasks, 1 caller, depth 1, channels of 1, one loss, clock to 1 | routing, replay, correlation and clean up when a reconnect overlaps |
| `MCBridgeTwoNodes` | 2 DLMMs, 2 callers, a task for one and alert acknowledgements to the other, one loss, clock stands, fairness | the `connections` mutex held by a sender while another sender, a registration or a clean up needs it: does everyone come through? |
| `MCBridgeLive` | 1 DLMM with 2 slots, 1 task, one loss, fairness | is the task delivered in the end? |
| `MCWatchdog` | 2 nodes with up to 2 registered connections each, interval 2, a channel of 1, clock to 8 | why an entry goes, how long a silent node stays, what becomes of a capability |
| `MCIngest` | 2 connections, 2 nodes, 1 object, 7 kinds of message of which 3 are sent, a bucket of one token that two ticks fill, an update channel of 1, one loss, one failed publication, fairness | what the mesh, the limiter and the registry end up with |
| `MCFraming` | payloads of 0, 1, 2 and 5 bytes, limit 1, a length field that holds less than 4, reads of up to 4, 3 frames, fairness | is what is decoded what was encoded, with a bounded buffer and an end? |
| `MCDlmmTransport` | 3 connections, 2 messages, depth 1, 2 losses, fairness | is anything forgotten, duplicated, reordered or stuck as the receiver changes hands? |
| `MCHldmmTransport` | 2 starts that may overlap each other and a stop, 2 connections of up to 2 addresses, 2 of 5 messages, starts and messages together at most 3, publications that may fail | can what runs be reached; do records, events, cache and mesh tell the truth? |
| `MCGateway` | 6 settings of the listener by 8 of the dialler, delays of 1 to 3, 3 failures of the network, 1 stranger, 2 mesh peers of which one never answers, fairness | who connects to whom, in which role, with which identities, and do they ever? |
| `MCBridgeSentIfConnected`, `MCIngestBearings` | | the findings below |

What they show:

* `DepthBounded`, `ExpiredFirst`, `LossProperty`: the queue never exceeds its
  depth (1 for a depth of 0); expired tasks stand in front of live ones, so
  eviction and expiry never disagree about who goes first; a task leaves only in the
  call that acknowledges that very task, in a drain after its TTL has passed, or as the
  oldest of a full queue in an `enqueue` for its node.
* `NoDanglingConnection`: the map never leads to a connection that has cleaned up.
  The unconditional `remove(&nid)` guarantees this, and is at the same time what
  unroutes a live connection (finding 1).
* `QueuedTaskIsOffered`: no task falls between the immediate send and the replay.
  `send_task` enqueues and then looks the node up; a registration enters the map and
  then copies the queue. Swap either pair and the property fails.
* `CommandGoesWithTask`: command ids go exactly when their task goes, and the
  acknowledgement that removes a task carries its id to the consumer.
* `NoGhostNode`: a registry record always has a connection with its clean up ahead,
  if DLMMs register before they report. `GhostsWereClaimed` is the same for senders
  that claim any node: once all connections are gone, only nodes for which a
  connection spoke that had not registered as them are left behind.
* `DeliversTasks`: `Bridge` implements `TaskDelivery`. A task is settled exactly
  once, by an acknowledgement of a DLMM that received it, by its TTL, or by an
  eviction from a full queue; connections, losses and reconnects settle nothing.
* `NobodyWaitsForEver`: every `send_task` and `send_alert_ack` returns, also one that
  waits behind another for the mutex, and every lost connection is cleaned up, also one
  a sender waits on: a dead writer drops the receiver and with it the wait. The one
  exception is `SenderStuck`: a DLMM that is connected and does not read. Its writer
  awaits the socket without a time limit, its channel stays full, and the sender that
  waits for a place keeps the mutex from everyone.
* `UndeliveredIsUnroutable`: a task that stays undelivered for ever belongs to a DLMM
  that stays out of the map for ever (not routed, although possibly connected:
  finding 1), or some connected DLMM does not read.
* `DetectedInTime`: whenever the watchdog waits for a tick that is not due, no entry
  is three intervals old, whatever it has missed before. `RemovalProperty`: an entry
  goes with the end of a connection of its node, or in a sweep that found the node
  overdue when it read the clock and had not heard of it when it drew up its list. (A
  node heard of after that goes all the same; that is the code.) `CapabilityKept`: a node
  with a registered connection has an entry with a capability, unless a sweep or the
  clean up of another connection of it has taken the entry since.
* `WindowBound`: in no window of time is a node granted more than a burst and what
  the window earns, over silences, refusals, reconnects and claims of others.
* `InTurn`, `UpdateIsTaken`: the updates of a connection reach the channel once and
  in order, although it waits for room with one in hand and may be lost meanwhile;
  and none waits for ever.
* `HeartbeatKeepsStatus`: the operational status on the mesh is the last one a
  registration or a report with a mode gave; a report that says nothing leaves it.
  `TrackFollowsLatest`: a track is where its last detection was, in degrees and
  metres; its height is that of the last detection that was not at zero, which is
  what the code does and not what one would expect of an object that has landed.
* `DecodedArePrefix`, `BufferBounded`, `ReaderProgresses`: see the codec above. The
  first holds for payloads that fit their length field, which `encode` does not
  test; a larger one puts the stream out of step, and what is decoded after it may never
  have been encoded.
* `NothingForgotten`: what the sink has accepted and is not known to be lost is
  received, under way or waiting, once and in the order of acceptance, across
  connections too, because a message that could not be sent is dropped and not
  queued again.
* `ChannelSurvives`: no loss of a connection closes the outbound channel.
  `HealthyMeansRunning`: a record whose flag is set has a running peer loop, which
  depends on every abort coming after the removal of its record.
  `RunningIsReachable`: a peer loop nobody has aborted has a record, or is about to
  get one. `ReportedInTurn`: the loop's own events alternate. Those of `disconnect`
  do not fit in: it may report a closing before the opening, or a closing that the
  loop reports again.
* `Reconnects`, `Settles`: unless told to give up, the loop makes another connection
  after each loss; what the sink accepted is received or lost in the end.
* `RecordsMatchTasks`: the same for the accept loop, its receiving tasks and their
  records, also when `stop` runs between the spawn of a task and its record, when a
  record is replaced because its address came again, and over a second `start`, which
  puts one kind of accept loop out of reach: the one whose handle it overwrites.
  `ReportedOnce`: no connection is reported connected or disconnected twice.
* `MeshAgreesWithCache`: the translator resolves bearings from where the mesh has
  the sensor, unless two connections spoke for it at once or a document was dropped.
  `RelayPreserves`: what `encode_outbound` makes of a track is read back as the same
  place, height, unit and class, also if it was resolved from a bearing.
* `FlagsInForce`: the transport a process runs is the one its flags ask for, whatever
  the file says: a flag that names an end settles role and address (`--sapient-listen`
  too, in a file that makes the process a DLMM), and TLS, certificate, CA and server name
  follow their flags. `NoPlaintext`: TLS that was asked for and cannot be had is a
  failure to start. `EndsAgree`: once the listener counts a connection as up, both ends
  were set to use TLS or neither, and the certificates of each are what the settings of
  the other ask for. It compares settings, so it depends on what is built from them, not
  only on the TLS library. The dialler may believe in a connection that the listener is
  about to refuse.
* `Linked`: two ends whose settings fit connect in the end, whatever failed before, but
  for three cases: one of them is stopped; the listener could not bind its address, which
  it never tries again; or a stranger stays in the TLS handshake for good, for which
  `accept_tls` has no time limit. TLC refutes the property without any one of them.
  `MeshPeersConnected`: every mesh peer that can be parsed and answers is connected in
  the end, whatever is wrong with the others, malformed or silent.

### The bounds, and why they are enough

Channel capacities are parameters, 1 in the runs: every send then has to wait in
some behaviour, which is what 64 and 256 hide. Depth 1 makes the second task evict;
`MCTaskQueue`, with depth 2 and four tasks, distinguishes the oldest from the others,
and its bound is proved for every depth. TTL 0 with a
clock of two instants gives every relation between a task's age and its TTL that a
strict comparison tells apart; `MCTaskQueue` has TTL 1 and four instants. One loss
of a connection (`MaxFaults`) gives one overlap of two connections of a DLMM, after
which everything may be retried once; two slots are as many as overlap after one
loss. The watchdog's instance lets the clock run for four intervals: a node registers,
falls silent for two, is listed, and a late sweep makes up for a missed tick; two
connections are an old and a new one of one node, and either may end first.

Three messages are a registration or a report, one that changes what it left, and one
that says nothing of it, over two connections in any order; a bucket of one token that
two ticks fill has every state between empty and full, and its bound is proved for all.
Of the payloads, 0 is the empty frame, 1 is at the limit, 2 is beyond it, and 5 has the
low bits of 1; three frames let a refused one stand between two good ones, and reads of
up to four bytes cut a header anywhere. Three connections and two losses let the
receiver be handed on, returned and handed on again; with two messages and a channel of
one, one can wait while the other is written or sent back. Two starts let an old accept
loop and a new one overlap, also with the `stop` between them and with each other, so
that either stores its handle last; two connections share an address or a sensor; two
messages are a position and what is resolved from it, or two positions. The messages
take no notice of which loop accepted their connection, so the run does with two starts
and one message, or one start and two messages (`MaxInputs`). The settings of
the gateways are at least one for every branch of `Load`, `ResolveSapientRole` and
`BuildSapientTls`; three failures let the delay reach its limit and be reset. `MaxNow`,
`MaxTime`, `MaxSlot`, `MaxServed`, `MaxConn`, `MaxStarts`, `MaxStops`, `MaxMessages`,
`MaxInputs`, `MaxFrames`, `MaxLosses`, `MaxFailures`, `MaxFaults` and `MaxStrangers` are the only
bounds that do not exist in the code. `CHECK_DEADLOCK FALSE` stands where the system may
stop: all messages sent, all starts used up, a process at its end.

### Fairness

`FairSpec` of `Bridge` gives fairness to every step a task takes when it is not waiting.
It is strong for connections and callers, which wait for the `connections` mutex or for
room in a channel: tokio serves those who wait for either in order of arrival. What a
lost connection has left to read is finite, hence the strong fairness of its
`EndOfStream`, and a write to it comes to an end. The rest is environment: a DLMM
registers on a connection that lasts, and dials again after a loss; the application takes
its updates; `MaxFaults` makes the network stable at last. Nothing makes a connected DLMM
read: `Write` is fair only once the other end is gone, and the properties name the case.
`send_task` is not fair: nobody has to call it. `Ingest` assumes that senders send what
they will, that those that wait for room in the update channel are served in order, and
that the subscriber is polled.

For `DlmmTransport`: every task that can go on does, aborted ones end, a dial succeeds
in the end because the retries are unlimited, and `select!` chooses at random among
its ready branches, so a closed connection is noticed while messages are sent. The
network delivers what it does not lose. No call, no loss and no bad message is fair.

For `Framing`, the reading task is polled while it can go on; nothing makes the writer
write or close. For `Gateway`, processes go on, timers expire and tasks are polled: the
connect loop, the accept loop when it has something to do, and one task for each mesh
peer. `Ctrl-C`, failures of the network and strangers are not fair: a stranger may stay
for ever. `HldmmTransport` has no fairness and no liveness property.

### Findings

Each of two runs checks one property, a sentence of the documentation, which the code
violates.

1. `MCBridgeSentIfConnected` (`bridge.rs:238-239`): after an overlapping reconnect
   the old connection's clean up removes the new one's entry; from then on
   `send_task` does not send to a connected DLMM until it reconnects again.
2. `MCIngestBearings` (`registry.rs:24-25`): no message ever stores a position, so
   the bearings of a sensor that has reported its position are refused.

The models show further disagreements, by what their actions do, that no run is
spent on:

* A TaskAck of any status dequeues, not only Accepted
  (`docs/c2-collaboration.md:182`, `ReadTaskAck`), and only the first one carries the
  command id (`bridge.rs:244-245`, `Correlate`).
* `NodeDisconnected` may be emitted while the node is back in the registry
  (`bridge.rs:132-133`, `Farewell`).
* The TTL is tested when the queue is copied and may pass while the replay waits
  (`task_queue.rs:6-7`, `Replay`); a depth of zero holds one task
  (`task_queue.rs:29`, `Evicted`).
* The stored capability need not be from the Registration (`registry.rs:22`,
  `Upsert` of `Watchdog`); a node heard from between the scan and its removal is
  removed (`watchdog.rs:18-19`, `Remove`).
* Of the messages accepted during an outage, those the old peer loop takes before it
  notices are lost (`transport.rs:31-33`); `disconnect` between the test for the
  record and its removal does not stop the loop, and while the loop dials it fails
  (`transport.rs:33-35`); a peer loop that `stop` finds spawned but not registered
  runs on, reachable through the record it then gets
  (`tests/dlmm_integration.rs:621`).
* `start` returns `Ok` when the listener's address is taken, and the transport counts
  as started (`Bind`); the bridge goes on without a listener.
* In HLDMM mode a second `start` is not refused, as it is in DLMM mode ("start() called
  more than once", `transport.rs:701-706`): it drops the handle of the first accept loop,
  which no `stop` can abort any more (`StoreListener`), and one of the two loops finds the
  address taken and ends.
* The clean up of a connection takes the registry entry of a node that has registered on
  another one (`bridge.rs:466-469`, `Disconnect` of `Watchdog`): no sweep is involved.
* `--tak-peer-id` does not override the file (`bridge.example.toml:3`, `Load`).

## 5. The proofs

`TaskQueueLemmas` proves what one operation does to one queue, for any depth, TTL
and set of tasks: a queue that is not empty has a front and a back (`OldestExists`,
`NewestExists`, from the well-foundedness of the subsets of a finite set: the
front is the entry with the fewest entries before it), removal keeps it placed and
no larger (`SubqueuePlaced`), `push_back` adds one entry behind all the others
(`PushBackPlaced`), and `enqueue` respects the depth (`EnqueuedDepth`).

`TaskQueueProofs` proves `Spec => []TypeOK` (`TypeCorrect`), `Spec => []DepthBounded`
(`Bounded`), `Spec => []ExpiredFirst` (`ExpiredInFront`) and `Spec => LossProperty`
(`NoUnexplainedLoss`). The inductive invariant is `TypeOK /\ DepthBounded /\
ArrivalOrder`: `ExpiredFirst` depends on the clock and is not inductive by itself;
`ArrivalOrder` (places follow instants, and no two entries share a place) is, and needs
`TypeOK`'s "no task was enqueued in the future" at the step that enqueues.

`BridgeProofs` rests on one invariant, `BridgeInv`. It says what a queue holds (each
once, exactly the tasks that were put in and not settled), what a caller carries at
each place and that only the holder of the mutex is blocked (`CallerInv`), what
`run_connection` has in its hands at each `await` (`SessionInv`: an acknowledgement that
is to be correlated is for a task that has left the queue for good), that a channel
holds only accepted tasks for the DLMM at its other end (`DeliveredInv`), and, stronger
than `CommandGoesWithTask`, that a commanded task that is not settled has its command
stored (`CommandInv`). `NoDanglingConnection` and `QueuedTaskIsOffered` are conjuncts of
it. The lemmas `...Steps` say which actions touch a group of variables, so that the
proof of a conjunct has steps only for the actions that can disturb it. From `BridgeInv`
follow `BridgeTypeCorrect`, `ConnectionsNeverDangle`, `QueuedTasksAreOffered`,
`CommandsGoWithTasks`, and `BridgeDelivers`, the refinement: under the mapping
`TaskFate` initial states are initial and every step is a step of `TaskDelivery` or a
stutter. The conjunct about correlation is what makes an acknowledgement settle its task
only once; that about callers, what keeps a task from being accepted twice. `NoGhosts`
assumes `~EarlyTelemetry`, without which it is false.

`IngestProofs` has three parts.

* `LimiterBound` is `WindowBound` for every rate, burst, set of nodes and size of a
  token. The bound over all windows is not inductive. `Paid` is: what was granted since
  any one grant, together with what is left in the bucket, came from a full bucket and
  from what was earned up to the last check. The step that grants (`Grants`) extends
  every window by one and takes one token; the step that refuses (`Refuses`) may lose
  what exceeds the capacity, which only helps. Every step of `Ingest` is a step of the
  limiter or leaves it alone (`AsksTheLimiter`), whence `IngestBound`.
* `GhostsClaimed`: a connection stands for the first node that registered on it
  (`OneNodeEach`), and a node in the registry has an open connection that stands for it
  or was claimed by another (`Vouched`).
* `UpdatesInTurn`, `StatusIsTheLatest`, `TrackIsTheLatest`: what the mesh says is a
  function of the updates taken from the channel, so the channel has to be the end of
  the log of all updates (`Backlogged`), and what a connection has in hand the last it
  has made (`HeldIsLast`).

`WatchdogProofs` proves `TypeOK`, `DetectedInTime` (`SilentNodesGo`), `RemovalProperty`
(`OnlyOverdueRemoved`) and `CapabilityKept` (`OnlyRemovalsForget`) for every set of nodes,
interval and capacity, and any number of overlapping connections. `DetectedInTime`
speaks of the present clock; what is inductive is `Swept`: between two sweeps every
entry is younger than two intervals at the instant of the last scan, and the next
deadline is at most one interval after that instant. Two and one make the three of
the property. `RemovalProperty` needs `ListedOverdue`: a node that is silent at the scan,
by the entry it has then, was overdue at the instant the clock was read and has not been
heard of in between, so the list holds only such nodes.

`DlmmTransportProofs` proves `TypeOK`, `ChannelSurvives`, `HealthyMeansRunning`,
`RunningIsReachable`, `NothingForgotten` (`MessagesKeepTheirPlace`) and
`ReportedInTurn` (`ReportsInTurn`) for every set of messages, depth and number of
connections and losses. The invariant adds `AbortedUnrecorded` (an aborted peer loop has
no record; there is none while the loop dials or is about to register; a loop that ended
with its flag set was aborted), `OnDemand` (nothing is aborted or dead without a call,
and a waiting loop has its record unless someone gave it up) and `HeldByPeer` (a running
peer loop holds the receiver, so the connect loop, when it holds it, knows there is
none): without the last a second peer loop might be thought to run beside the first.
`MessagesKeepTheirPlace` follows a message from the channel through the hand of the
sender and the wire to the HLDMM: each of these places is in the order of acceptance,
each is behind the next, and an action moves one message over one border or loses it
(`Placed`); a connection that is still to be made carries nothing, and the hand is empty
unless the peer loop is sending (`PlaceInv`). `ReportsInTurn` needs that the connect loop
knows at each of its places whether it has reported a connection (`TurnInv`).

`HldmmTransportProofs` has two parts. `RecordsAlwaysMatch` and `EventsAreReportedOnce`
rest on `HldmmInv`: one accept loop at a time has the address, over any number of calls
of `start` and `stop`, however they overlap, and a loop nobody has cancelled is the
listener, is about to be, or was detached (`LoopsInv`), so that the connection it is
about to register is the latest and unknown to all others (`JoiningInv`); and an address
that comes again was given up by the other end (`AddressInv`), so that the record that
is replaced is of a task that is at its end. `MeshAgrees` and `TracksCanBeRelayed` rest
on `DocumentInv`: of a platform about which nothing is unsure one task at most has a
document in hand (`HandInv`), and the mesh agrees with the cache now or once that
document is merged (`AgreeInv`); whatever the coordinate system a message came in, what
is cached is in degrees (`CacheInv`), and every track, in hand or on the mesh, has both
coordinates or neither, in degrees, a height in metres that is not zero, and a class
that is not empty (`Relayable`).

`ConnectionProofs` has two parts.

* `FlagsAreInForce`, `ConnectedEndsAgree` and `NeverPlaintext` hold for any set of
  settings of the two processes. The invariant says that a transport is one its
  process's settings make (`Started`), that a connection exists only between two
  started ends, of which one dials and one listens, with a handshake only where there is
  TLS (`LineInv`), and that ends of a connection that is up have verified each other
  (`Agreed`). From a transport back to the settings lead `TransportOfSettings` (role,
  address, certificate and CA are those of the loaded settings) and `LoadedInForce` (and
  these are the flag's, or else the file's): this is what ties `EndsAgree` to what the
  users of the two bridges set.
* `BufferStaysBounded` is `BufferBounded` for every limit, width of the length field,
  capacity of a read and set of payloads. The buffer is read into only when the decoder
  wants more, and then it holds less than a header and the largest payload, because a
  length that was declared is within the limit or ends the reading; the invariant adds
  that every byte belongs to a frame that was encoded, so that what is declared is a
  natural number. `DecodesInOrder` is `DecodedArePrefix`. Its invariant, `PrefixInv`,
  speaks of all that is still to be decoded, read and unread: it begins with the frame
  after the last decoded, ends with the last byte written while the writer is open, and
  is in step in between. In step (`Runs`) means: from any byte on, the rest of its frame
  stands in order, and the first byte of the next frame after it. "Each byte is
  followed by the one written after it" says the same of two bytes at a time; to get a
  frame out of it would take an induction over the buffer.

The assumptions are those the modules declare, and no more than what the code makes of
its constants: depths, times and limits are naturals, capacities and intervals are
positive; a message is about the given nodes and objects, its position is of one kind
and there is one position at most (a `oneof` and an `optional` of the protocol); there
is no `--role` flag on the command line, and `--sapient-tls` is true or false. The
bounds that exist for TLC alone are any naturals. Only `NoGhosts` assumes more.

Model-checked only: all liveness (`NobodyWaitsForEver`, `UndeliveredIsUnroutable`,
`UpdateIsTaken`, `ReaderProgresses`, `Reconnects`, `Settles`, `Linked`,
`MeshPeersConnected`), which rests on fairness and so on ENABLED, beyond the prover; and
the two runs that end in a violation. Every other property of a run is a theorem.

## 6. What is not modelled

The protocol types are generated code; the compliance tools drive the bridge from
outside and keep no state of it. Of the transforms, the arithmetic is left out (UTM, the
flat earth, circular errors: floating point), and so are velocities, attribute bags,
texts, and `to_task`, of which the models use that each task has a fresh id. The TLS
library, TAK and the mesh are external: they accept or refuse.

Of the bridge: `send_task` futures dropped half-way, and an application that drops its
update receiver or that waits in `send_task` for what only its own consumption of
updates can free. Of the transport: what a DLMM's peer loop publishes of the messages
it receives (it is the receiving task's code, which `HldmmTransport` has), a transport
dropped without `stop`, and subscribers that do not keep up with the peer events. Of
the binary: the second loss of a mesh peer, which is the mesh library's, and what
happens between Ctrl-C and the end of the process.
