----------------------------- MODULE HldmmTransport -----------------------------
(***************************************************************************)
(* PeatSapientTransport in HLDMM mode                                      *)
(* (peat-mesh-sapient/src/transport.rs): the accept loop that start()      *)
(* spawns, a receiving task per sensor, stop() and disconnect() called by  *)
(* other tasks, and the translator they share with its cache.              *)
(*                                                                         *)
(* Tasks run on several threads. An aborted task goes on until it next     *)
(* waits: an abort enables its death. A peer is known by the address of    *)
(* its end, which the system gives out again once that end is closed.      *)
(* TLS changes how a connection is accepted (see Gateway), and nothing     *)
(* here; nor does `started', which no task reads.                          *)
(***************************************************************************)
EXTENDS Translator

CONSTANTS
  Node,        \* node ids, as messages claim them
  Object,      \* object ids of detections
  Message,     \* the messages a sensor may send
  MaxStarts,   \* bound of the calls of start(), for TLC
  MaxStops,    \* bound of the calls of stop() at one time, for TLC
  MaxConn,     \* bound of the connections accepted, for TLC
  MaxMessages, \* bound of the messages received, for TLC
  MaxInputs    \* bound of both the calls of start() and the messages, for TLC

ASSUME HldmmAssumption ==
  /\ {MaxStarts, MaxStops, MaxConn, MaxMessages, MaxInputs} \subseteq Nat
  /\ \A m \in Message :
       /\ m.node \in Node /\ m.object \in Object /\ m.fix \in {"location", "bearing", "none"}
       /\ \A x, y \in m.locations : x = y

Loop == 1..MaxStarts
Conn == 1..MaxConn

\* Addresses of sensors, numbered as they are first seen.
Address == Conn
None == 0

VARIABLES
  starts,    \* calls of start() so far: the number of the latest accept loop
  storing,   \* the accept loops whose start() has yet to store their handle
  listener,  \* PeatSapientTransport::listener_task
  stopping,  \* calls of stop() between its two locks
  loops,     \* where an accept loop stands
  cancelled, \* the accept loops that are aborted
  conn,      \* the number of the latest connection
  joining,   \* the connection an accept loop is about to register
  address,   \* the peer_id of a connection
  peers,     \* the record under an address: the number of its connection
  receiver,  \* where run_peer_recv_loop stands
  aborted,   \* the receiving tasks that are aborted
  alive,     \* the flag a receiving task shares with its record
  hand,      \* the document it is to publish, at most one
  cache,     \* SapientTranslator::sensor_positions
  tracks, platforms, \* the documents of the mesh
  events,    \* how many peer events of each kind a connection has had
  leaving    \* connections disconnect() is about to report

(***************************************************************************)
(* What the environment and the properties need to remember.               *)
(***************************************************************************)
VARIABLES
  detached, \* accept loops whose handle start() has overwritten in listener_task
  sensor,   \* the other end of a connection: "none", "up" or "closed"
  heard,    \* messages received so far
  unsure    \* nodes a document of which was dropped, or made while another was in hand

startVars == << starts, storing, listener, stopping, detached >>
loopVars == << loops, cancelled, joining >>
peerVars == << peers, events, leaving >>
taskVars == << receiver, aborted, alive, hand >>
networkVars == << conn, address, sensor >>
dataVars == << cache, tracks, platforms, heard, unsure >>
vars == << startVars, loopVars, peerVars, taskVars, networkVars, dataVars >>

Init ==
  /\ starts = 0 /\ storing = {} /\ listener = None /\ stopping = 0 /\ detached = {}
  /\ loops = [l \in Loop |-> "none"] /\ cancelled = {}
  /\ joining = [l \in Loop |-> None]
  /\ conn = 0
  /\ address = [c \in Conn |-> c]
  /\ peers = [a \in Address |-> None]
  /\ receiver = [c \in Conn |-> "none"] /\ aborted = {}
  /\ alive = [c \in Conn |-> FALSE]
  /\ hand = [c \in Conn |-> {}]
  /\ cache = [n \in Node |-> {}]
  /\ tracks = [o \in Object |-> NoFields]
  /\ platforms = [n \in Node |-> NoFields]
  /\ events = [c \in Conn |-> [Connected |-> 0, Disconnected |-> 0]] /\ leaving = {}
  /\ sensor = [c \in Conn |-> "none"]
  /\ heard = 0
  /\ unsure = {}

-----------------------------------------------------------------------------
(***************************************************************************)
(* start(), stop() and disconnect().                                       *)
(***************************************************************************)

\* start() spawns an accept loop, whether or not there is one already. It does not
\* wait for the loop to bind its address ...
Start ==
  /\ starts < MaxStarts /\ starts + heard < MaxInputs /\ starts' = starts + 1
  /\ loops' = [loops EXCEPT ![starts'] = "bind"]
  /\ storing' = storing \union {starts'}
  /\ UNCHANGED << listener, stopping, detached, cancelled, joining, peerVars, taskVars,
                  networkVars, dataVars >>

\* ... and keeps its handle, dropping the one that is there, which leaves its
\* loop to itself.
StoreListener(l) ==
  /\ l \in storing /\ storing' = storing \ {l}
  /\ listener' = l
  /\ detached' = IF listener = None THEN detached ELSE detached \union {listener}
  /\ UNCHANGED << starts, stopping, loopVars, peerVars, taskVars, networkVars, dataVars >>

\* A slip used by the configurations: stop() takes the handle and drops it.
StopListenerForgetting ==
  /\ stopping < MaxStops /\ stopping' = stopping + 1
  /\ listener' = None
  /\ UNCHANGED << cancelled, starts, storing, detached, loops, joining, peerVars,
                  taskVars, networkVars, dataVars >>

\* stop() takes the handle and aborts its loop ...
StopListener ==
  /\ stopping < MaxStops /\ stopping' = stopping + 1
  /\ cancelled' = IF listener = None THEN cancelled ELSE cancelled \union {listener}
  /\ listener' = None
  /\ UNCHANGED << starts, storing, detached, loops, joining, peerVars, taskVars,
                  networkVars, dataVars >>

Recorded == { peers[a] : a \in Address } \ {None}

\* A slip used by the configurations: the records go, and the tasks stay.
StopPeersForgetting ==
  /\ stopping > 0 /\ stopping' = stopping - 1
  /\ peers' = [a \in Address |-> None]
  /\ UNCHANGED << aborted, starts, storing, listener, detached, loopVars, events,
                  leaving, receiver, alive, hand, networkVars, dataVars >>

\* ... then drains the records and aborts their tasks, without an event.
StopPeers ==
  /\ stopping > 0 /\ stopping' = stopping - 1
  /\ aborted' = aborted \union Recorded
  /\ peers' = [a \in Address |-> None]
  /\ UNCHANGED << starts, storing, listener, detached, loopVars, events, leaving, receiver,
                  alive, hand, networkVars, dataVars >>

\* A slip used by the configurations: the record is looked up and left there.
DisconnectKeepingRecord(a) ==
  /\ peers[a] # None
  /\ aborted' = aborted \union {peers[a]}
  /\ leaving' = leaving \union {peers[a]}
  /\ UNCHANGED << peers, startVars, loopVars, events, receiver, alive, hand, networkVars, dataVars >>

\* disconnect() of a peer that is on record ...
Disconnect(a) ==
  /\ peers[a] # None
  /\ aborted' = aborted \union {peers[a]}
  /\ leaving' = leaving \union {peers[a]}
  /\ peers' = [peers EXCEPT ![a] = None]
  /\ UNCHANGED << startVars, loopVars, events, receiver, alive, hand, networkVars, dataVars >>

\* ... and the event it emits without the lock.
EmitDisconnected(c) ==
  /\ c \in leaving
  /\ leaving' = leaving \ {c}
  /\ events' = [events EXCEPT ![c].Disconnected = @ + 1]
  /\ UNCHANGED << startVars, loopVars, peers, taskVars, networkVars, dataVars >>

-----------------------------------------------------------------------------
(***************************************************************************)
(* run_hldmm_accept_loop.                                                  *)
(***************************************************************************)

\* The address may be taken, and is while another loop listens on it. A failure
\* is logged, and the transport stays as it is.
Bind(l, succeeds) ==
  /\ loops[l] = "bind"
  /\ succeeds => \A k \in Loop : loops[k] \notin {"accept", "register", "greet"}
  /\ loops' = [loops EXCEPT ![l] = IF succeeds THEN "accept" ELSE "dead"]
  /\ UNCHANGED << startVars, cancelled, joining, peerVars, taskVars, networkVars, dataVars >>

\* A sensor has dialled, and the receiving task is spawned. An address is free
\* when no end of a connection has it.
Accept(l, a) ==
  /\ loops[l] = "accept"
  /\ conn < MaxConn /\ conn' = conn + 1 /\ a <= conn'
  /\ \A c \in 1..conn : address[c] = a => sensor[c] = "closed"
  /\ address' = [address EXCEPT ![conn'] = a]
  /\ sensor' = [sensor EXCEPT ![conn'] = "up"]
  /\ receiver' = [receiver EXCEPT ![conn'] = "recv"]
  /\ alive' = [alive EXCEPT ![conn'] = TRUE]
  /\ joining' = [joining EXCEPT ![l] = conn']
  /\ loops' = [loops EXCEPT ![l] = "register"]
  /\ UNCHANGED << startVars, cancelled, peerVars, aborted, hand, dataVars >>

\* register_peer: the record, in the place of an earlier one with its address,
\* whose task is left to itself ...
RegisterPeer(l) ==
  /\ loops[l] = "register"
  /\ peers' = [peers EXCEPT ![address[joining[l]]] = joining[l]]
  /\ loops' = [loops EXCEPT ![l] = "greet"]
  /\ UNCHANGED << startVars, cancelled, joining, events, leaving, taskVars, networkVars, dataVars >>

\* ... and the event.
EmitConnected(l) ==
  /\ loops[l] = "greet"
  /\ events' = [events EXCEPT ![joining[l]].Connected = @ + 1]
  /\ loops' = [loops EXCEPT ![l] = "accept"]
  /\ UNCHANGED << startVars, cancelled, joining, peers, leaving, taskVars, networkVars, dataVars >>

LoopDies(l) ==
  /\ l \in cancelled /\ loops[l] \in {"bind", "accept"}
  /\ loops' = [loops EXCEPT ![l] = "dead"]
  /\ UNCHANGED << startVars, cancelled, joining, peerVars, taskVars, networkVars, dataVars >>

-----------------------------------------------------------------------------
(***************************************************************************)
(* run_peer_recv_loop.                                                     *)
(***************************************************************************)

\* A slip used by the configurations: the first position is kept.
CachedOnce(m) ==
  IF CachedFrom(m) = {} \/ cache[m.node] # {} THEN cache
  ELSE [cache EXCEPT ![m.node] = CachedFrom(m)]

\* cache_position.
Cached(m) ==
  IF CachedFrom(m) = {} THEN cache ELSE [cache EXCEPT ![m.node] = CachedFrom(m)]

\* A message is received and decoded; no other task runs between the two steps
\* on what they share, but for the cache, which is locked.
Receive(c, m) ==
  /\ receiver[c] = "recv"
  /\ heard < MaxMessages /\ starts + heard < MaxInputs /\ heard' = heard + 1
  /\ LET documents == IF CollectionFor(m) = "none" THEN {}
                      ELSE DecodeInbound(m, cache[m.node])
     IN  /\ cache' = Cached(m)
         /\ unsure' = IF \E k \in Conn, d \in documents : \E h \in hand[k] : h.id = d.id
                        THEN unsure \union {m.node} ELSE unsure
         /\ hand' = [hand EXCEPT ![c] =
                       { [collection |-> CollectionFor(m), id |-> d.id, fields |-> d.fields]
                         : d \in documents }]
         /\ receiver' = IF documents = {} THEN receiver ELSE [receiver EXCEPT ![c] = "publish"]
  /\ UNCHANGED << startVars, loopVars, peerVars, aborted, alive, networkVars, tracks, platforms >>

\* publish_with_origin, whose failure is logged.
Publish(c, fails) ==
  /\ receiver[c] = "publish"
  /\ hand' = [hand EXCEPT ![c] = {}]
  /\ receiver' = [receiver EXCEPT ![c] = "recv"]
  /\ \E d \in hand[c] :
       /\ unsure' = IF fails THEN unsure \union {d.id} ELSE unsure
       /\ tracks' = IF fails \/ d.collection # "tracks" THEN tracks
                    ELSE [tracks EXCEPT ![d.id] = Merge(@, d.fields)]
       /\ platforms' = IF fails \/ d.collection # "platforms" THEN platforms
                       ELSE [platforms EXCEPT ![d.id] = Merge(@, d.fields)]
  /\ UNCHANGED << startVars, loopVars, peerVars, aborted, alive, networkVars, cache, heard >>

\* The end of the stream or an error: the record stays.
End(c) ==
  /\ receiver[c] = "recv" /\ sensor[c] = "closed"
  /\ receiver' = [receiver EXCEPT ![c] = "ended"]
  /\ alive' = [alive EXCEPT ![c] = FALSE]
  /\ UNCHANGED << startVars, loopVars, peerVars, aborted, hand, networkVars, dataVars >>

\* The sensor closes, or the connection breaks. What it has sent may still be
\* received.
Close(c) ==
  /\ sensor[c] = "up"
  /\ sensor' = [sensor EXCEPT ![c] = "closed"]
  /\ UNCHANGED << startVars, loopVars, peerVars, taskVars, conn, address, dataVars >>

\* An aborted task drops the connection, and leaves its flag as it is.
TaskDies(c) ==
  /\ c \in aborted /\ receiver[c] \in {"recv", "publish"}
  /\ receiver' = [receiver EXCEPT ![c] = "ended"]
  /\ hand' = [hand EXCEPT ![c] = {}]
  /\ sensor' = [sensor EXCEPT ![c] = "closed"]
  /\ unsure' = unsure \union { d.id : d \in hand[c] }
  /\ UNCHANGED << startVars, loopVars, peerVars, aborted, alive, conn, address, cache, tracks,
                  platforms, heard >>

TaskSteps(c) ==
  \/ \E m \in Message : Receive(c, m)
  \/ \E fails \in BOOLEAN : Publish(c, fails)
  \/ End(c) \/ TaskDies(c)

LoopSteps(l) ==
  \/ StoreListener(l)
  \/ \E succeeds \in BOOLEAN : Bind(l, succeeds)
  \/ \E a \in Address : Accept(l, a)
  \/ RegisterPeer(l) \/ EmitConnected(l) \/ LoopDies(l)

Next ==
  \/ Start \/ StopListener \/ StopPeers
  \/ \E a \in Address : Disconnect(a)
  \/ \E l \in Loop : LoopSteps(l)
  \/ \E c \in Conn : EmitDisconnected(c) \/ TaskSteps(c) \/ Close(c)

Spec == Init /\ [][Next]_vars

-----------------------------------------------------------------------------
(***************************************************************************)
(* Properties.                                                             *)
(***************************************************************************)

Running(c) == receiver[c] \in {"recv", "publish"}

\* Whatever start(), stop(), disconnect() and the accept loops do in between, what
\* runs and is to go on can be got at. An accept loop is the listener, which
\* stop() aborts, or its start() has yet to store it; but one whose handle another
\* start() has overwritten before any stop() took it is out of reach for good. A
\* receiving task can be got at through its record, or is about to get one, also
\* if stop() has drained the records meanwhile; one that loses its record to a
\* connection with its address is at its end. And a record that says its peer is
\* healthy is of a task that runs: an aborted one, whose flag stays set, has lost
\* its record before (transport.rs:251-274, 322-366, 666-798, 832-842).
RecordsMatchTasks ==
  /\ \A l \in Loop :
       loops[l] \notin {"none", "dead"} /\ l \notin cancelled =>
         listener = l \/ l \in storing \/ l \in detached
  /\ \A c \in 1..conn :
       Running(c) /\ c \notin aborted =>
         \/ peers[address[c]] = c
         \/ \E l \in Loop : joining[l] = c /\ loops[l] = "register"
         \/ sensor[c] = "closed"
  /\ \A c \in Recorded : alive[c] => Running(c) /\ c \notin aborted

\* Every connection is reported at most once as connected, and at most once as
\* disconnected; in which order depends on who comes first to the subscribers
\* (transport.rs:259-273, 783-798).
ReportedOnce ==
  \A c \in Conn : events[c].Connected <= 1 /\ events[c].Disconnected <= 1

\* Where the mesh has a platform, in degrees, is where the translator takes its
\* bearings from, unless two connections spoke for it at once, or a document was
\* dropped (translator.rs:170-193, transport.rs:278-323, status.rs:31-49).
MeshAgreesWithCache ==
  \A n \in Node :
    n \notin unsure /\ (\A c \in Conn : \A d \in hand[c] : d.id # n) =>
      /\ Field(platforms[n], "lat") = { << p.at, "deg" >> : p \in cache[n] }
      /\ Field(platforms[n], "lon") = Field(platforms[n], "lat")

\* A track that a gateway passes on to its HLDMM, and that is read there, is
\* where it was, as high as it was and what it was, in the same units, also if
\* it was seen by its bearing. The sensor it came from is not kept
\* (translator.rs:107-160, detection.rs:71-131, 364-402).
RelayPreserves ==
  \A o \in Object :
    Field(tracks[o], "lat") # {} =>
      \A n \in Node : \E m \in EncodeOutbound(o, tracks[o], n) : \E d \in DecodeInbound(m, {}) :
        /\ d.id = o
        /\ \A f \in {"lat", "lon", "hae", "sapient_classification"} :
             Field(d.fields, f) = Field(tracks[o], f)

=============================================================================
