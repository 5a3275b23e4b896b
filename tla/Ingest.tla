-------------------------------- MODULE Ingest --------------------------------
(***************************************************************************)
(* The way of a sensor's data through the bridge to the mesh: the read     *)
(* loop of run_connection (peat-sapient/src/bridge.rs), the limiter, the   *)
(* registry and the update channel it shares with the other connections,   *)
(* and run_bridge_subscriber (peat-mesh-sapient/src/subscriber.rs). The    *)
(* tasking on the same connections is in Bridge.                           *)
(*                                                                         *)
(* What a message says of itself, its node id included, is up to its       *)
(* sender.                                                                 *)
(***************************************************************************)
EXTENDS RateLimit, Conversion, MeshFields

CONSTANTS
  Conn,        \* connection slots
  Object,      \* object ids of detections
  Message,     \* the messages a sensor may send
  UpdateCap,   \* capacity of the update channel (256)
  MaxMessages, \* bound of the messages read, for TLC
  MaxLosses,   \* bound of the connections lost, for TLC
  MaxFailures  \* bound of the publications that fail, for TLC

ASSUME IngestAssumption ==
  /\ UpdateCap \in Nat \ {0}
  /\ {MaxMessages, MaxLosses, MaxFailures} \subseteq Nat
  /\ \A m \in Message :
       m.node \in Node /\ m.object \in Object /\ m.fix \in {"location", "bearing", "none"}

VARIABLES
  session,    \* "closed", "open" or "closing"
  registered, \* registered_node_id of a connection, at most one
  held,       \* the update a connection's task is to send, at most one
  registry,   \* [Node -> ConnectedNode], its keys and last_position
  updates,    \* the update channel
  tracks,     \* the documents of the mesh, by object id
  platforms   \* ... and by node id

(***************************************************************************)
(* What the environment and the properties need to remember.               *)
(***************************************************************************)
VARIABLES
  log,      \* every update in the order the channel took them
  routed,   \* how many updates a connection has made
  read,     \* messages read so far
  strayed,  \* the nodes a connection spoke for without being registered as them
  refused,  \* the nodes whose bearings were refused after they gave a position
  losses, failures

dataVars == << registry, strayed, refused >>
meshVars == << tracks, platforms, failures >>
sessionVars == << session, registered, losses >>
channelVars == << held, updates, log, routed, read >>
vars == << limiterVars, dataVars, meshVars, sessionVars, channelVars >>

Init ==
  /\ LimiterInit
  /\ session = [c \in Conn |-> "closed"]
  /\ registered = [c \in Conn |-> {}]
  /\ held = [c \in Conn |-> {}]
  /\ registry = [n \in Node |-> [present |-> FALSE, last_position |-> {}]]
  /\ updates = << >> /\ log = << >>
  /\ tracks = [o \in Object |-> NoFields]
  /\ platforms = [n \in Node |-> NoFields]
  /\ routed = [c \in Conn |-> 0]
  /\ read = 0 /\ losses = 0 /\ failures = 0
  /\ strayed = {} /\ refused = {}

-----------------------------------------------------------------------------

\* upsert of registry.rs. The time is left to Watchdog.
Upsert(n, positions) ==
  registry' = [registry EXCEPT ![n] =
                 [present |-> TRUE,
                  last_position |-> IF positions = {} THEN @.last_position ELSE positions]]

Remove(n) == registry' = [registry EXCEPT ![n] = [present |-> FALSE, last_position |-> {}]]

\* get_position.
SensorPosition(n) == registry[n].last_position

Hold(c, body) ==
  /\ held' = [held EXCEPT ![c] = {[from |-> c, nth |-> routed[c] + 1, body |-> body]}]
  /\ routed' = [routed EXCEPT ![c] = @ + 1]

\* Has the node given its position to the bridge?
Located(n) ==
  \E i \in DOMAIN log : /\ log[i].body.kind = "StatusUpdated" /\ log[i].body.node = n
                        /\ log[i].body.report.state.positions # {}

Accept(c) ==
  /\ session[c] = "closed"
  /\ session' = [session EXCEPT ![c] = "open"]
  /\ registered' = [registered EXCEPT ![c] = {}]
  /\ UNCHANGED << limiterVars, dataVars, meshVars, losses, channelVars >>

\* One turn of the read loop up to the send: the limiter is asked about a
\* detection before it is mapped, a message that cannot be mapped is dropped,
\* and no caller of upsert has a position to give.
Read(c, m) ==
  /\ session[c] = "open" /\ held[c] = {}
  /\ read < MaxMessages /\ read' = read + 1
  /\ registered' = IF m.content = "Registration" /\ registered[c] = {}
                     THEN [registered EXCEPT ![c] = {m.node}] ELSE registered
  /\ \E allowed \in BOOLEAN :
       LET results == RouteMessage(m, SensorPosition(m.node), allowed)
       IN  /\ IF m.content = "DetectionReport"
                THEN Check(m.node, allowed) ELSE allowed /\ UNCHANGED limiterVars
           /\ \/ /\ results = {}
                 /\ refused' = IF m.fix = "bearing" /\ Located(m.node)
                                 THEN refused \union {m.node} ELSE refused
                 /\ UNCHANGED << registry, strayed, held, routed >>
              \/ \E body \in results :
                   /\ Hold(c, body)
                   /\ IF body.kind \in {"Registered", "StatusUpdated", "Detected"}
                        THEN /\ Upsert(m.node, {})
                             /\ strayed' = IF m.node \in registered'[c]
                                             THEN strayed ELSE strayed \union {m.node}
                        ELSE UNCHANGED << registry, strayed >>
                   /\ UNCHANGED refused
  /\ UNCHANGED << session, losses, meshVars, updates, log >>

\* A slip used by the configurations: an update that finds no room is dropped.
SendUpdateOrDrop(c) ==
  \E u \in held[c] :
    /\ held' = [held EXCEPT ![c] = {}]
    /\ IF Len(updates) < UpdateCap
         THEN updates' = Append(updates, u) /\ log' = Append(log, u)
         ELSE UNCHANGED << updates, log >>
    /\ session' = IF session[c] = "closing" THEN [session EXCEPT ![c] = "closed"] ELSE session
    /\ UNCHANGED << limiterVars, dataVars, meshVars, registered, losses, routed, read >>

\* update_tx.send: the task, and with it the connection, waits for room.
SendUpdate(c) ==
  \E u \in held[c] :
    /\ Len(updates) < UpdateCap
    /\ held' = [held EXCEPT ![c] = {}]
    /\ updates' = Append(updates, u) /\ log' = Append(log, u)
    /\ session' = IF session[c] = "closing" THEN [session EXCEPT ![c] = "closed"] ELSE session
    /\ UNCHANGED << limiterVars, dataVars, meshVars, registered, losses, routed, read >>

\* A slip used by the configurations: a lost connection leaves its node behind.
LoseLeavingNode(c) ==
  /\ session[c] = "open" /\ held[c] = {}
  /\ losses < MaxLosses /\ losses' = losses + 1
  /\ session' = [session EXCEPT ![c] = IF registered[c] = {} THEN "closed" ELSE "closing"]
  /\ IF registered[c] = {}
       THEN UNCHANGED << held, routed >>
       ELSE \E n \in registered[c] : Hold(c, [kind |-> "NodeDisconnected", node |-> n])
  /\ UNCHANGED << limiterVars, registered, dataVars, meshVars, updates, log, read >>

\* The read loop ends; it is only while it reads that it can tell.
Lose(c) ==
  /\ session[c] = "open" /\ held[c] = {}
  /\ losses < MaxLosses /\ losses' = losses + 1
  /\ session' = [session EXCEPT ![c] = IF registered[c] = {} THEN "closed" ELSE "closing"]
  /\ IF registered[c] = {}
       THEN UNCHANGED << held, routed, registry >>
       ELSE \E n \in registered[c] :
              Remove(n) /\ Hold(c, [kind |-> "NodeDisconnected", node |-> n])
  /\ UNCHANGED << limiterVars, registered, strayed, refused, meshVars, updates, log, read >>

-----------------------------------------------------------------------------
(***************************************************************************)
(* run_bridge_subscriber: one update at a time, and its publication.       *)
(***************************************************************************)

\* A slip used by the configurations: a failure ends the subscriber.
PublishUntilFailure(fails) ==
  /\ updates # << >> /\ failures = 0
  /\ updates' = Tail(updates)
  /\ failures' = IF fails THEN 1 ELSE 0
  /\ fails => failures < MaxFailures
  /\ UNCHANGED << limiterVars, dataVars, sessionVars, held, log, routed, read, tracks, platforms >>

Publish(fails) ==
  /\ updates # << >>
  /\ updates' = Tail(updates)
  /\ LET u == Head(updates).body
     IN  IF fails
           THEN /\ u.kind \in {"Registered", "StatusUpdated", "Detected"}
                /\ failures < MaxFailures /\ failures' = failures + 1
                /\ UNCHANGED << tracks, platforms >>
           ELSE /\ tracks' = IF u.kind = "Detected"
                               THEN [tracks EXCEPT ![u.track.track_id] =
                                       Merge(@, TrackToFields(u.track))]
                               ELSE tracks
                /\ platforms' =
                     CASE u.kind = "Registered" ->
                            [platforms EXCEPT ![u.node] =
                               Merge(@, PlatformToFields(u.advertisement, {}))]
                       [] u.kind = "StatusUpdated" ->
                            [platforms EXCEPT ![u.node] = Merge(@, StatusToFields(u.node, u.report))]
                       [] OTHER -> platforms
                /\ UNCHANGED failures
  /\ UNCHANGED << limiterVars, dataVars, sessionVars, held, log, routed, read >>

TimePasses ==
  /\ Tick
  /\ UNCHANGED << dataVars, meshVars, sessionVars, channelVars >>

Next ==
  \/ TimePasses
  \/ \E fails \in BOOLEAN : Publish(fails)
  \/ \E c \in Conn : Accept(c) \/ SendUpdate(c) \/ Lose(c) \/ \E m \in Message : Read(c, m)

Spec == Init /\ [][Next]_vars

\* The subscriber is polled, and a sender gets the room it waits for in its turn:
\* the channel's permits are handed out in the order they are asked for.
FairSpec ==
  /\ Spec
  /\ WF_vars(\E fails \in BOOLEAN : Publish(fails))
  /\ \A c \in Conn : SF_vars(SendUpdate(c))

-----------------------------------------------------------------------------
(***************************************************************************)
(* Properties.                                                             *)
(***************************************************************************)

\* Connections that send at the same time, and one that is lost with an update
\* in hand, leave the updates of each as it made them: none is missing, none
\* is there twice, none overtakes another (bridge.rs:458, 469-473).
InTurn ==
  \A c \in Conn :
    LET sent == { i \in DOMAIN log : log[i].from = c }
    IN  /\ \A i, j \in sent : i < j => log[i].nth < log[j].nth
        /\ \A i \in sent : \A u \in held[c] : log[i].nth < u.nth
        /\ { log[i].nth : i \in sent } \union { u.nth : u \in held[c] } = 1..routed[c]

\* Where the updates are in the log that the subscriber has published, unless a
\* publication failed.
Published == 1..Len(log) - Len(updates)

\* The latest of the updates at these positions, if any.
Latest(said) == { log[i].body : i \in { k \in said : \A j \in said : j <= k } }

\* A status report that says nothing of the status of its node leaves the mesh
\* with what the node last said of it, and a report that comes with a mode and
\* a registration replace it (mesh_fields.rs:125-140, subscriber.rs:54-67).
Status(u) == IF u.kind = "Registered" THEN {u.advertisement.status}
             ELSE { d.status : d \in u.report.delta } \ {"unspecified"}

Tells(n) ==
  { i \in Published :
      LET u == log[i].body
      IN  u.kind \in {"Registered", "StatusUpdated"} /\ u.node = n /\ Status(u) # {} }

HeartbeatKeepsStatus ==
  failures = 0 =>
    \A n \in Node :
      Field(platforms[n], "operational_status") = UNION { Status(u) : u \in Latest(Tells(n)) }

\* A track is where its last detection was, whichever connection it came by, in
\* degrees and metres, whatever the sensor's units were. Its height is that of
\* the last detection that was not at zero: one on the ground leaves the height
\* of an earlier one (mesh_fields.rs:43-49, 148-155, detection.rs:232-361).
Moves(o) ==
  { i \in Published : log[i].body.kind = "Detected" /\ log[i].body.track.track_id = o }

Flies(o) == { i \in Moves(o) : log[i].body.track.position.z # "zero" }

TrackFollowsLatest ==
  failures = 0 =>
    \A o \in Object :
      /\ Field(tracks[o], "lat") = { << u.track.position.at, "deg" >> : u \in Latest(Moves(o)) }
      /\ Field(tracks[o], "lon") = Field(tracks[o], "lat")
      /\ Field(tracks[o], "hae") = { << u.track.position.z, "m" >> : u \in Latest(Flies(o)) }

\* Once no connection is there, a node is in the registry only if one spoke for
\* it that had not registered as it: before its registration, or under another
\* name, which no clean up removes (bridge.rs:382, 415-433, 466-468).
GhostsWereClaimed ==
  (\A c \in Conn : session[c] # "open") =>
    \A n \in Node : registry[n].present => n \in strayed

\* A full channel, or a publication that fails, holds a connection up but does
\* not stop it (bridge.rs:458, subscriber.rs:76-78).
UpdateIsTaken == \A c \in Conn : held[c] # {} ~> held[c] = {}

\* A node's last_position is the "Most recently received position (from
\* `StatusReport`) - used for range-bearing coordinate resolution"
\* (registry.rs:24-25): the bearings of a sensor that has reported where it is
\* are resolved.
BearingsResolved == refused = {}

=============================================================================
