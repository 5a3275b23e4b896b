------------------------------- MODULE Watchdog -------------------------------
(***************************************************************************)
(* run_watchdog (peat-sapient/src/watchdog.rs) over the NodeRegistry       *)
(* (peat-sapient/src/registry.rs), with the connections of the bridge that *)
(* write the same registry (bridge.rs:411-431, 466-469). The connections   *)
(* of one DLMM may overlap, and each cleans up when it ends.               *)
(*                                                                         *)
(* A sweep is not atomic: the watchdog reads the clock, takes the read     *)
(* lock to list the silent nodes, then takes the write lock once per node, *)
(* and waits for room in its channel in between.                           *)
(***************************************************************************)
EXTENDS Integers, FiniteSets

CONSTANTS
  Node,
  Interval,   \* heartbeat_interval, in ticks of the clock
  Capacity,   \* capacity of the channel the watchdog was given
  Absent,     \* no entry in the registry
  MaxServed,  \* bound of the registered connections of one node, for TLC
  MaxNow      \* bound of the clock, for TLC

\* An entry; the capability it holds came from a Registration, from a status
\* report, or has yet to come. last_position is never set by the bridge.
Capability == {"none", "registration", "delta"}
ConnectedNode == [capability : Capability, lastSeen : Nat]

\* tokio::time::interval panics on a period of zero.
ASSUME WatchdogAssumption ==
  /\ Interval \in Nat \ {0}
  /\ Capacity \in Nat \ {0}
  /\ Absent \notin ConnectedNode

VARIABLES
  registry,   \* NodeRegistry
  served,     \* how many registered connections each node has
  taken,      \* history: nodes whose entry a sweep has taken, or the clean up
              \* of a connection, since they last registered
  watchdog,   \* where run_watchdog stands
  deadline,   \* when its ticker fires next
  stamp,      \* its `now`
  expired,    \* its `expired`, the nodes still to remove
  overdue,    \* history: nodes silent for two intervals when the clock was
              \* read, and not heard of before the list was drawn up
  backlog,    \* how many events wait in its channel
  open,       \* is the channel's receiver alive?
  now         \* tokio's Instant::now()

watchdogVars == << watchdog, deadline, stamp, expired >>
channelVars == << backlog, open >>
connectionVars == << served, taken >>
vars == << registry, connectionVars, watchdogVars, overdue, channelVars, now >>

Known(n) == registry[n] # Absent

\* The burnt first tick is at zero, the next one an interval later.
Init ==
  /\ registry = [n \in Node |-> Absent]
  /\ served = [n \in Node |-> 0]
  /\ taken = {}
  /\ watchdog = "wait"
  /\ deadline = Interval
  /\ stamp = 0
  /\ expired = {}
  /\ overdue = {}
  /\ backlog = 0
  /\ open = TRUE
  /\ now = 0

\* A message without a capability clears the one in the entry.
UpsertForgets(n, capability) ==
  registry' = [registry EXCEPT ![n] = [capability |-> capability, lastSeen |-> now]]

\* upsert: last_seen is refreshed whatever came; a capability replaces the one
\* in the entry, and "none" leaves it.
Upsert(n, capability) ==
  LET kept == IF Known(n) THEN registry[n].capability ELSE "none"
  IN  registry' = [registry EXCEPT ![n] =
        [capability |-> IF capability = "none" THEN kept ELSE capability,
         lastSeen |-> now]]

\* A node that is heard of, or cleaned up, before the list is drawn up.
Excused(n) == overdue' = IF watchdog = "scan" THEN overdue \ {n} ELSE overdue

\* The first Registration on a connection. Another connection of the node may
\* still be served: a DLMM reconnects before its old socket is seen to end.
Register(n) ==
  /\ served[n] < MaxServed
  /\ served' = [served EXCEPT ![n] = @ + 1]
  /\ taken' = taken \ {n}
  /\ Upsert(n, "registration")
  /\ Excused(n)
  /\ UNCHANGED << watchdogVars, channelVars, now >>

\* Any other message, over any connection: its node id is what it says it is.
\* A detection brings no capability; a status report brings one when it has a
\* field of view or a mode (transform/status.rs); a node may register again.
Report(n, capability) ==
  /\ Upsert(n, capability)
  /\ Excused(n)
  /\ UNCHANGED << connectionVars, watchdogVars, channelVars, now >>

\* A registered connection ends and cleans up, whatever other connection the
\* node has.
Disconnect(n) ==
  /\ served[n] > 0
  /\ served' = [served EXCEPT ![n] = @ - 1]
  /\ registry' = [registry EXCEPT ![n] = Absent]
  /\ taken' = taken \union {n}
  /\ Excused(n)
  /\ UNCHANGED << watchdogVars, channelVars, now >>

\* Silent for two intervals at an instant.
SilentAt(n, time) == Known(n) /\ registry[n].lastSeen + 2 * Interval <= time

\* The ticker fires. A tick that comes late does not move the ones after it.
Wake ==
  /\ watchdog = "wait"
  /\ now >= deadline
  /\ watchdog' = "scan"
  /\ deadline' = deadline + Interval
  /\ stamp' = now
  /\ overdue' = { n \in Node : SilentAt(n, now) }
  /\ UNCHANGED << registry, connectionVars, expired, channelVars, now >>

\* An entry newer than the stamp is not silent: duration_since saturates. One
\* interval instead of two.
SilentOnce(n) == Known(n) /\ stamp - registry[n].lastSeen >= Interval
Silent(n) == Known(n) /\ stamp - registry[n].lastSeen >= 2 * Interval

\* A sweep ends after one node instead of the last one.
OnceAWake(left) == "wait"
AfterNode(left) == IF left = {} THEN "wait" ELSE "sweep"

\* Under the read lock.
Scan ==
  /\ watchdog = "scan"
  /\ expired' = { n \in Node : Silent(n) }
  /\ watchdog' = AfterNode(expired')
  /\ UNCHANGED << registry, connectionVars, deadline, stamp, overdue, channelVars, now >>

\* Under the write lock, one node at a time, in the order of a hash map.
Remove(n) ==
  /\ watchdog = "sweep"
  /\ n \in expired
  /\ registry' = [registry EXCEPT ![n] = Absent]
  /\ taken' = taken \union {n}
  /\ expired' = expired \ {n}
  /\ watchdog' = "announce"
  /\ UNCHANGED << served, deadline, stamp, overdue, channelVars, now >>

Announce ==
  /\ watchdog = "announce"
  /\ open /\ backlog < Capacity
  /\ backlog' = backlog + 1
  /\ watchdog' = AfterNode(expired)
  /\ UNCHANGED << registry, connectionVars, deadline, stamp, expired, overdue, open, now >>

\* The receiver was dropped: the watchdog returns.
Return ==
  /\ watchdog = "announce"
  /\ ~open
  /\ watchdog' = "returned"
  /\ UNCHANGED << registry, connectionVars, deadline, stamp, expired, overdue, channelVars,
                   now >>

Consume ==
  /\ open /\ backlog > 0
  /\ backlog' = backlog - 1
  /\ UNCHANGED << registry, connectionVars, watchdogVars, overdue, open, now >>

DropReceiver ==
  /\ open
  /\ open' = FALSE
  /\ backlog' = 0
  /\ UNCHANGED << registry, connectionVars, watchdogVars, overdue, now >>

Tick ==
  /\ now < MaxNow
  /\ now' = now + 1
  /\ UNCHANGED << registry, connectionVars, watchdogVars, overdue, channelVars >>

Next ==
  \/ \E n \in Node :
       \/ Register(n)
       \/ \E capability \in Capability : Report(n, capability)
       \/ Disconnect(n)
       \/ Remove(n)
  \/ Wake \/ Scan \/ Announce \/ Return
  \/ Consume \/ DropReceiver
  \/ Tick

Spec == Init /\ [][Next]_vars

-----------------------------------------------------------------------------

\* Every variable has its type, and no entry is from the future.
TypeOK ==
  /\ registry \in [Node -> ConnectedNode \union {Absent}]
  /\ \A n \in Node : Known(n) => registry[n].lastSeen <= now
  /\ served \in [Node -> Nat]
  /\ taken \subseteq Node
  /\ watchdog \in {"wait", "scan", "sweep", "announce", "returned"}
  /\ deadline \in Nat /\ stamp \in Nat /\ now \in Nat
  /\ stamp <= now
  /\ expired \subseteq Node /\ overdue \subseteq Node
  /\ backlog \in 0..Capacity
  /\ open \in BOOLEAN

\* A watchdog that keeps up lets no node stay in the registry for three
\* intervals without a message: as long as it waits for a tick that is not
\* due, whatever it has missed before, every entry is younger than that
\* (watchdog.rs:28-54).
DetectedInTime ==
  watchdog = "wait" /\ now < deadline =>
    \A n \in Node : Known(n) => now - registry[n].lastSeen < 3 * Interval

\* An entry goes for one of two reasons: a connection of that node ends and
\* cleans up; or a sweep takes it, and then the node had been silent for two
\* intervals when that sweep read the clock and nothing was heard of it before
\* the list was drawn up (watchdog.rs:32-43, bridge.rs:466-469). Nobody goes
\* for the silence of an earlier sweep, or for an interval of silence only. A
\* message that comes after the list does not save its node.
RemovalIsExplained ==
  \A n \in Node : Known(n) /\ ~Known(n)' =>
    \/ served'[n] < served[n]
    \/ watchdog = "sweep" /\ watchdog' = "announce" /\ n \in overdue
RemovalProperty == [][RemovalIsExplained]_vars

\* A node with a registered connection has an entry, with the capability it
\* registered or one that came under its name since, unless a sweep has taken
\* the entry, or the clean up of another connection of that node has: no
\* message without a capability clears it, and an entry made after a removal
\* may have none (registry.rs:44-66, bridge.rs:411-431, 466-469). A status
\* report's capability replaces the registered one: the code keeps the last.
CapabilityKept ==
  \A n \in Node \ taken : served[n] > 0 => Known(n) /\ registry[n].capability # "none"

=============================================================================
