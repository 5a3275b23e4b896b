---------------------------- MODULE WatchdogProofs ----------------------------
(***************************************************************************)
(* How long a silent node stays in the registry, and why an entry or its   *)
(* capability goes, whatever the nodes, the interval and the capacity.     *)
(***************************************************************************)
EXTENDS Watchdog, TLAPS

\* The entry of n is one the last sweep had no reason to list.
Young(n) == Known(n) => registry[n].lastSeen + 2 * Interval > stamp

\* Between two sweeps every entry is young; during one, every entry that is
\* not on the list. The next tick is due at most an interval after the clock
\* was read, because a late tick does not move the ones after it.
Swept ==
  /\ deadline <= stamp + Interval
  /\ watchdog \in {"wait", "scan"} => expired = {}
  /\ watchdog = "wait" => \A n \in Node : Young(n)
  /\ watchdog \in {"sweep", "announce"} => \A n \in Node \ expired : Young(n)

\* While the list is drawn up, every entry that was silent when the clock was
\* read is overdue; afterwards, everybody on the list is.
ListedOverdue ==
  /\ watchdog = "scan" => \A n \in Node : SilentAt(n, stamp) => n \in overdue
  /\ watchdog \in {"sweep", "announce"} => expired \subseteq overdue

IInv == TypeOK /\ ListedOverdue /\ Swept

LEMMA InitInv == Init => IInv
<1> SUFFICES ASSUME Init PROVE IInv
  OBVIOUS
<1>1. \A n \in Node : ~Known(n)
  BY DEF Init, Known
<1>2. TypeOK
  BY <1>1, WatchdogAssumption DEF Init, TypeOK
<1>3. ListedOverdue
  BY DEF Init, ListedOverdue
<1>4. Swept
  BY <1>1, WatchdogAssumption DEF Init, Swept, Young
<1> QED BY <1>2, <1>3, <1>4 DEF IInv

\* A message refreshes one entry, and disturbs nothing of the sweep.
LEMMA UpsertInv ==
  ASSUME IInv, NEW n \in Node,
         NEW capability \in Capability,
         Upsert(n, capability), Excused(n),
         served' \in [Node -> Nat], taken' \subseteq Node,
         UNCHANGED << watchdogVars, channelVars, now >>
  PROVE  IInv'
<1> USE WatchdogAssumption
<1>1. /\ \A m \in Node : m # n => registry'[m] = registry[m]
      /\ registry' \in [Node -> ConnectedNode \union {Absent}]
      /\ registry'[n] \in ConnectedNode /\ registry'[n].lastSeen = now
  <2>1. registry[n] \in ConnectedNode \/ ~Known(n)
    BY DEF IInv, TypeOK, Known
  <2>2. now \in Nat
    BY DEF IInv, TypeOK
  <2> QED BY <2>1, <2>2 DEF IInv, TypeOK, Upsert, ConnectedNode, Capability
<1>2. stamp \in Nat /\ now \in Nat /\ stamp <= now /\ Interval \in Nat /\ Interval > 0
  BY DEF IInv, TypeOK
<1>3. TypeOK'
  <2>1. \A m \in Node : Known(m)' => registry'[m].lastSeen <= now'
    BY <1>1, <1>2 DEF IInv, TypeOK, Known, channelVars
  <2> QED BY <1>1, <2>1 DEF IInv, TypeOK, Excused, watchdogVars, channelVars
<1>4. ListedOverdue'
  BY <1>1, <1>2 DEF IInv, ListedOverdue, SilentAt, Known, Excused, watchdogVars, TypeOK
<1>5. \A m \in Node : Young(m) => Young(m)'
  BY <1>1, <1>2 DEF Young, Known, watchdogVars
<1>6. Swept'
  BY <1>5 DEF IInv, Swept, watchdogVars
<1> QED BY <1>3, <1>4, <1>6 DEF IInv

\* Neither does the removal of an entry.
LEMMA ForgetInv ==
  ASSUME IInv, NEW n \in Node, registry' = [registry EXCEPT ![n] = Absent]
  PROVE  /\ registry' \in [Node -> ConnectedNode \union {Absent}]
         /\ \A m \in Node : Known(m)' => Known(m) /\ registry'[m] = registry[m]
BY DEF IInv, TypeOK, Known

LEMMA NextInv == IInv /\ [Next]_vars => IInv'
<1> SUFFICES ASSUME IInv, [Next]_vars PROVE IInv'
  OBVIOUS
<1> USE WatchdogAssumption
<1>0. /\ TypeOK /\ ListedOverdue /\ Swept
      /\ stamp \in Nat /\ now \in Nat /\ deadline \in Nat /\ Interval \in Nat
  BY DEF IInv, TypeOK
<1>1. ASSUME NEW n \in Node, Register(n)
      PROVE  IInv'
  <2>1. served' \in [Node -> Nat] /\ taken' \subseteq Node
    BY <1>0, <1>1 DEF Register, TypeOK, connectionVars
  <2> QED BY <1>1, <2>1, UpsertInv DEF Register, Capability
<1>2. ASSUME NEW n \in Node, NEW capability \in Capability, Report(n, capability)
      PROVE  IInv'
  <2>1. served' \in [Node -> Nat] /\ taken' \subseteq Node
    BY <1>0, <1>2 DEF Report, TypeOK, connectionVars
  <2> QED BY <1>2, <2>1, UpsertInv DEF Report
<1>3. ASSUME NEW n \in Node, Disconnect(n)
      PROVE  IInv'
  <2>1. /\ registry' \in [Node -> ConnectedNode \union {Absent}]
        /\ \A m \in Node : Known(m)' => Known(m) /\ registry'[m] = registry[m]
    BY <1>3, ForgetInv DEF Disconnect
  <2>2. /\ UNCHANGED << watchdog, deadline, stamp, expired, backlog, open, now >>
        /\ ~Known(n)'
    BY <1>0, <1>3 DEF Disconnect, watchdogVars, channelVars, Known, TypeOK
  <2>3. TypeOK'
    BY <1>0, <1>3, <2>1, <2>2 DEF TypeOK, Disconnect, Excused
  <2>4. ListedOverdue'
    BY <1>0, <1>3, <2>1, <2>2 DEF ListedOverdue, SilentAt, Disconnect, Excused
  <2>5. \A m \in Node : Young(m) => Young(m)'
    BY <2>1, <2>2 DEF Young
  <2>6. Swept'
    BY <1>0, <2>2, <2>5 DEF Swept
  <2> QED BY <2>3, <2>4, <2>6 DEF IInv
<1>4. ASSUME NEW n \in Node, Remove(n)
      PROVE  IInv'
  <2>1. /\ registry' \in [Node -> ConnectedNode \union {Absent}]
        /\ \A m \in Node : Known(m)' => Known(m) /\ registry'[m] = registry[m]
        /\ ~Known(n)'
    BY <1>0, <1>4, ForgetInv DEF Remove, Known, TypeOK
  <2>2. UNCHANGED << served, deadline, stamp, overdue, backlog, open, now >>
    BY <1>4 DEF Remove, channelVars
  <2>3. /\ watchdog = "sweep" /\ watchdog' = "announce"
        /\ expired' = expired \ {n} /\ taken' = taken \union {n}
    BY <1>4 DEF Remove
  <2>4. TypeOK'
    BY <1>0, <2>1, <2>2, <2>3 DEF TypeOK
  <2>5. ListedOverdue'
    BY <1>0, <2>2, <2>3 DEF ListedOverdue
  <2>6. \A m \in Node : Young(m) => Young(m)'
    BY <2>1, <2>2 DEF Young
  <2>7. Young(n)'
    BY <2>1 DEF Young
  <2>8. Swept'
    BY <1>0, <2>2, <2>3, <2>6, <2>7 DEF Swept
  <2> QED BY <2>4, <2>5, <2>8 DEF IInv
<1>5. CASE Wake
  <2>1. /\ watchdog = "wait" /\ watchdog' = "scan" /\ now >= deadline
        /\ deadline' = deadline + Interval /\ stamp' = now
        /\ overdue' = { n \in Node : SilentAt(n, now) }
        /\ UNCHANGED << registry, served, taken, expired, backlog, open, now >>
    BY <1>5 DEF Wake, channelVars, connectionVars
  <2>2. expired = {}
    BY <1>0, <2>1 DEF Swept
  <2>3. TypeOK'
    BY <1>0, <2>1 DEF TypeOK, Known
  <2>4. ListedOverdue'
    BY <1>0, <2>1, <2>2 DEF ListedOverdue, SilentAt, Known
  <2>5. Swept'
    BY <1>0, <2>1, <2>2 DEF Swept
  <2> QED BY <2>3, <2>4, <2>5 DEF IInv
<1>6. CASE Scan
  <2>1. /\ watchdog = "scan" /\ expired' = { n \in Node : Silent(n) }
        /\ watchdog' = AfterNode(expired')
        /\ UNCHANGED << registry, served, taken, deadline, stamp, overdue, backlog, open, now >>
    BY <1>6 DEF Scan, channelVars, connectionVars
  <2>2. /\ watchdog' \in {"wait", "sweep"}
        /\ watchdog' = "wait" => expired' = {}
    BY <2>1 DEF AfterNode
  <2>3. TypeOK'
    BY <1>0, <2>1, <2>2 DEF TypeOK, Known
  <2>4. \A n \in Node : Known(n) => registry[n].lastSeen \in Nat
    BY <1>0 DEF TypeOK, Known, ConnectedNode
  <2>5. \A n \in Node \ expired' : Young(n)'
    BY <1>0, <2>1, <2>4 DEF Young, Silent, Known
  <2>6. ListedOverdue'
    <3>1. \A n \in Node : Silent(n) => SilentAt(n, stamp)
      BY <1>0, <2>4 DEF Silent, SilentAt
    <3> QED BY <1>0, <2>1, <2>2, <3>1 DEF ListedOverdue
  <2>7. Swept'
    BY <1>0, <2>1, <2>2, <2>5 DEF Swept
  <2> QED BY <2>3, <2>6, <2>7 DEF IInv
<1>7. CASE Announce
  <2>1. /\ watchdog = "announce" /\ backlog < Capacity /\ backlog' = backlog + 1
        /\ watchdog' = AfterNode(expired)
        /\ UNCHANGED << registry, served, taken, deadline, stamp, expired, overdue, open, now >>
    BY <1>7 DEF Announce, connectionVars
  <2>2. /\ watchdog' \in {"wait", "sweep"}
        /\ watchdog' = "wait" => expired = {}
    BY <2>1 DEF AfterNode
  <2>3. TypeOK'
    BY <1>0, <2>1, <2>2 DEF TypeOK, Known
  <2>4. \A m \in Node : Young(m) => Young(m)'
    BY <2>1 DEF Young, Known
  <2>5. ListedOverdue'
    BY <1>0, <2>1, <2>2 DEF ListedOverdue
  <2>6. Swept'
    BY <1>0, <2>1, <2>2, <2>4 DEF Swept
  <2> QED BY <2>3, <2>5, <2>6 DEF IInv
<1>8. CASE Return
  BY <1>0, <1>8 DEF Return, IInv, TypeOK, ListedOverdue, Swept, Known, channelVars,
                    connectionVars
<1>9. CASE Consume \/ DropReceiver
  <2>1. UNCHANGED << registry, served, taken, watchdog, deadline, stamp, expired, overdue,
                     now >>
    BY <1>9 DEF Consume, DropReceiver, watchdogVars, connectionVars
  <2>2. backlog' \in 0..Capacity
    <3>1. backlog \in 0..Capacity /\ Capacity \in Nat
      BY <1>0 DEF TypeOK
    <3>2. (backlog > 0 /\ backlog' = backlog - 1) \/ backlog' = 0
      BY <1>9 DEF Consume, DropReceiver
    <3> QED BY <3>1, <3>2
  <2>3. open' \in BOOLEAN
    BY <1>0, <1>9, Zenon DEF Consume, DropReceiver, TypeOK
  <2>4. TypeOK'
    BY <1>0, <2>1, <2>2, <2>3 DEF TypeOK, Known
  <2> QED BY <1>0, <2>1, <2>4 DEF IInv, ListedOverdue, SilentAt, Swept, Young, Known
<1>10. CASE Tick
  <2>1. /\ now' = now + 1
        /\ UNCHANGED << registry, served, taken, watchdog, deadline, stamp, expired,
                        overdue, backlog, open >>
    BY <1>10 DEF Tick, watchdogVars, channelVars, connectionVars
  <2>2. \A n \in Node : Known(n) => registry[n].lastSeen \in Nat
    BY <1>0 DEF TypeOK, Known, ConnectedNode
  <2>3. TypeOK'
    BY <1>0, <2>1, <2>2 DEF TypeOK, Known
  <2> QED BY <1>0, <2>1, <2>3 DEF IInv, ListedOverdue, SilentAt, Swept, Young, Known
<1>11. CASE UNCHANGED vars
  BY <1>0, <1>11 DEF vars, connectionVars, watchdogVars, channelVars, IInv, TypeOK,
                     ListedOverdue, SilentAt, Swept, Young, Known
<1> QED BY <1>1, <1>2, <1>3, <1>4, <1>5, <1>6, <1>7, <1>8, <1>9, <1>10, <1>11 DEF Next

\* An entry is taken by the clean up of its node or by the sweep that listed it.
LEMMA RemovalStep == IInv /\ [Next]_vars => [RemovalIsExplained]_vars
<1> SUFFICES ASSUME IInv, [Next]_vars, NEW n \in Node, Known(n), ~Known(n)'
             PROVE  \/ served'[n] < served[n]
                    \/ watchdog = "sweep" /\ watchdog' = "announce" /\ n \in overdue
  BY DEF RemovalIsExplained
<1>1. TypeOK /\ ListedOverdue
  BY DEF IInv
<1>2. ASSUME NEW m \in Node, NEW capability \in Capability, Upsert(m, capability)
      PROVE  FALSE
  <2>1. [capability |-> capability, lastSeen |-> now] \in ConnectedNode
    BY <1>1 DEF ConnectedNode, TypeOK
  <2>2. registry'[m] \in ConnectedNode /\ \A k \in Node \ {m} : registry'[k] = registry[k]
    <3>1. registry[m] \in ConnectedNode \/ ~Known(m)
      BY <1>1 DEF TypeOK, Known
    <3> QED BY <1>1, <1>2, <3>1 DEF TypeOK, Upsert, ConnectedNode, Capability
  <2> QED BY <2>2, WatchdogAssumption DEF Known
<1>3. ASSUME NEW m \in Node, Register(m) PROVE FALSE
  BY <1>2, <1>3 DEF Register, Capability
<1>4. ASSUME NEW m \in Node, NEW capability \in Capability, Report(m, capability)
      PROVE  FALSE
  BY <1>2, <1>4 DEF Report
<1>5. ASSUME NEW m \in Node, Disconnect(m) PROVE served'[n] < served[n]
  BY <1>1, <1>5 DEF Disconnect, TypeOK, Known
<1>6. ASSUME NEW m \in Node, Remove(m)
      PROVE  watchdog = "sweep" /\ watchdog' = "announce" /\ n \in overdue
  BY <1>1, <1>6 DEF Remove, TypeOK, Known, ListedOverdue
<1>7. ASSUME registry' = registry PROVE FALSE
  BY <1>7 DEF Known
<1>8. CASE Wake \/ Scan \/ Announce \/ Return \/ Consume \/ DropReceiver \/ Tick
           \/ UNCHANGED vars
  BY <1>7, <1>8 DEF Wake, Scan, Announce, Return, Consume, DropReceiver, Tick, vars
<1> QED BY <1>3, <1>4, <1>5, <1>6, <1>8 DEF Next

\* No message takes a capability away, and no entry goes but by a clean up or
\* by a sweep.
LEMMA CapabilityStep == TypeOK /\ CapabilityKept /\ [Next]_vars => CapabilityKept'
<1> SUFFICES ASSUME TypeOK, CapabilityKept, [Next]_vars PROVE CapabilityKept'
  OBVIOUS
<1> DEFINE Kept(n) == n \notin taken /\ served[n] > 0
                        => Known(n) /\ registry[n].capability # "none"
<1>0. \A n \in Node : Kept(n)
  BY DEF CapabilityKept
<1>1. ASSUME NEW n \in Node, NEW capability \in Capability, Upsert(n, capability),
             \/ Report(n, capability)
             \/ Register(n) /\ capability = "registration"
      PROVE  CapabilityKept'
  <2>1. \A m \in Node \ {n} : registry'[m] = registry[m]
    BY <1>1 DEF TypeOK, Upsert
  <2>2. registry'[n] \in ConnectedNode
    <3>1. registry[n] \in ConnectedNode \/ ~Known(n)
      BY DEF TypeOK, Known
    <3> QED BY <1>1, <3>1 DEF TypeOK, Upsert, ConnectedNode, Capability
  <2>3. Kept(n)'
    <3>1. Known(n)'
      BY <2>2, WatchdogAssumption DEF Known
    <3>2. CASE Report(n, capability)
      BY <1>0, <1>1, <3>1, <3>2 DEF Report, TypeOK, Upsert, Known, connectionVars
    <3>3. CASE Register(n) /\ capability = "registration"
      BY <1>1, <3>1, <3>3 DEF TypeOK, Upsert
    <3> QED BY <1>1, <3>2, <3>3
  <2>4. \A m \in Node \ {n} : /\ m \in taken' <=> m \in taken
                              /\ served'[m] = served[m]
    BY <1>1 DEF Report, Register, TypeOK, connectionVars
  <2>5. \A m \in Node \ {n} : Kept(m)'
    BY <1>0, <2>1, <2>4 DEF Known
  <2> QED BY <2>3, <2>5 DEF CapabilityKept
<1>2. ASSUME NEW n \in Node, Register(n)
      PROVE  CapabilityKept'
  BY <1>1, <1>2 DEF Register, Capability
<1>3. ASSUME NEW n \in Node, NEW capability \in Capability, Report(n, capability)
      PROVE  CapabilityKept'
  BY <1>1, <1>3 DEF Report
<1>4. ASSUME NEW n \in Node, Disconnect(n) \/ Remove(n)
      PROVE  CapabilityKept'
  <2>1. /\ taken' = taken \union {n}
        /\ \A m \in Node \ {n} : registry'[m] = registry[m] /\ served'[m] = served[m]
    BY <1>4 DEF Disconnect, Remove, TypeOK
  <2> QED BY <1>0, <2>1 DEF CapabilityKept, Known
<1>5. CASE UNCHANGED << registry, served, taken >>
  BY <1>5 DEF CapabilityKept, Known
<1>6. CASE Wake \/ Scan \/ Announce \/ Return \/ Consume \/ DropReceiver \/ Tick
           \/ UNCHANGED vars
  BY <1>5, <1>6 DEF Wake, Scan, Announce, Return, Consume, DropReceiver, Tick, vars,
                    connectionVars
<1> QED BY <1>2, <1>3, <1>4, <1>6 DEF Next

\* Type correctness of the registry and the watchdog (registry.rs:19-29,
\* watchdog.rs:20-55).
THEOREM WatchdogTypeCorrect == Spec => []TypeOK
<1>1. IInv => TypeOK
  BY DEF IInv
<1> QED BY InitInv, NextInv, <1>1, PTL DEF Spec

\* Whenever no tick is due, no entry is as old as three intervals: the sweeps
\* the watchdog was late for are made up for, and none of them ends early
\* (watchdog.rs:28-54).
THEOREM SilentNodesGo == Spec => []DetectedInTime
<1>1. IInv => DetectedInTime
  <2> SUFFICES ASSUME IInv, watchdog = "wait", now < deadline, NEW n \in Node, Known(n)
               PROVE  now - registry[n].lastSeen < 3 * Interval
    BY DEF DetectedInTime
  <2>1. /\ now \in Nat /\ deadline \in Nat /\ stamp \in Nat /\ Interval \in Nat
        /\ registry[n].lastSeen \in Nat
    BY WatchdogAssumption DEF IInv, TypeOK, Known, ConnectedNode
  <2>2. registry[n].lastSeen + 2 * Interval > stamp /\ deadline <= stamp + Interval
    BY DEF IInv, Swept, Young
  <2> QED BY <2>1, <2>2
<1> QED BY InitInv, NextInv, <1>1, PTL DEF Spec

\* An entry goes only by a clean up of its node, or by a sweep for which the
\* node was overdue at the instant the sweep read the clock and until it drew
\* up its list (watchdog.rs:32-43, bridge.rs:466-469).
THEOREM OnlyOverdueRemoved == Spec => RemovalProperty
BY InitInv, NextInv, RemovalStep, PTL DEF Spec, RemovalProperty

\* With overlapping connections and messages under anybody's name, a registered
\* node loses its capability to a sweep or to the clean up of a connection of
\* its own, never to a message (registry.rs:44-66, bridge.rs:411-431, 466-469).
THEOREM OnlyRemovalsForget == Spec => []CapabilityKept
<1>1. Init => CapabilityKept
  BY DEF Init, CapabilityKept
<1> QED BY WatchdogTypeCorrect, CapabilityStep, <1>1, PTL DEF Spec

=============================================================================
