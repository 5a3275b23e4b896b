-------------------------- MODULE HldmmTransportProofs --------------------------
(***************************************************************************)
(* What runs in the HLDMM transport can be got at, but for an accept loop  *)
(* whose handle was overwritten, and is reported once; the mesh has a      *)
(* platform where the translator's cache has it; and a track can be passed *)
(* on as it is: for any number of starts, stops, connections, nodes,       *)
(* objects and messages.                                                   *)
(*                                                                         *)
(* The first two hold because one accept loop at a time has the address.   *)
(* So the connection that is about to be registered is the latest, no      *)
(* other connection can have come between with its address, and the record *)
(* that it replaces is of a connection whose sensor has closed.            *)
(*                                                                         *)
(* The other two hold because all that is written on the mesh is in        *)
(* degrees and metres, and because of a platform about which nothing is    *)
(* unsure one task at most has a document in hand, which makes the mesh    *)
(* agree with the cache once it is merged.                                 *)
(***************************************************************************)
EXTENDS HldmmTransport, TLAPS

LoopState == {"none", "bind", "accept", "register", "greet", "dead"}
Joining == {"register", "greet"}
Serving == {"accept"} \union Joining

HldmmType ==
  /\ starts \in 0..MaxStarts /\ storing \subseteq Loop /\ detached \subseteq Loop
  /\ listener \in Loop \union {None}
  /\ loops \in [Loop -> LoopState] /\ cancelled \subseteq Loop
  /\ joining \in [Loop -> 0..MaxConn]
  /\ conn \in 0..MaxConn
  /\ address \in [Conn -> Address]
  /\ peers \in [Address -> Conn \union {None}]
  /\ receiver \in [Conn -> {"none", "recv", "publish", "ended"}]
  /\ aborted \subseteq Conn /\ leaving \subseteq Conn
  /\ alive \in [Conn -> BOOLEAN]
  /\ events \in [Conn -> [Connected : Nat, Disconnected : Nat]]
  /\ sensor \in [Conn -> {"none", "up", "closed"}]

\* A loop that nobody has cancelled is the listener, or is to be, or its handle
\* has been overwritten; one loop at a time has the address.
LoopsInv ==
  /\ \A l \in Loop : l > starts => loops[l] = "none"
  /\ \A l \in Loop :
       loops[l] \notin {"none", "dead"} /\ l \notin cancelled =>
         listener = l \/ l \in storing \/ l \in detached
  /\ \A k, l \in Loop : loops[k] \in Serving /\ loops[l] \in Serving => k = l

\* What a loop is about to register is the latest connection, which nobody but
\* the loop knows.
JoiningInv ==
  \A l \in Loop :
    /\ loops[l] \in Joining =>
         conn # 0 /\ joining[l] = conn /\ events[conn].Connected = 0
    /\ loops[l] = "register" =>
         /\ conn \notin aborted \union leaving
         /\ events[conn].Disconnected = 0
         /\ \A a \in Address : peers[a] # conn

\* Nothing is known of a connection before it is there.
FreshInv ==
  \A c \in Conn : c > conn =>
    /\ receiver[c] = "none" /\ alive[c] = FALSE
    /\ c \notin aborted \union leaving
    /\ events[c].Connected = 0 /\ events[c].Disconnected = 0

\* A connection on record is there under its own address, goes on, and has not
\* been reported as disconnected.
RecordInv ==
  \A a \in Address : peers[a] # None =>
    /\ peers[a] <= conn /\ address[peers[a]] = a
    /\ peers[a] \notin aborted \union leaving
    /\ events[peers[a]].Disconnected = 0

\* An address is given out again when the other end is closed.
AddressInv ==
  \A b, c \in 1..conn : b < c /\ address[b] = address[c] => sensor[b] = "closed"

\* A task whose flag is set and that nobody has aborted runs; one that runs is
\* on record, or is to be, or is at its end.
TaskInv ==
  /\ \A c \in Conn : alive[c] /\ c \notin aborted => Running(c)
  /\ \A c \in 1..conn : Running(c) /\ c \notin aborted =>
       \/ peers[address[c]] = c
       \/ c = conn /\ \E l \in Loop : loops[l] = "register"
       \/ sensor[c] = "closed"

EventInv ==
  /\ \A c \in leaving : events[c].Disconnected = 0
  /\ ReportedOnce

HldmmInv ==
  /\ HldmmType /\ LoopsInv /\ JoiningInv /\ FreshInv /\ RecordInv /\ AddressInv
  /\ TaskInv /\ EventInv

-----------------------------------------------------------------------------

LEMMA Bounds == MaxStarts \in Nat /\ MaxConn \in Nat
  BY HldmmAssumption

LEMMA HldmmInitially == Init => HldmmInv
<1> SUFFICES ASSUME Init PROVE HldmmInv
  OBVIOUS
<1>1. HldmmType
  <2>1. 0 \in 0..MaxStarts /\ 0 \in 0..MaxConn
    BY Bounds
  <2>2. events \in [Conn -> [Connected : Nat, Disconnected : Nat]]
    BY DEF Init
  <2>3. joining \in [Loop -> 0..MaxConn] /\ loops \in [Loop -> LoopState]
    BY <2>1 DEF Init, None, LoopState
  <2>4. address \in [Conn -> Address] /\ peers \in [Address -> Conn \union {None}]
    BY DEF Init, Address
  <2> QED BY <2>1, <2>2, <2>3, <2>4 DEF Init, HldmmType
<1>2. LoopsInv /\ JoiningInv /\ FreshInv /\ RecordInv /\ AddressInv
  BY Bounds DEF Init, LoopsInv, JoiningInv, FreshInv, RecordInv, AddressInv, Serving, Joining,
     Conn, Address, None
<1>3. TaskInv /\ EventInv
  BY Bounds DEF Init, TaskInv, EventInv, ReportedOnce, Running
<1>4. QED
  BY <1>1, <1>2, <1>3 DEF HldmmInv

-----------------------------------------------------------------------------
(***************************************************************************)
(* start(), stop() and disconnect().                                       *)
(***************************************************************************)

LEMMA StartKeeps ==
  ASSUME HldmmInv, Start
  PROVE  HldmmInv'
<1>1. /\ starts < MaxStarts /\ starts' = starts + 1
      /\ storing' = storing \union {starts + 1}
      /\ loops' = [loops EXCEPT ![starts + 1] = "bind"]
      /\ UNCHANGED << listener, detached, cancelled, joining, peers, events, leaving, receiver,
                      aborted, alive, conn, address, sensor >>
  BY DEF Start, peerVars, taskVars, networkVars
<1>2. HldmmType /\ LoopsInv
  BY DEF HldmmInv
<1>3. starts + 1 \in Loop /\ starts \in Nat
  BY <1>1, <1>2, Bounds DEF HldmmType, Loop
<1>4. \A l \in Loop \ {starts + 1} : loops'[l] = loops[l]
  BY <1>1, <1>2 DEF HldmmType
<1>5. loops'[starts + 1] = "bind"
  BY <1>1, <1>2, <1>3 DEF HldmmType
<1>6. HldmmType'
  BY <1>1, <1>2, <1>3, Bounds DEF HldmmType, LoopState
<1>7. LoopsInv'
  <2>1. \A l \in Loop : l > starts + 1 => l > starts /\ l # starts + 1
    BY <1>3 DEF Loop
  <2> QED BY <1>1, <1>2, <1>3, <1>4, <1>5, <2>1 DEF LoopsInv, Serving, Joining
<1>8. JoiningInv'
  BY <1>1, <1>4, <1>5 DEF HldmmInv, JoiningInv, Joining
<1>9. FreshInv' /\ RecordInv' /\ AddressInv' /\ EventInv'
  BY <1>1 DEF HldmmInv, FreshInv, RecordInv, AddressInv, EventInv, ReportedOnce
<1>10. TaskInv'
  <2>1. loops[starts + 1] = "none"
    BY <1>2, <1>3 DEF LoopsInv, Loop
  <2>2. (\E l \in Loop : loops[l] = "register") => \E l \in Loop : loops'[l] = "register"
    BY <1>4, <2>1
  <2> QED BY <1>1, <2>2 DEF HldmmInv, TaskInv, Running
<1>11. QED
  BY <1>6, <1>7, <1>8, <1>9, <1>10 DEF HldmmInv

\* The handle that is overwritten is of a loop that is left to itself.
LEMMA StoreListenerKeeps ==
  ASSUME HldmmInv, NEW l \in Loop, StoreListener(l)
  PROVE  HldmmInv'
<1>1. /\ storing' = storing \ {l} /\ listener' = l
      /\ detached' = IF listener = None THEN detached ELSE detached \union {listener}
      /\ UNCHANGED << starts, loops, cancelled, joining, peers, events, leaving, receiver, aborted,
                      alive, conn, address, sensor >>
  BY DEF StoreListener, loopVars, peerVars, taskVars, networkVars
<1>2. HldmmType /\ LoopsInv
  BY DEF HldmmInv
<1>3. HldmmType'
  BY <1>1, <1>2 DEF HldmmType
<1>4. LoopsInv'
  <2>1. \A k \in Loop : /\ (k # l /\ k \in storing) => k \in storing'
                       /\ (k = listener \/ k \in detached) => k \in detached'
    BY <1>1 DEF Loop, None
  <2> QED BY <1>1, <1>2, <2>1 DEF LoopsInv
<1>5. JoiningInv' /\ FreshInv' /\ RecordInv' /\ AddressInv' /\ TaskInv' /\ EventInv'
  BY <1>1 DEF HldmmInv, JoiningInv, FreshInv, RecordInv, AddressInv, TaskInv, EventInv,
     ReportedOnce, Running
<1>6. QED
  BY <1>3, <1>4, <1>5 DEF HldmmInv

LEMMA StopListenerKeeps ==
  ASSUME HldmmInv, StopListener
  PROVE  HldmmInv'
<1>1. /\ listener' = None
      /\ cancelled' = IF listener = None THEN cancelled ELSE cancelled \union {listener}
      /\ UNCHANGED << starts, storing, detached, loops, joining, peers, events, leaving, receiver, aborted,
                      alive, conn, address, sensor >>
  BY DEF StopListener, peerVars, taskVars, networkVars
<1>2. HldmmType /\ LoopsInv
  BY DEF HldmmInv
<1>3. HldmmType'
  BY <1>1, <1>2 DEF HldmmType
<1>4. LoopsInv'
  <2>1. \A l \in Loop : l # None /\ (l \notin cancelled' => l \notin cancelled /\ l # listener)
    BY <1>1, <1>2 DEF HldmmType, Loop, None
  <2> QED BY <1>1, <1>2, <2>1 DEF LoopsInv
<1>5. JoiningInv' /\ FreshInv' /\ RecordInv' /\ AddressInv' /\ TaskInv' /\ EventInv'
  BY <1>1 DEF HldmmInv, JoiningInv, FreshInv, RecordInv, AddressInv, TaskInv, EventInv,
     ReportedOnce, Running
<1>6. QED
  BY <1>3, <1>4, <1>5 DEF HldmmInv

\* The records go with their tasks; the connection that is about to be registered
\* is not among them.
LEMMA StopPeersKeeps ==
  ASSUME HldmmInv, StopPeers
  PROVE  HldmmInv'
<1>1. /\ aborted' = aborted \union Recorded
      /\ peers' = [a \in Address |-> None]
      /\ UNCHANGED << starts, storing, listener, detached, loops, cancelled, joining, events,
                      leaving, receiver, alive, conn, address, sensor >>
  BY DEF StopPeers, loopVars, networkVars
<1>2. HldmmType /\ LoopsInv
  BY DEF HldmmInv
<1>3. Recorded \subseteq 1..conn
  BY <1>2, Bounds DEF Recorded, HldmmType, HldmmInv, RecordInv, Conn, None
<1>4. HldmmType'
  BY <1>1, <1>2 DEF HldmmType, Recorded
<1>5. LoopsInv' /\ RecordInv' /\ AddressInv' /\ EventInv'
  BY <1>1, <1>2 DEF HldmmInv, LoopsInv, RecordInv, AddressInv, EventInv, ReportedOnce
<1>6. JoiningInv'
  <2>1. \A l \in Loop : loops[l] = "register" => conn \notin Recorded
    BY DEF HldmmInv, JoiningInv, Recorded
  <2>2. \A l \in Loop : loops[l] \in Joining => conn # None
    BY DEF HldmmInv, JoiningInv, None
  <2> QED BY <1>1, <2>1, <2>2 DEF HldmmInv, JoiningInv, Joining
<1>7. FreshInv'
  <2>1. \A c \in Conn : c > conn => c \notin Recorded
    BY <1>2, <1>3 DEF HldmmType, Conn
  <2> QED BY <1>1, <2>1 DEF HldmmInv, FreshInv
<1>8. TaskInv'
  <2>1. \A c \in 1..conn : peers[address[c]] = c => c \in Recorded
    BY <1>2, Bounds DEF HldmmType, Recorded, Conn, None
  <2> QED BY <1>1, <2>1 DEF HldmmInv, TaskInv, Running
<1>9. QED
  BY <1>4, <1>5, <1>6, <1>7, <1>8 DEF HldmmInv

LEMMA DisconnectKeeps ==
  ASSUME HldmmInv, NEW a \in Address, Disconnect(a)
  PROVE  HldmmInv'
<1> DEFINE p == peers[a]
<1>1. /\ p # None /\ aborted' = aborted \union {p} /\ leaving' = leaving \union {p}
      /\ peers' = [peers EXCEPT ![a] = None]
      /\ UNCHANGED << starts, storing, listener, detached, loops, cancelled, joining, events,
                      receiver, alive, conn, address, sensor >>
  BY DEF Disconnect, startVars, loopVars, networkVars
<1>2. HldmmType /\ RecordInv
  BY DEF HldmmInv
<1>3. /\ p \in Conn /\ p <= conn /\ address[p] = a /\ events[p].Disconnected = 0
      /\ \A b \in Address : b # a /\ peers[b] # None => peers[b] # p
  BY <1>1, <1>2 DEF HldmmType, RecordInv
<1>4. peers'[a] = None /\ \A b \in Address \ {a} : peers'[b] = peers[b]
  BY <1>1, <1>2 DEF HldmmType
<1>5. HldmmType'
  BY <1>1, <1>2, <1>3 DEF HldmmType
<1>6. LoopsInv' /\ AddressInv' /\ EventInv'
  BY <1>1, <1>3 DEF HldmmInv, LoopsInv, AddressInv, EventInv, ReportedOnce
<1>7. JoiningInv'
  <2>1. \A l \in Loop : loops[l] = "register" => conn # p /\ conn # None
    BY DEF HldmmInv, JoiningInv, Joining, None
  <2> QED BY <1>1, <1>4, <2>1 DEF HldmmInv, JoiningInv
<1>8. FreshInv'
  <2>1. \A c \in Conn : c > conn => c # p
    BY <1>2, <1>3 DEF HldmmType, Conn
  <2> QED BY <1>1, <2>1 DEF HldmmInv, FreshInv
<1>9. RecordInv'
  BY <1>1, <1>2, <1>3, <1>4 DEF RecordInv
<1>10. TaskInv'
  <2>1. \A c \in 1..conn : address[c] \in Address /\ c # None
    BY <1>2, Bounds DEF HldmmType, Conn, None
  <2>2. \A c \in 1..conn : c \notin aborted' /\ peers[address[c]] = c => peers'[address[c]] = c
    BY <1>1, <1>4, <2>1
  <2> QED BY <1>1, <2>2 DEF HldmmInv, TaskInv, Running
<1>11. QED
  BY <1>5, <1>6, <1>7, <1>8, <1>9, <1>10 DEF HldmmInv

LEMMA EmitDisconnectedKeeps ==
  ASSUME HldmmInv, NEW c \in Conn, EmitDisconnected(c)
  PROVE  HldmmInv'
<1>1. /\ c \in leaving /\ leaving' = leaving \ {c}
      /\ events' = [events EXCEPT ![c].Disconnected = @ + 1]
      /\ UNCHANGED << starts, storing, listener, detached, loops, cancelled, joining, peers,
                      receiver, aborted, alive, conn, address, sensor >>
  BY DEF EmitDisconnected, startVars, loopVars, taskVars, networkVars
<1>2. HldmmType /\ events[c].Disconnected = 0
  BY <1>1 DEF HldmmInv, EventInv
<1>3. /\ \A b \in Conn : events'[b].Connected = events[b].Connected
      /\ \A b \in Conn \ {c} : events'[b].Disconnected = events[b].Disconnected
      /\ events'[c].Disconnected = 1
      /\ events' \in [Conn -> [Connected : Nat, Disconnected : Nat]]
  BY <1>1, <1>2 DEF HldmmType
<1>4. HldmmType'
  BY <1>1, <1>2, <1>3 DEF HldmmType
<1>5. LoopsInv' /\ AddressInv' /\ TaskInv'
  BY <1>1 DEF HldmmInv, LoopsInv, AddressInv, TaskInv, Running
<1>6. JoiningInv'
  <2>1. conn # 0 => conn \in Conn
    BY <1>2, Bounds DEF HldmmType, Conn
  <2> QED BY <1>1, <1>3, <2>1 DEF HldmmInv, JoiningInv, Joining
<1>7. FreshInv' /\ EventInv'
  BY <1>1, <1>2, <1>3 DEF HldmmInv, FreshInv, EventInv, ReportedOnce, HldmmType
<1>8. RecordInv'
  <2>1. \A a \in Address : peers[a] # None => peers[a] \in Conn /\ peers[a] # c
    BY <1>1, <1>2 DEF HldmmInv, HldmmType, RecordInv
  <2> QED BY <1>1, <1>3, <2>1 DEF HldmmInv, RecordInv
<1>9. QED
  BY <1>4, <1>5, <1>6, <1>7, <1>8 DEF HldmmInv

-----------------------------------------------------------------------------
(***************************************************************************)
(* run_hldmm_accept_loop.                                                  *)
(***************************************************************************)

\* A step of a loop that registers nothing.
LEMMA LoopKeeps ==
  ASSUME HldmmInv, NEW l \in Loop, NEW to \in {"accept", "dead"},
         loops' = [loops EXCEPT ![l] = to], loops[l] \in {"bind", "accept"},
         to = "accept" => \A k \in Loop : loops[k] \notin Serving,
         UNCHANGED << startVars, cancelled, joining, peerVars, taskVars, networkVars >>
  PROVE  HldmmInv'
<1>1. UNCHANGED << starts, storing, listener, detached, cancelled, joining, peers, events, leaving,
                   receiver, aborted, alive, conn, address, sensor >>
  BY DEF startVars, peerVars, taskVars, networkVars
<1>2. HldmmType /\ LoopsInv
  BY DEF HldmmInv
<1>3. loops'[l] = to /\ \A k \in Loop \ {l} : loops'[k] = loops[k]
  BY <1>2 DEF HldmmType
<1>4. HldmmType'
  BY <1>1, <1>2 DEF HldmmType, LoopState
<1>5. LoopsInv'
  BY <1>1, <1>2, <1>3 DEF LoopsInv, Serving, Joining
<1>6. JoiningInv'
  BY <1>1, <1>3 DEF HldmmInv, JoiningInv, Joining
<1>7. FreshInv' /\ RecordInv' /\ AddressInv' /\ EventInv'
  BY <1>1 DEF HldmmInv, FreshInv, RecordInv, AddressInv, EventInv, ReportedOnce
<1>8. TaskInv'
  <2>1. (\E k \in Loop : loops[k] = "register") => \E k \in Loop : loops'[k] = "register"
    BY <1>3
  <2> QED BY <1>1, <2>1 DEF HldmmInv, TaskInv, Running
<1>9. QED
  BY <1>4, <1>5, <1>6, <1>7, <1>8 DEF HldmmInv

LEMMA BindKeeps ==
  ASSUME HldmmInv, NEW l \in Loop, NEW succeeds \in BOOLEAN, Bind(l, succeeds)
  PROVE  HldmmInv'
<1> DEFINE to == IF succeeds THEN "accept" ELSE "dead"
<1>1. /\ loops' = [loops EXCEPT ![l] = to] /\ loops[l] = "bind" /\ to \in {"accept", "dead"}
      /\ to = "accept" => \A k \in Loop : loops[k] \notin Serving
      /\ UNCHANGED << startVars, cancelled, joining, peerVars, taskVars, networkVars >>
  BY DEF Bind, Serving, Joining
<1> HIDE DEF to
<1>2. QED
  BY <1>1, LoopKeeps

LEMMA LoopDiesKeeps ==
  ASSUME HldmmInv, NEW l \in Loop, LoopDies(l)
  PROVE  HldmmInv'
<1>1. /\ loops' = [loops EXCEPT ![l] = "dead"] /\ loops[l] \in {"bind", "accept"}
      /\ UNCHANGED << startVars, cancelled, joining, peerVars, taskVars, networkVars >>
  BY DEF LoopDies
<1>2. QED
  BY <1>1, LoopKeeps

\* The new connection is the latest, its loop is the only one that serves, and
\* those that had its address are closed.
LEMMA AcceptKeeps ==
  ASSUME HldmmInv, NEW l \in Loop, NEW a \in Address, Accept(l, a)
  PROVE  HldmmInv'
<1> DEFINE new == conn + 1
<1>1. /\ loops[l] = "accept" /\ conn < MaxConn /\ conn' = new
      /\ \A c \in 1..conn : address[c] = a => sensor[c] = "closed"
      /\ address' = [address EXCEPT ![new] = a]
      /\ sensor' = [sensor EXCEPT ![new] = "up"]
      /\ receiver' = [receiver EXCEPT ![new] = "recv"]
      /\ alive' = [alive EXCEPT ![new] = TRUE]
      /\ joining' = [joining EXCEPT ![l] = new]
      /\ loops' = [loops EXCEPT ![l] = "register"]
      /\ UNCHANGED << starts, storing, listener, detached, cancelled, peers, events, leaving,
                      aborted >>
  BY DEF Accept, startVars, peerVars
<1>2. HldmmType /\ LoopsInv /\ FreshInv /\ RecordInv
  BY DEF HldmmInv
<1>3. conn \in Nat /\ new \in Conn /\ new > conn /\ new # 0 /\ new \in 0..MaxConn
  BY <1>1, <1>2, Bounds DEF HldmmType, Conn
<1>4. 1..conn' = (1..conn) \union {new} /\ 1..conn \subseteq Conn \ {new}
      /\ \A c \in Conn : c > conn' => c > conn /\ c # new
  BY <1>1, <1>3, Bounds DEF Conn
<1> HIDE DEF new
<1>5. /\ address'[new] = a /\ sensor'[new] = "up" /\ receiver'[new] = "recv" /\ alive'[new] = TRUE
      /\ \A c \in Conn \ {new} : /\ address'[c] = address[c] /\ sensor'[c] = sensor[c]
                                 /\ receiver'[c] = receiver[c] /\ alive'[c] = alive[c]
  BY <1>1, <1>2, <1>3 DEF HldmmType
<1>6. /\ loops'[l] = "register" /\ joining'[l] = new
      /\ \A k \in Loop \ {l} : loops'[k] = loops[k] /\ joining'[k] = joining[k]
  BY <1>1, <1>2 DEF HldmmType
<1>7. HldmmType'
  BY <1>1, <1>2, <1>3 DEF HldmmType, LoopState
<1>8. LoopsInv'
  BY <1>1, <1>2, <1>6 DEF LoopsInv, Serving, Joining
<1>9. \A k \in Loop \ {l} : loops'[k] \notin Serving
  BY <1>1, <1>2, <1>6 DEF LoopsInv, Serving, Joining
<1>10. JoiningInv'
  <2>1. /\ new \notin aborted \union leaving
        /\ events[new].Connected = 0 /\ events[new].Disconnected = 0
    BY <1>2, <1>3 DEF FreshInv
  <2>2. \A b \in Address : peers[b] # new
    BY <1>2, <1>3 DEF RecordInv, None
  <2> QED BY <1>1, <1>3, <1>6, <1>9, <2>1, <2>2 DEF JoiningInv, Serving, Joining
<1>11. FreshInv'
  BY <1>1, <1>2, <1>4, <1>5 DEF FreshInv
<1>12. RecordInv'
  <2>1. \A b \in Address : peers[b] # None =>
          peers[b] \in Conn \ {new} /\ (peers[b] <= conn => peers[b] <= conn')
    BY <1>1, <1>2, <1>3 DEF HldmmType, RecordInv, Conn, new
  <2> QED BY <1>1, <1>2, <1>5, <2>1 DEF RecordInv
<1>13. AddressInv'
  <2> SUFFICES ASSUME NEW b \in 1..conn', NEW c \in 1..conn', b < c, address'[b] = address'[c]
               PROVE  sensor'[b] = "closed"
    BY DEF AddressInv
  <2>1. b \in 1..conn
    BY <1>1, <1>3 DEF new
  <2>2. CASE c = new
    BY <1>1, <1>4, <1>5, <2>1, <2>2
  <2>3. CASE c \in 1..conn
    BY <1>4, <1>5, <2>1, <2>3 DEF HldmmInv, AddressInv
  <2> QED BY <1>4, <2>2, <2>3
<1>14. TaskInv'
  <2>1. \A c \in Conn : alive'[c] /\ c \notin aborted' => Running(c)'
    BY <1>1, <1>5 DEF HldmmInv, TaskInv, Running
  <2>2. ~ \E k \in Loop : loops[k] = "register"
    BY <1>1, <1>2 DEF LoopsInv, Serving, Joining
  <2>3. \A c \in 1..conn : Running(c)' /\ c \notin aborted' =>
           peers'[address'[c]] = c \/ sensor'[c] = "closed"
    BY <1>1, <1>4, <1>5, <2>2 DEF HldmmInv, TaskInv, Running
  <2> QED BY <1>1, <1>4, <1>6, <2>1, <2>3 DEF TaskInv
<1>15. EventInv'
  BY <1>1 DEF HldmmInv, EventInv, ReportedOnce
<1>16. QED
  BY <1>7, <1>8, <1>10, <1>11, <1>12, <1>13, <1>14, <1>15 DEF HldmmInv

\* The record that is replaced, if any, is of a connection that is closed.
LEMMA RegisterPeerKeeps ==
  ASSUME HldmmInv, NEW l \in Loop, RegisterPeer(l)
  PROVE  HldmmInv'
<1>1. HldmmType /\ LoopsInv /\ loops[l] = "register" /\ joining[l] = conn
  BY DEF HldmmInv, JoiningInv, Joining, RegisterPeer
<1>2. /\ conn \in Conn /\ conn \notin aborted \union leaving /\ events[conn].Disconnected = 0
      /\ events[conn].Connected = 0 /\ address[conn] \in Address /\ conn # None
  BY <1>1, Bounds DEF HldmmInv, JoiningInv, Joining, HldmmType, Conn, None
<1> DEFINE a == address[conn]
<1>3. /\ peers' = [peers EXCEPT ![a] = conn]
      /\ loops' = [loops EXCEPT ![l] = "greet"]
      /\ UNCHANGED << starts, storing, listener, detached, cancelled, joining, events, leaving,
                      receiver, aborted, alive, conn, address, sensor >>
  BY <1>1 DEF RegisterPeer, startVars, taskVars, networkVars
<1>4. peers'[a] = conn /\ \A b \in Address \ {a} : peers'[b] = peers[b]
  BY <1>1, <1>2, <1>3 DEF HldmmType
<1>5. loops'[l] = "greet" /\ \A k \in Loop \ {l} : loops'[k] = loops[k] /\ loops[k] \notin Serving
  BY <1>1, <1>3 DEF HldmmType, LoopsInv, Serving, Joining
<1>6. HldmmType'
  BY <1>1, <1>2, <1>3 DEF HldmmType, LoopState
<1>7. LoopsInv'
  BY <1>1, <1>3, <1>5 DEF LoopsInv, Serving, Joining
<1>8. JoiningInv'
  BY <1>1, <1>2, <1>3, <1>5 DEF JoiningInv, Serving, Joining, None
<1>9. FreshInv' /\ AddressInv' /\ EventInv'
  BY <1>3 DEF HldmmInv, FreshInv, AddressInv, EventInv, ReportedOnce
<1>10. RecordInv'
  <2>1. conn <= conn
    BY <1>1, Bounds DEF HldmmType
  <2> QED BY <1>2, <1>3, <1>4, <2>1 DEF HldmmInv, RecordInv
<1>11. TaskInv'
  <2> SUFFICES ASSUME NEW c \in 1..conn, Running(c), c \notin aborted
               PROVE  peers'[address[c]] = c \/ sensor[c] = "closed"
    BY <1>3 DEF HldmmInv, TaskInv, Running
  <2>1. CASE c = conn
    BY <1>4, <2>1
  <2>2. CASE c # conn /\ address[c] = a
    <3>1. c < conn /\ conn \in 1..conn
      BY <1>1, <1>2, <2>2, Bounds DEF HldmmType, Conn
    <3> QED BY <2>2, <3>1 DEF HldmmInv, AddressInv
  <2>3. CASE c # conn /\ address[c] # a
    <3>1. address[c] \in Address
      BY <1>1, Bounds DEF HldmmType, Conn
    <3> QED BY <1>4, <2>3, <3>1 DEF HldmmInv, TaskInv
  <2> QED BY <2>1, <2>2, <2>3
<1>12. QED
  BY <1>6, <1>7, <1>8, <1>9, <1>10, <1>11 DEF HldmmInv

LEMMA EmitConnectedKeeps ==
  ASSUME HldmmInv, NEW l \in Loop, EmitConnected(l)
  PROVE  HldmmInv'
<1>1. HldmmType /\ LoopsInv /\ loops[l] = "greet" /\ joining[l] = conn
  BY DEF HldmmInv, JoiningInv, Joining, EmitConnected
<1>2. conn \in Conn /\ events[conn].Connected = 0
  BY <1>1, Bounds DEF HldmmInv, JoiningInv, Joining, HldmmType, Conn
<1>3. /\ events' = [events EXCEPT ![conn].Connected = @ + 1]
      /\ loops' = [loops EXCEPT ![l] = "accept"]
      /\ UNCHANGED << starts, storing, listener, detached, cancelled, joining, peers, leaving,
                      receiver, aborted, alive, conn, address, sensor >>
  BY <1>1 DEF EmitConnected, startVars, taskVars, networkVars
<1>4. /\ \A c \in Conn : events'[c].Disconnected = events[c].Disconnected
      /\ \A c \in Conn \ {conn} : events'[c].Connected = events[c].Connected
      /\ events'[conn].Connected = 1
      /\ events' \in [Conn -> [Connected : Nat, Disconnected : Nat]]
  BY <1>1, <1>2, <1>3 DEF HldmmType
<1>5. loops'[l] = "accept" /\ \A k \in Loop \ {l} : loops'[k] = loops[k] /\ loops[k] \notin Serving
  BY <1>1, <1>3 DEF HldmmType, LoopsInv, Serving, Joining
<1>6. HldmmType'
  BY <1>1, <1>3, <1>4 DEF HldmmType, LoopState
<1>7. LoopsInv'
  BY <1>1, <1>3, <1>5 DEF LoopsInv, Serving, Joining
<1>8. JoiningInv'
  BY <1>5 DEF JoiningInv, Serving, Joining
<1>9. FreshInv'
  <2>1. \A c \in Conn : c > conn => c # conn
    BY <1>1 DEF HldmmType, Conn
  <2> QED BY <1>3, <1>4, <2>1 DEF HldmmInv, FreshInv
<1>10. RecordInv'
  BY <1>1, <1>3, <1>4 DEF HldmmInv, RecordInv, HldmmType
<1>11. AddressInv'
  BY <1>3 DEF HldmmInv, AddressInv
<1>12. TaskInv'
  <2>1. ~ \E k \in Loop : loops[k] = "register"
    BY <1>1, <1>5 DEF Serving, Joining
  <2> QED BY <1>3, <2>1 DEF HldmmInv, TaskInv, Running
<1>13. EventInv'
  BY <1>1, <1>3, <1>4 DEF HldmmInv, EventInv, ReportedOnce, HldmmType
<1>14. QED
  BY <1>6, <1>7, <1>8, <1>9, <1>10, <1>11, <1>12, <1>13 DEF HldmmInv

-----------------------------------------------------------------------------
(***************************************************************************)
(* run_peer_recv_loop.                                                     *)
(***************************************************************************)

\* A step of a receiving task that does not end it.
LEMMA RunningKeeps ==
  ASSUME HldmmInv, NEW c \in Conn, NEW to \in {"recv", "publish"},
         Running(c), receiver' = [receiver EXCEPT ![c] = to],
         UNCHANGED << startVars, loopVars, peerVars, aborted, alive, networkVars >>
  PROVE  HldmmInv'
<1>1. UNCHANGED << starts, storing, listener, detached, loops, cancelled, joining, peers, events,
                   leaving, aborted, alive, conn, address, sensor >>
  BY DEF startVars, loopVars, peerVars, networkVars
<1>2. HldmmType
  BY DEF HldmmInv
<1>3. receiver'[c] = to /\ \A b \in Conn \ {c} : receiver'[b] = receiver[b]
  BY <1>2 DEF HldmmType
<1>4. HldmmType'
  BY <1>1, <1>2 DEF HldmmType
<1>5. LoopsInv' /\ JoiningInv' /\ RecordInv' /\ AddressInv' /\ EventInv'
  BY <1>1 DEF HldmmInv, LoopsInv, JoiningInv, RecordInv, AddressInv, EventInv, ReportedOnce
<1>6. FreshInv'
  BY <1>1, <1>3 DEF HldmmInv, FreshInv, Running
<1>7. \A b \in Conn : Running(b)' = Running(b)
  BY <1>3 DEF Running
<1>8. TaskInv'
  <2>1. 1..conn \subseteq Conn
    BY <1>2, Bounds DEF HldmmType, Conn
  <2> QED BY <1>1, <1>7, <2>1 DEF HldmmInv, TaskInv
<1>9. QED
  BY <1>4, <1>5, <1>6, <1>8 DEF HldmmInv

LEMMA ReceiveKeeps ==
  ASSUME HldmmInv, NEW c \in Conn, NEW m \in Message, Receive(c, m)
  PROVE  HldmmInv'
<1>1. /\ Running(c)
      /\ receiver' = receiver \/ receiver' = [receiver EXCEPT ![c] = "publish"]
      /\ UNCHANGED << startVars, loopVars, peerVars, aborted, alive, networkVars >>
  BY DEF Receive, Running
<1>2. receiver[c] = "recv" /\ receiver = [receiver EXCEPT ![c] = "recv"]
  BY DEF Receive, HldmmInv, HldmmType
<1>3. QED
  BY <1>1, <1>2, RunningKeeps

LEMMA PublishKeeps ==
  ASSUME HldmmInv, NEW c \in Conn, NEW fails \in BOOLEAN, Publish(c, fails)
  PROVE  HldmmInv'
<1>1. /\ Running(c) /\ receiver' = [receiver EXCEPT ![c] = "recv"]
      /\ UNCHANGED << startVars, loopVars, peerVars, aborted, alive, networkVars >>
  BY DEF Publish, Running
<1>2. QED
  BY <1>1, RunningKeeps

LEMMA EndKeeps ==
  ASSUME HldmmInv, NEW c \in Conn, End(c)
  PROVE  HldmmInv'
<1>1. /\ receiver[c] = "recv" /\ receiver' = [receiver EXCEPT ![c] = "ended"]
      /\ alive' = [alive EXCEPT ![c] = FALSE]
      /\ UNCHANGED << starts, storing, listener, detached, loops, cancelled, joining, peers, events,
                      leaving, aborted, conn, address, sensor >>
  BY DEF End, startVars, loopVars, peerVars, networkVars
<1>2. HldmmType
  BY DEF HldmmInv
<1>3. /\ receiver'[c] = "ended" /\ alive'[c] = FALSE
      /\ \A b \in Conn \ {c} : receiver'[b] = receiver[b] /\ alive'[b] = alive[b]
  BY <1>1, <1>2 DEF HldmmType
<1>4. HldmmType'
  BY <1>1, <1>2 DEF HldmmType
<1>5. LoopsInv' /\ JoiningInv' /\ RecordInv' /\ AddressInv' /\ EventInv'
  BY <1>1 DEF HldmmInv, LoopsInv, JoiningInv, RecordInv, AddressInv, EventInv, ReportedOnce
<1>6. FreshInv'
  BY <1>1, <1>3 DEF HldmmInv, FreshInv
<1>7. TaskInv'
  <2>1. 1..conn \subseteq Conn
    BY <1>2, Bounds DEF HldmmType, Conn
  <2> QED BY <1>1, <1>3, <2>1 DEF HldmmInv, TaskInv, Running
<1>8. QED
  BY <1>4, <1>5, <1>6, <1>7 DEF HldmmInv

LEMMA CloseKeeps ==
  ASSUME HldmmInv, NEW c \in Conn, Close(c)
  PROVE  HldmmInv'
<1>1. /\ sensor' = [sensor EXCEPT ![c] = "closed"]
      /\ UNCHANGED << starts, storing, listener, detached, loops, cancelled, joining, peers, events,
                      leaving, receiver, aborted, alive, conn, address >>
  BY DEF Close, startVars, loopVars, peerVars, taskVars
<1>2. HldmmType
  BY DEF HldmmInv
<1>3. /\ sensor'[c] = "closed" /\ \A b \in Conn \ {c} : sensor'[b] = sensor[b]
      /\ 1..conn \subseteq Conn
  BY <1>1, <1>2, Bounds DEF HldmmType, Conn
<1>4. HldmmType'
  BY <1>1, <1>2 DEF HldmmType
<1>5. LoopsInv' /\ JoiningInv' /\ RecordInv' /\ EventInv' /\ FreshInv'
  BY <1>1 DEF HldmmInv, LoopsInv, JoiningInv, RecordInv, FreshInv, EventInv, ReportedOnce
<1>6. AddressInv' /\ TaskInv'
  BY <1>1, <1>3 DEF HldmmInv, AddressInv, TaskInv, Running
<1>7. QED
  BY <1>4, <1>5, <1>6 DEF HldmmInv

LEMMA TaskDiesKeeps ==
  ASSUME HldmmInv, NEW c \in Conn, TaskDies(c)
  PROVE  HldmmInv'
<1>1. /\ c \in aborted /\ receiver' = [receiver EXCEPT ![c] = "ended"]
      /\ sensor' = [sensor EXCEPT ![c] = "closed"] /\ Running(c)
      /\ UNCHANGED << starts, storing, listener, detached, loops, cancelled, joining, peers, events,
                      leaving, aborted, alive, conn, address >>
  BY DEF TaskDies, Running, startVars, loopVars, peerVars
<1>2. HldmmType
  BY DEF HldmmInv
<1>3. /\ sensor'[c] = "closed" /\ receiver'[c] = "ended"
      /\ \A b \in Conn \ {c} : sensor'[b] = sensor[b] /\ receiver'[b] = receiver[b]
      /\ 1..conn \subseteq Conn
  BY <1>1, <1>2, Bounds DEF HldmmType, Conn
<1>4. HldmmType'
  BY <1>1, <1>2 DEF HldmmType
<1>5. LoopsInv' /\ JoiningInv' /\ RecordInv' /\ EventInv'
  BY <1>1 DEF HldmmInv, LoopsInv, JoiningInv, RecordInv, EventInv, ReportedOnce
<1>6. FreshInv'
  BY <1>1, <1>3 DEF HldmmInv, FreshInv, Running
<1>7. AddressInv' /\ TaskInv'
  BY <1>1, <1>3 DEF HldmmInv, AddressInv, TaskInv, Running
<1>8. QED
  BY <1>4, <1>5, <1>6, <1>7 DEF HldmmInv

-----------------------------------------------------------------------------

LEMMA HldmmStep == HldmmInv /\ [Next]_vars => HldmmInv'
<1> SUFFICES ASSUME HldmmInv, [Next]_vars PROVE HldmmInv'
  OBVIOUS
<1>1. CASE Start \/ StopListener \/ StopPeers \/ \E a \in Address : Disconnect(a)
  BY <1>1, StartKeeps, StopListenerKeeps, StopPeersKeeps, DisconnectKeeps
<1>2. ASSUME NEW l \in Loop, LoopSteps(l) PROVE HldmmInv'
  BY <1>2, StoreListenerKeeps, BindKeeps, AcceptKeeps, RegisterPeerKeeps, EmitConnectedKeeps, LoopDiesKeeps
     DEF LoopSteps
<1>3. ASSUME NEW c \in Conn, EmitDisconnected(c) \/ TaskSteps(c) \/ Close(c) PROVE HldmmInv'
  BY <1>3, EmitDisconnectedKeeps, ReceiveKeeps, PublishKeeps, EndKeeps, CloseKeeps, TaskDiesKeeps
     DEF TaskSteps
<1>4. CASE UNCHANGED vars
  <2>1. UNCHANGED << starts, storing, listener, detached, loops, cancelled, joining, peers, events,
                     leaving, receiver, aborted, alive, conn, address, sensor >>
    BY <1>4 DEF vars, startVars, loopVars, peerVars, taskVars, networkVars
  <2> QED BY <2>1 DEF HldmmInv, HldmmType, LoopsInv, JoiningInv, FreshInv, RecordInv, AddressInv,
             TaskInv, EventInv, ReportedOnce, Running
<1>5. QED
  BY <1>1, <1>2, <1>3, <1>4 DEF Next

LEMMA HldmmInvariant == Spec => []HldmmInv
<1> QED BY HldmmInitially, HldmmStep, PTL DEF Spec

\* However many calls of start(), stop() and disconnect() overlap with the accept
\* loops and the sensors, what runs and is to go on can be got at, but for the
\* accept loops whose handle a later start() has overwritten; and a record that
\* says its peer is healthy is of a task that runs
\* (transport.rs:251-274, 322-366, 666-798).
THEOREM RecordsAlwaysMatch == Spec => []RecordsMatchTasks
<1>1. HldmmInv => RecordsMatchTasks
  <2> SUFFICES ASSUME HldmmInv PROVE RecordsMatchTasks
    OBVIOUS
  <2>1. \A c \in Recorded : alive[c] => Running(c) /\ c \notin aborted
    <3> SUFFICES ASSUME NEW a \in Address, peers[a] # None, alive[peers[a]]
                 PROVE  Running(peers[a]) /\ peers[a] \notin aborted
      BY DEF Recorded
    <3>1. peers[a] \in Conn /\ peers[a] \notin aborted
      BY DEF HldmmInv, HldmmType, RecordInv
    <3> QED BY <3>1 DEF HldmmInv, TaskInv
  <2>2. \A l \in Loop : loops[l] = "register" => joining[l] = conn
    BY DEF HldmmInv, JoiningInv, Joining
  <2> QED BY <2>1, <2>2 DEF HldmmInv, LoopsInv, TaskInv, RecordsMatchTasks
<1>2. QED
  BY <1>1, HldmmInvariant, PTL

\* Every connection is reported at most once as connected, and at most once as
\* disconnected, whoever disconnects it (transport.rs:259-273, 783-798).
THEOREM EventsAreReportedOnce == Spec => []ReportedOnce
<1>1. HldmmInv => ReportedOnce
  BY DEF HldmmInv, EventInv
<1>2. QED
  BY <1>1, HldmmInvariant, PTL

-----------------------------------------------------------------------------
(***************************************************************************)
(* The documents. What the mesh has of a platform is where the cache has   *)
(* it, or it will be when the one document in hand for it is published.    *)
(***************************************************************************)

InDegrees(p) == p.latitude = "deg" /\ p.longitude = "deg" /\ p.altitude = "m"

Alone(set) == \A x, y \in set : x = y

\* The document of a track that can be passed on as it is.
Relayable(document) ==
  /\ Field(document, "lon") = Field(document, "lat")
  /\ \A v \in Field(document, "lat") : v = << v[1], "deg" >>
  /\ \A v \in Field(document, "hae") : v = << v[1], "m" >> /\ v[1] # "zero"
  /\ \A v \in Field(document, "sapient_classification") : v # ""
  /\ \A f \in {"lat", "hae", "sapient_classification"} : Alone(Field(document, f))

MeshType ==
  /\ tracks = [o \in Object |-> tracks[o]]
  /\ platforms = [n \in Node |-> platforms[n]]

\* A node is in one place, in degrees and metres.
CacheInv ==
  /\ cache = [n \in Node |-> cache[n]]
  /\ \A n \in Node : Alone(cache[n]) /\ \A p \in cache[n] : InDegrees(p)

OfPlatform(d, n) == d.collection = "platforms" /\ d.id = n

\* A task has a document while it publishes, and only one has one of a platform
\* that nothing is unsure about.
HandInv ==
  /\ hand = [c \in Conn |-> hand[c]]
  /\ \A c \in Conn :
       /\ hand[c] # {} => receiver[c] = "publish"
       /\ Alone(hand[c])
       /\ \A d \in hand[c] :
            \/ d.collection = "platforms" /\ d.id \in Node
            \/ d.collection = "tracks" /\ d.id \in Object /\ Relayable(d.fields)
  /\ \A b, c \in Conn : \A n \in Node \ unsure :
       (\E d \in hand[b] : OfPlatform(d, n)) /\ (\E e \in hand[c] : OfPlatform(e, n)) => b = c

\* What a document says of a place, for each of the two fields.
Degrees(places) == { << p.at, "deg" >> : p \in places }

Agrees(document, n) ==
  /\ Field(document, "lat") = Degrees(cache[n])
  /\ Field(document, "lon") = Degrees(cache[n])

AgreeInv ==
  \A n \in Node \ unsure :
    \/ Agrees(platforms[n], n) /\ \A c \in Conn : \A d \in hand[c] : ~OfPlatform(d, n)
    \/ \E c \in Conn : \E d \in hand[c] :
         OfPlatform(d, n) /\ Agrees(Merge(platforms[n], d.fields), n)

TrackInv == \A o \in Object : Relayable(tracks[o])

DocumentInv == MeshType /\ CacheInv /\ HandInv /\ AgreeInv /\ TrackInv

\* All coordinate systems that are read are read in degrees and metres.
LEMMA LocationInDegrees ==
  ASSUME NEW loc, NEW p \in LocationToTrackPosition(loc)
  PROVE  InDegrees(p)
<1> DEFINE cs == loc.cs
           angle == CASE cs \in {1, 3} -> AngleUnit[cs]
                      [] cs \in {2, 4} -> ToDegrees(AngleUnit[cs])
                      [] cs = 5 -> IF AngleUnit[cs] = "m" THEN "deg" ELSE "wrong"
           height == IF cs \in {3, 4} THEN FeetToMetres(HeightUnit[cs]) ELSE HeightUnit[cs]
<1>1. /\ cs \in 1..5
      /\ p = [at |-> loc.at, latitude |-> angle, longitude |-> angle, altitude |-> height,
              z |-> loc.z, cep_m |-> ErrorsToMetres(AngleUnit[cs], cs)]
  BY DEF LocationToTrackPosition
<1>2. angle = "deg"
  BY <1>1 DEF AngleUnit, ToDegrees
<1>3. height = "m"
  BY <1>1 DEF HeightUnit, FeetToMetres
<1> HIDE DEF angle, height
<1>4. QED
  BY <1>1, <1>2, <1>3 DEF InDegrees

\* The last writer of a field wins, and a field it does not write stays.
LEMMA FieldOfMerge ==
  ASSUME NEW document, NEW fields, NEW name
  PROVE  Field(Merge(document, fields), name) =
           IF Field(fields, name) = {} THEN Field(document, name) ELSE Field(fields, name)
  BY DEF Field, Merge

LEMMA FieldOfUnion ==
  ASSUME NEW a, NEW b, NEW name
  PROVE  Field(a \union b, name) = Field(a, name) \union Field(b, name)
  BY DEF Field

LEMMA FieldOfOne ==
  ASSUME NEW written, NEW value, NEW name
  PROVE  Field({<< written, value >>}, name) = IF written = name THEN {value} ELSE {}
<1> DEFINE pair == << written, value >>
<1>1. pair[1] = written /\ pair[2] = value
  OBVIOUS
<1> HIDE DEF pair
<1>2. Field({pair}, name) = IF written = name THEN {value} ELSE {}
  BY <1>1 DEF Field
<1>3. QED
  BY <1>2 DEF pair

LEMMA FieldOfNone == \A name : Field({}, name) = {}
  BY DEF Field

LEMMA FieldOfWhen ==
  ASSUME NEW condition \in BOOLEAN, NEW written, NEW value, NEW name
  PROVE  Field(When(condition, written, value), name) =
           IF condition /\ written = name THEN {value} ELSE {}
  BY FieldOfOne, FieldOfNone DEF When

\* A detection says where it was, what it was, and how high if it was not at zero.
LEMMA FieldOfTrack ==
  ASSUME NEW t
  PROVE  /\ Field(TrackToFields(t), "lat") = {<< t.position.at, t.position.latitude >>}
         /\ Field(TrackToFields(t), "lon") = {<< t.position.at, t.position.longitude >>}
         /\ Field(TrackToFields(t), "hae") =
              IF t.position.z = "zero" THEN {} ELSE {<< t.position.z, t.position.altitude >>}
         /\ Field(TrackToFields(t), "sapient_classification") =
              IF t.class = "" THEN {} ELSE {t.class}
<1> DEFINE p == t.position
           lat == {<< "lat", << p.at, p.latitude >> >>}
           lon == {<< "lon", << p.at, p.longitude >> >>}
           hae == When(p.z # "zero", "hae", << p.z, p.altitude >>)
           class == When(t.class # "", "sapient_classification", t.class)
           source == When(t.source # "", "sapient_source_node_id", t.source)
<1>1. TrackToFields(t) = lat \union (lon \union (hae \union (class \union source)))
  BY DEF TrackToFields, PositionFields
<1>2. \A name : Field(TrackToFields(t), name) =
        Field(lat, name) \union (Field(lon, name) \union (Field(hae, name)
          \union (Field(class, name) \union Field(source, name))))
  <2> HIDE DEF lat, lon, hae, class, source
  <2> TAKE name
  <2>1. Field(class \union source, name) = Field(class, name) \union Field(source, name)
    BY FieldOfUnion
  <2>2. Field(hae \union (class \union source), name)
          = Field(hae, name) \union (Field(class, name) \union Field(source, name))
    BY <2>1, FieldOfUnion
  <2>3. Field(lon \union (hae \union (class \union source)), name)
          = Field(lon, name) \union (Field(hae, name)
              \union (Field(class, name) \union Field(source, name)))
    BY <2>2, FieldOfUnion
  <2>4. QED
    BY <1>1, <2>3, FieldOfUnion
<1>3. \A name : /\ Field(lat, name) = IF "lat" = name THEN {<< p.at, p.latitude >>} ELSE {}
                /\ Field(lon, name) = IF "lon" = name THEN {<< p.at, p.longitude >>} ELSE {}
  BY FieldOfOne
<1>4. \A name : Field(hae, name) =
        IF p.z # "zero" /\ "hae" = name THEN {<< p.z, p.altitude >>} ELSE {}
  <2> TAKE name
  <2>1. p.z = "zero" => hae = {}
    BY DEF When
  <2>2. p.z # "zero" => hae = {<< "hae", << p.z, p.altitude >> >>}
    BY DEF When
  <2>3. Field({<< "hae", << p.z, p.altitude >> >>}, name) =
          IF "hae" = name THEN {<< p.z, p.altitude >>} ELSE {}
    BY FieldOfOne
  <2> HIDE DEF hae, p
  <2>4. QED
    BY <2>1, <2>2, <2>3, FieldOfNone
<1>5. \A name : /\ "sapient_classification" # name => Field(class, name) = {}
                /\ "sapient_source_node_id" # name => Field(source, name) = {}
  BY FieldOfWhen
<1>6. Field(class, "sapient_classification") = IF t.class = "" THEN {} ELSE {t.class}
  BY FieldOfWhen
<1> HIDE DEF lat, lon, hae, class, source, p
<1>7. QED
  BY <1>2, <1>3, <1>4, <1>5, <1>6 DEF p

\* A platform is where its states say.
LEMMA PlaceOfPlatform ==
  ASSUME NEW advertisement, NEW states, NEW f \in {"lat", "lon"}
  PROVE  Field(PlatformToFields(advertisement, states), f) =
           { << p.at, IF f = "lat" THEN p.latitude ELSE p.longitude >>
             : p \in UNION { s.positions : s \in states } }
<1> DEFINE places == UNION { s.positions : s \in states }
           capabilities == When(advertisement.capabilities # {}, "capabilities",
                                advertisement.capabilities)
           status == When(advertisement.status # "unspecified", "operational_status",
                          advertisement.status)
           health == { << "health", s.health >> : s \in states }
           placed == UNION { PositionFields(p) : p \in places }
<1>1. PlatformToFields(advertisement, states) = capabilities \union (status \union (health \union placed))
  BY DEF PlatformToFields, StateFields
<1>2. Field(capabilities, f) = {} /\ Field(status, f) = {} /\ Field(health, f) = {}
  <2>1. Field(capabilities, f) = {}
    BY FieldOfWhen
  <2>2. Field(status, f) = {}
    BY FieldOfWhen
  <2>3. \A q \in health : q[1] = "health"
    OBVIOUS
  <2>4. Field(health, f) = {}
    BY <2>3 DEF Field
  <2> QED BY <2>1, <2>2, <2>4
<1>3. \A p : Field(PositionFields(p), f) =
               {<< p.at, IF f = "lat" THEN p.latitude ELSE p.longitude >>}
  <2> TAKE p
  <2> DEFINE lat == {<< "lat", << p.at, p.latitude >> >>}
             lon == {<< "lon", << p.at, p.longitude >> >>}
             hae == When(p.z # "zero", "hae", << p.z, p.altitude >>)
  <2>1. Field(lat, f) = IF f = "lat" THEN {<< p.at, p.latitude >>} ELSE {}
    BY FieldOfOne
  <2>2. Field(lon, f) = IF f = "lon" THEN {<< p.at, p.longitude >>} ELSE {}
    BY FieldOfOne
  <2>3. Field(hae, f) = {}
    BY FieldOfWhen
  <2>4. PositionFields(p) = lat \union (lon \union hae)
    BY DEF PositionFields
  <2> HIDE DEF lat, lon, hae
  <2>5. Field(lon \union hae, f) = Field(lon, f) \union Field(hae, f)
    BY FieldOfUnion
  <2>6. Field(PositionFields(p), f) = Field(lat, f) \union (Field(lon, f) \union Field(hae, f))
    BY <2>4, <2>5, FieldOfUnion
  <2> QED BY <2>1, <2>2, <2>3, <2>6
<1>4. Field(placed, f) = UNION { Field(PositionFields(p), f) : p \in places }
  BY DEF Field
<1>5. Field(placed, f) = { << p.at, IF f = "lat" THEN p.latitude ELSE p.longitude >> : p \in places }
  <2> HIDE DEF places, placed
  <2> QED BY <1>3, <1>4
<1>6. Field(PlatformToFields(advertisement, states), f) = Field(placed, f)
  <2> HIDE DEF capabilities, status, health, placed
  <2>1. Field(health \union placed, f) = Field(health, f) \union Field(placed, f)
    BY FieldOfUnion
  <2>2. Field(status \union (health \union placed), f)
          = Field(status, f) \union Field(health \union placed, f)
    BY FieldOfUnion
  <2>3. Field(capabilities \union (status \union (health \union placed)), f)
          = Field(capabilities, f) \union Field(status \union (health \union placed), f)
    BY FieldOfUnion
  <2> QED BY <1>1, <1>2, <2>1, <2>2, <2>3
<1>7. QED
  BY <1>5, <1>6

LEMMA BearingInDegrees ==
  ASSUME NEW rb, NEW station, InDegrees(station), NEW p \in RangeBearingToTrackPosition(rb, station)
  PROVE  InDegrees(p)
<1> DEFINE cs == rb.cs
           range == CASE cs \in {1, 2} -> RangeUnit[cs]
                      [] cs \in {3, 4} -> KmToMetres(RangeUnit[cs])
                      [] cs \in {5, 6} -> FeetToMetres(RangeUnit[cs])
           azimuth == IF cs \in {2, 4, 6} THEN ToDegrees(BearingUnit[cs]) ELSE BearingUnit[cs]
           elevation == IF rb.elevation THEN azimuth ELSE "level"
           along(r) == r.range = "m" /\ r.elevation \in {"deg", "level"}
<1>1. PICK r \in NormalizeRb(rb) :
        /\ p.latitude = IF along(r) /\ r.azimuth = "deg" THEN station.latitude ELSE "wrong"
        /\ p.longitude = IF along(r) /\ r.azimuth = "deg" THEN station.longitude ELSE "wrong"
        /\ p.altitude = IF along(r) THEN station.altitude ELSE "wrong"
  BY DEF RangeBearingToTrackPosition
<1>2. cs \in 1..6 /\ r = [range |-> range, azimuth |-> azimuth, elevation |-> elevation]
  BY <1>1 DEF NormalizeRb
<1>3. range = "m"
  BY <1>2 DEF RangeUnit, KmToMetres, FeetToMetres
<1>4. azimuth = "deg"
  BY <1>2 DEF BearingUnit, ToDegrees
<1> HIDE DEF range, azimuth
<1>5. along(r)
  BY <1>2, <1>3, <1>4
<1>6. QED
  BY <1>1, <1>2, <1>4, <1>5 DEF InDegrees

LEMMA OneLocation ==
  ASSUME NEW loc
  PROVE  Alone(LocationToTrackPosition(loc)) /\ Alone(LocationToPosition(loc))
<1>1. Alone(LocationToTrackPosition(loc))
  BY DEF Alone, LocationToTrackPosition
<1>2. Alone(LocationToPosition(loc))
  BY DEF Alone, LocationToPosition
<1>3. QED
  BY <1>1, <1>2

LEMMA OneBearing ==
  ASSUME NEW rb, NEW station
  PROVE  Alone(RangeBearingToTrackPosition(rb, station))
<1>1. Alone(NormalizeRb(rb))
  BY DEF Alone, NormalizeRb
<1>2. QED
  BY <1>1 DEF Alone, RangeBearingToTrackPosition

LEMMA StatusInDegrees ==
  ASSUME NEW loc, NEW p \in LocationToPosition(loc)
  PROVE  InDegrees(p)
<1> DEFINE angle == IF loc.cs = 2 THEN ToDegrees(AngleUnit[2]) ELSE AngleUnit[1]
<1>1. /\ loc.cs \in {1, 2}
      /\ p = [at |-> loc.at, latitude |-> angle, longitude |-> angle,
              altitude |-> HeightUnit[loc.cs], z |-> loc.z]
  BY DEF LocationToPosition
<1>2. angle = "deg" /\ HeightUnit[loc.cs] = "m"
  BY <1>1 DEF AngleUnit, ToDegrees, HeightUnit
<1> HIDE DEF angle
<1>3. QED
  BY <1>1, <1>2 DEF InDegrees

\* The position a message leaves in the cache.
LEMMA CachedInDegrees ==
  ASSUME NEW m \in Message
  PROVE  Alone(CachedFrom(m)) /\ \A p \in CachedFrom(m) : InDegrees(p)
<1>1. CASE m.content = "StatusReport"
  <2>1. CachedFrom(m) = UNION { LocationToPosition(loc) : loc \in m.locations }
    BY <1>1 DEF CachedFrom, FromStatusReport
  <2>2. \A x, y \in m.locations : x = y
    BY HldmmAssumption
  <2>3. \A p \in CachedFrom(m) : \E loc \in m.locations : p \in LocationToPosition(loc)
    BY <2>1
  <2>4. \A p \in CachedFrom(m) : InDegrees(p)
    BY <2>3, StatusInDegrees
  <2>5. ASSUME NEW p \in CachedFrom(m), NEW q \in CachedFrom(m) PROVE p = q
    <3>1. PICK x \in m.locations : p \in LocationToPosition(x)
      BY <2>3
    <3>2. PICK y \in m.locations : q \in LocationToPosition(y)
      BY <2>3
    <3>3. x = y /\ Alone(LocationToPosition(x))
      BY <2>2, OneLocation
    <3> QED BY <3>1, <3>2, <3>3 DEF Alone
  <2> QED BY <2>4, <2>5 DEF Alone
<1>2. CASE m.content # "StatusReport"
  BY <1>2 DEF CachedFrom, Alone
<1>3. QED
  BY <1>1, <1>2

LEMMA TrackIsRelayable ==
  ASSUME NEW t, InDegrees(t.position)
  PROVE  Relayable(TrackToFields(t))
<1> DEFINE fields == TrackToFields(t)
<1>1. /\ Field(fields, "lat") = {<< t.position.at, "deg" >>}
      /\ Field(fields, "lon") = {<< t.position.at, "deg" >>}
      /\ Field(fields, "hae") = IF t.position.z = "zero" THEN {} ELSE {<< t.position.z, "m" >>}
      /\ Field(fields, "sapient_classification") = IF t.class = "" THEN {} ELSE {t.class}
  BY FieldOfTrack DEF InDegrees
<1> HIDE DEF fields
<1> DEFINE at == t.position.at  z == t.position.z
<1>2. << at, "deg" >>[1] = at /\ << z, "m" >>[1] = z
  OBVIOUS
<1>3. /\ \A v \in Field(fields, "lat") : v = << v[1], "deg" >>
      /\ \A v \in Field(fields, "hae") : v = << v[1], "m" >> /\ v[1] # "zero"
      /\ \A v \in Field(fields, "sapient_classification") : v # ""
      /\ \A f \in {"lat", "hae", "sapient_classification"} : Alone(Field(fields, f))
  <2>1. Field(fields, "lat") = {<< at, "deg" >>} /\ Alone(Field(fields, "lat"))
    BY <1>1 DEF Alone
  <2>2. \A v \in Field(fields, "hae") : v = << z, "m" >> /\ z # "zero"
    BY <1>1
  <2>3. \A v \in Field(fields, "sapient_classification") : v = t.class /\ t.class # ""
    BY <1>1
  <2> HIDE DEF at, z
  <2>4. Alone(Field(fields, "hae")) /\ Alone(Field(fields, "sapient_classification"))
    BY <2>2, <2>3 DEF Alone
  <2>5. \A v \in Field(fields, "hae") : v = << v[1], "m" >> /\ v[1] # "zero"
    BY <1>2, <2>2
  <2> QED BY <1>2, <2>1, <2>3, <2>4, <2>5
<1>4. Relayable(fields)
  BY <1>1, <1>3 DEF Relayable
<1>5. QED
  BY <1>4 DEF fields

LEMMA MergeIsRelayable ==
  ASSUME NEW document, NEW fields, Relayable(document), Relayable(fields)
  PROVE  Relayable(Merge(document, fields))
<1> DEFINE merged == Merge(document, fields)
<1>1. \A f : Field(merged, f) = IF Field(fields, f) = {} THEN Field(document, f) ELSE Field(fields, f)
  BY FieldOfMerge
<1> HIDE DEF merged
<1>2. Field(merged, "lon") = Field(merged, "lat")
  BY <1>1 DEF Relayable
<1>3. \A f \in {"lat", "hae", "sapient_classification"} :
        Field(merged, f) = Field(fields, f) \/ Field(merged, f) = Field(document, f)
  BY <1>1
<1>4. QED
  BY <1>2, <1>3 DEF Relayable, merged

\* The documents a detection is decoded to.
LEMMA DecodesTrack ==
  ASSUME NEW m, m.content = "DetectionReport", m.fix \in {"location", "bearing", "none"},
         NEW sensors, Alone(sensors), \A p \in sensors : InDegrees(p)
  PROVE  /\ Alone(DecodeInbound(m, sensors))
         /\ \A d \in DecodeInbound(m, sensors) : d.id = m.object /\ Relayable(d.fields)
<1> DEFINE positions ==
             CASE m.fix = "location" -> LocationToTrackPosition(m.location)
               [] m.fix = "bearing" ->
                    UNION { RangeBearingToTrackPosition(m.bearing, s) : s \in sensors }
               [] m.fix = "none" -> {}
           Track(p) == [track_id |-> m.object, position |-> p, class |-> m.class, source |-> m.node]
<1>1. Alone(positions) /\ \A p \in positions : InDegrees(p)
  <2>1. CASE m.fix = "location"
    BY <2>1, OneLocation, LocationInDegrees
  <2>2. CASE m.fix = "bearing"
    <3>1. \A p \in positions : \E s \in sensors : p \in RangeBearingToTrackPosition(m.bearing, s)
      BY <2>2
    <3>2. \A p \in positions : InDegrees(p)
      BY <3>1, BearingInDegrees
    <3>3. ASSUME NEW p \in positions, NEW q \in positions PROVE p = q
      <4>1. PICK x \in sensors : p \in RangeBearingToTrackPosition(m.bearing, x)
        BY <3>1
      <4>2. PICK y \in sensors : q \in RangeBearingToTrackPosition(m.bearing, y)
        BY <3>1
      <4>3. x = y /\ Alone(RangeBearingToTrackPosition(m.bearing, x))
        BY OneBearing DEF Alone
      <4> QED BY <4>1, <4>2, <4>3 DEF Alone
    <3> HIDE DEF positions
    <3> QED BY <3>2, <3>3 DEF Alone
  <2>3. CASE m.fix = "none"
    BY <2>3 DEF Alone
  <2> QED BY <2>1, <2>2, <2>3
<1>2. FromDetectionReport(m, sensors) = { Track(p) : p \in positions }
  BY DEF FromDetectionReport
<1> HIDE DEF positions
<1>3. DecodeInbound(m, sensors) =
        { [id |-> t.track_id, fields |-> TrackToFields(t)] : t \in FromDetectionReport(m, sensors) }
  BY DEF DecodeInbound
<1>4. \A d \in DecodeInbound(m, sensors) :
        \E p \in positions : d = [id |-> m.object, fields |-> TrackToFields(Track(p))]
  BY <1>2, <1>3
<1>5. \A p \in positions : Relayable(TrackToFields(Track(p)))
  <2> TAKE p \in positions
  <2>1. InDegrees(Track(p).position)
    BY <1>1
  <2> HIDE DEF Track
  <2> QED BY <2>1, TrackIsRelayable
<1> HIDE DEF Track
<1>6. QED
  BY <1>1, <1>4, <1>5 DEF Alone

\* The document a registration or a status report is decoded to: where it says
\* the platform is, is what goes to the cache.
LEMMA DecodesPlatform ==
  ASSUME NEW m \in Message, m.content \in {"Registration", "StatusReport"}, NEW sensors
  PROVE  \E fields :
           /\ DecodeInbound(m, sensors) = {[id |-> m.node, fields |-> fields]}
           /\ Field(fields, "lat") = Degrees(CachedFrom(m))
           /\ Field(fields, "lon") = Degrees(CachedFrom(m))
<1>1. \A p \in CachedFrom(m) : p.latitude = "deg" /\ p.longitude = "deg"
  BY CachedInDegrees DEF InDegrees
<1>2. CASE m.content = "Registration"
  <2> DEFINE fields == PlatformToFields(FromRegistration(m), {})
  <2>1. DecodeInbound(m, sensors) = {[id |-> m.node, fields |-> fields]}
    BY <1>2 DEF DecodeInbound
  <2>2. CachedFrom(m) = {}
    BY <1>2 DEF CachedFrom
  <2>3. Field(fields, "lat") = {} /\ Field(fields, "lon") = {}
    BY PlaceOfPlatform
  <2>4. Degrees({}) = {}
    BY DEF Degrees
  <2> HIDE DEF fields
  <2> QED BY <2>1, <2>2, <2>3, <2>4
<1>3. CASE m.content = "StatusReport"
  <2> DEFINE report == FromStatusReport(m)
             fields == StatusToFields(m.node, report)
             advertisement == IF report.delta = {}
                                THEN [node |-> m.node, capabilities |-> {}, status |-> "unspecified"]
                                ELSE CHOOSE d \in report.delta : TRUE
  <2>1. DecodeInbound(m, sensors) = {[id |-> m.node, fields |-> fields]}
    BY <1>3 DEF DecodeInbound
  <2>2. CachedFrom(m) = report.state.positions
    BY <1>3 DEF CachedFrom
  <2>3. fields = PlatformToFields(advertisement, {report.state})
    BY DEF StatusToFields
  <2> HIDE DEF report, fields, advertisement
  <2>4. UNION { s.positions : s \in {report.state} } = CachedFrom(m)
    BY <2>2
  <2>5. Field(fields, "lat") = { << p.at, p.latitude >> : p \in CachedFrom(m) }
    BY <2>3, <2>4, PlaceOfPlatform
  <2>6. Field(fields, "lon") = { << p.at, p.longitude >> : p \in CachedFrom(m) }
    BY <2>3, <2>4, PlaceOfPlatform
  <2> QED BY <1>1, <2>1, <2>5, <2>6 DEF Degrees
<1>4. QED
  BY <1>2, <1>3

-----------------------------------------------------------------------------

LEMMA DocumentsInitially == Init => DocumentInv
<1> SUFFICES ASSUME Init PROVE DocumentInv
  OBVIOUS
<1>1. /\ cache = [n \in Node |-> {}] /\ hand = [c \in Conn |-> {}]
      /\ tracks = [o \in Object |-> NoFields] /\ platforms = [n \in Node |-> NoFields]
  BY DEF Init
<1>2. \A name : Field(NoFields, name) = {}
  BY FieldOfNone DEF NoFields
<1>3. MeshType /\ CacheInv
  BY <1>1 DEF MeshType, CacheInv, Alone
<1>4. HandInv
  BY <1>1 DEF HandInv, Alone
<1>5. AgreeInv
  BY <1>1, <1>2 DEF AgreeInv, Agrees, Degrees
<1>6. Relayable(NoFields)
  BY <1>2 DEF Relayable, Alone
<1>7. TrackInv
  BY <1>1, <1>6 DEF TrackInv
<1>8. QED
  BY <1>3, <1>4, <1>5, <1>7 DEF DocumentInv

\* What touches no document.
LEMMA ElsewhereKeeps ==
  ASSUME DocumentInv, UNCHANGED << hand, dataVars >>,
         \A c \in Conn : hand[c] # {} => receiver'[c] = "publish"
  PROVE  DocumentInv'
<1>1. UNCHANGED << cache, tracks, platforms, unsure >>
  BY DEF dataVars
<1>2. MeshType' /\ CacheInv' /\ TrackInv'
  BY <1>1 DEF DocumentInv, MeshType, CacheInv, TrackInv
<1>3. HandInv'
  BY <1>1 DEF DocumentInv, HandInv
<1>4. AgreeInv'
  BY <1>1 DEF DocumentInv, AgreeInv, Agrees
<1>5. QED
  BY <1>2, <1>3, <1>4 DEF DocumentInv

\* A task takes a document of a platform in hand.
LEMMA TakesPlatform ==
  ASSUME DocumentInv, NEW c \in Conn, hand[c] = {}, NEW n \in Node, NEW fields, NEW places,
         Alone(places), \A p \in places : InDegrees(p),
         Field(fields, "lat") = Degrees(places), Field(fields, "lon") = Degrees(places),
         cache' = IF places = {} THEN cache ELSE [cache EXCEPT ![n] = places],
         unsure' = IF \E k \in Conn : \E h \in hand[k] : h.id = n
                     THEN unsure \union {n} ELSE unsure,
         hand' = [hand EXCEPT ![c] =
                    {[collection |-> "platforms", id |-> n, fields |-> fields]}],
         receiver'[c] = "publish", \A b \in Conn \ {c} : receiver'[b] = receiver[b],
         UNCHANGED << tracks, platforms >>
  PROVE  DocumentInv'
<1> DEFINE doc == [collection |-> "platforms", id |-> n, fields |-> fields]
<1>1. /\ hand'[c] = {doc} /\ \A b \in Conn \ {c} : hand'[b] = hand[b]
      /\ hand' = [b \in Conn |-> hand'[b]]
  BY DEF DocumentInv, HandInv
<1>2. doc.collection = "platforms" /\ doc.id = n /\ doc.fields = fields
  OBVIOUS
<1> HIDE DEF doc
<1>3. MeshType' /\ TrackInv'
  BY DEF DocumentInv, MeshType, TrackInv
<1>4. /\ cache' = [k \in Node |-> cache'[k]]
      /\ \A k \in Node \ {n} : cache'[k] = cache[k]
      /\ cache'[n] = IF places = {} THEN cache[n] ELSE places
  BY DEF DocumentInv, CacheInv
<1>5. CacheInv'
  BY <1>4 DEF DocumentInv, CacheInv
<1>6. /\ unsure \subseteq unsure'
      /\ n \notin unsure' => \A b \in Conn : \A h \in hand[b] : ~OfPlatform(h, n)
  BY DEF OfPlatform
<1>7. HandInv'
  <2>1. \A b \in Conn :
          /\ hand'[b] # {} => receiver'[b] = "publish"
          /\ Alone(hand'[b])
          /\ \A d \in hand'[b] :
               \/ d.collection = "platforms" /\ d.id \in Node
               \/ d.collection = "tracks" /\ d.id \in Object /\ Relayable(d.fields)
    BY <1>1, <1>2 DEF DocumentInv, HandInv, Alone
  <2>2. ASSUME NEW a \in Conn, NEW b \in Conn, NEW k \in Node \ unsure',
               \E d \in hand'[a] : OfPlatform(d, k), \E e \in hand'[b] : OfPlatform(e, k)
        PROVE  a = b
    <3>1. CASE k = n
      BY <1>1, <1>6, <2>2, <3>1
    <3>2. CASE k # n
      <4>1. a # c /\ b # c
        BY <1>1, <1>2, <2>2, <3>2 DEF OfPlatform
      <4> QED BY <1>1, <1>6, <2>2, <4>1 DEF DocumentInv, HandInv
    <3> QED BY <3>1, <3>2
  <2> QED BY <1>1, <2>1, <2>2 DEF HandInv
<1>8. AgreeInv'
  <2> SUFFICES ASSUME NEW k \in Node \ unsure'
               PROVE  \/ /\ Agrees(platforms[k], k)'
                         /\ \A b \in Conn : \A d \in hand'[b] : ~OfPlatform(d, k)
                      \/ \E b \in Conn : \E d \in hand'[b] :
                           OfPlatform(d, k) /\ Agrees(Merge(platforms[k], d.fields), k)'
    BY DEF AgreeInv
  <2>1. k \in Node \ unsure
    BY <1>6
  <2>2. CASE k = n
    <3>1. Agrees(platforms[n], n)
      BY <1>6, <2>1, <2>2 DEF DocumentInv, AgreeInv
    <3> DEFINE merged == Merge(platforms[n], fields)
    <3>2. \A f : Field(merged, f) =
            IF Field(fields, f) = {} THEN Field(platforms[n], f) ELSE Field(fields, f)
      BY FieldOfMerge
    <3> HIDE DEF merged
    <3>3. Field(merged, "lat") = Degrees(cache'[n]) /\ Field(merged, "lon") = Degrees(cache'[n])
      <4>1. CASE places = {}
        <5>1. Degrees(places) = {}
          BY <4>1 DEF Degrees
        <5> QED BY <1>4, <3>1, <3>2, <4>1, <5>1 DEF Agrees
      <4>2. CASE places # {}
        <5>1. Degrees(places) # {}
          BY <4>2 DEF Degrees
        <5>2. Field(merged, "lat") = Degrees(places) /\ Field(merged, "lon") = Degrees(places)
          BY <3>2, <5>1
        <5>3. cache'[n] = places
          BY <1>4, <4>2
        <5> QED BY <5>2, <5>3
      <4> QED BY <4>1, <4>2
    <3>4. Agrees(Merge(platforms[n], doc.fields), n)'
      BY <1>2, <3>3 DEF Agrees, merged
    <3> QED BY <1>1, <1>2, <2>2, <3>4 DEF OfPlatform
  <2>3. CASE k # n
    <3>1. \A document : Agrees(document, k)' <=> Agrees(document, k)
      BY <1>4, <2>3 DEF Agrees
    <3>2. ~OfPlatform(doc, k)
      BY <1>2, <2>3 DEF OfPlatform
    <3>3. CASE /\ Agrees(platforms[k], k)
               /\ \A b \in Conn : \A d \in hand[b] : ~OfPlatform(d, k)
      <4>1. Agrees(platforms[k], k)'
        BY <1>4, <2>3, <3>3 DEF Agrees
      <4> QED BY <1>1, <3>2, <3>3, <4>1
    <3>4. ASSUME NEW b \in Conn, NEW d \in hand[b],
                 OfPlatform(d, k), Agrees(Merge(platforms[k], d.fields), k)
          PROVE  \E a \in Conn : \E e \in hand'[a] :
                   OfPlatform(e, k) /\ Agrees(Merge(platforms[k], e.fields), k)'
      <4>1. b # c /\ d \in hand'[b]
        BY <1>1
      <4>2. Agrees(Merge(platforms[k], d.fields), k)'
        BY <1>4, <2>3, <3>4 DEF Agrees
      <4> QED BY <3>4, <4>1, <4>2
    <3> QED BY <2>1, <3>3, <3>4 DEF DocumentInv, AgreeInv
  <2> QED BY <2>2, <2>3
<1>9. QED
  BY <1>3, <1>5, <1>7, <1>8 DEF DocumentInv

\* Or the document of a track, or nothing.
LEMMA TakesTrack ==
  ASSUME DocumentInv, NEW c \in Conn, hand[c] = {}, NEW documents, Alone(documents),
         \A d \in documents : d.collection = "tracks" /\ d.id \in Object /\ Relayable(d.fields),
         cache' = cache, unsure \subseteq unsure',
         hand' = [hand EXCEPT ![c] = documents],
         documents # {} => receiver'[c] = "publish",
         \A b \in Conn \ {c} : receiver'[b] = receiver[b],
         UNCHANGED << tracks, platforms >>
  PROVE  DocumentInv'
<1>1. /\ hand'[c] = documents /\ \A b \in Conn \ {c} : hand'[b] = hand[b]
      /\ hand' = [b \in Conn |-> hand'[b]]
  BY DEF DocumentInv, HandInv
<1>2. \A d \in documents : \A n \in Node : ~OfPlatform(d, n)
  BY DEF OfPlatform
<1>3. MeshType' /\ CacheInv' /\ TrackInv'
  BY DEF DocumentInv, MeshType, CacheInv, TrackInv
<1>4. HandInv'
  <2>1. \A b \in Conn :
          /\ hand'[b] # {} => receiver'[b] = "publish"
          /\ Alone(hand'[b])
          /\ \A d \in hand'[b] :
               \/ d.collection = "platforms" /\ d.id \in Node
               \/ d.collection = "tracks" /\ d.id \in Object /\ Relayable(d.fields)
    BY <1>1 DEF DocumentInv, HandInv
  <2>2. ASSUME NEW a \in Conn, NEW b \in Conn, NEW k \in Node \ unsure',
               \E d \in hand'[a] : OfPlatform(d, k), \E e \in hand'[b] : OfPlatform(e, k)
        PROVE  a = b
    <3>1. a # c /\ b # c
      BY <1>1, <1>2, <2>2
    <3> QED BY <1>1, <2>2, <3>1 DEF DocumentInv, HandInv
  <2> QED BY <1>1, <2>1, <2>2 DEF HandInv
<1>5. AgreeInv'
  <2> SUFFICES ASSUME NEW k \in Node \ unsure
               PROVE  \/ /\ Agrees(platforms[k], k)
                         /\ \A b \in Conn : \A d \in hand'[b] : ~OfPlatform(d, k)
                      \/ \E b \in Conn : \E d \in hand'[b] :
                           OfPlatform(d, k) /\ Agrees(Merge(platforms[k], d.fields), k)
    BY DEF AgreeInv, Agrees
  <2>1. ASSUME NEW b \in Conn, NEW d \in hand[b] PROVE d \in hand'[b]
    BY <1>1
  <2>2. \/ /\ Agrees(platforms[k], k)
           /\ \A b \in Conn : \A d \in hand[b] : ~OfPlatform(d, k)
        \/ \E b \in Conn : \E d \in hand[b] :
             OfPlatform(d, k) /\ Agrees(Merge(platforms[k], d.fields), k)
    BY DEF DocumentInv, AgreeInv
  <2> QED BY <1>1, <1>2, <2>1, <2>2
<1>6. QED
  BY <1>3, <1>4, <1>5 DEF DocumentInv

LEMMA ReceivesDocuments ==
  ASSUME HldmmType, DocumentInv, NEW c \in Conn, NEW m \in Message, Receive(c, m)
  PROVE  DocumentInv'
<1> DEFINE documents == IF CollectionFor(m) = "none" THEN {} ELSE DecodeInbound(m, cache[m.node])
           taken == { [collection |-> CollectionFor(m), id |-> d.id, fields |-> d.fields]
                      : d \in documents }
<1>1. /\ receiver[c] = "recv" /\ cache' = Cached(m)
      /\ unsure' = IF \E k \in Conn, d \in documents : \E h \in hand[k] : h.id = d.id
                     THEN unsure \union {m.node} ELSE unsure
      /\ hand' = [hand EXCEPT ![c] = taken]
      /\ receiver' = IF documents = {} THEN receiver ELSE [receiver EXCEPT ![c] = "publish"]
      /\ UNCHANGED << tracks, platforms >>
  BY DEF Receive
<1>2. m.node \in Node /\ m.object \in Object /\ m.fix \in {"location", "bearing", "none"}
  BY HldmmAssumption
<1>3. hand[c] = {}
  BY <1>1 DEF DocumentInv, HandInv
<1>4. Alone(cache[m.node]) /\ \A p \in cache[m.node] : InDegrees(p)
  BY <1>2 DEF DocumentInv, CacheInv
<1>5. /\ \A b \in Conn \ {c} : receiver'[b] = receiver[b]
      /\ documents # {} => receiver'[c] = "publish"
  BY <1>1 DEF HldmmType
<1>6. CASE m.content \in {"Registration", "StatusReport"}
  <2>1. CollectionFor(m) = "platforms"
    BY <1>6 DEF CollectionFor
  <2>2. PICK fields :
          /\ DecodeInbound(m, cache[m.node]) = {[id |-> m.node, fields |-> fields]}
          /\ Field(fields, "lat") = Degrees(CachedFrom(m))
          /\ Field(fields, "lon") = Degrees(CachedFrom(m))
    BY <1>6, DecodesPlatform
  <2> DEFINE decoded == [id |-> m.node, fields |-> fields]
  <2>3. documents = {decoded} /\ decoded.id = m.node /\ decoded.fields = fields
    BY <2>1, <2>2
  <2> HIDE DEF decoded, documents
  <2>4. taken = {[collection |-> "platforms", id |-> m.node, fields |-> fields]}
    <3>1. \A d \in documents : d.id = m.node /\ d.fields = fields
      BY <2>3
    <3>2. documents # {}
      BY <2>3
    <3>3. \A d \in documents :
            [collection |-> CollectionFor(m), id |-> d.id, fields |-> d.fields]
              = [collection |-> "platforms", id |-> m.node, fields |-> fields]
      BY <2>1, <3>1
    <3> QED BY <3>2, <3>3
  <2>5. unsure' = IF \E k \in Conn : \E h \in hand[k] : h.id = m.node
                    THEN unsure \union {m.node} ELSE unsure
    <3>1. (\E k \in Conn, d \in documents : \E h \in hand[k] : h.id = d.id)
            <=> \E k \in Conn : \E h \in hand[k] : h.id = m.node
      BY <2>3
    <3> QED BY <1>1, <3>1
  <2>6. cache' = IF CachedFrom(m) = {} THEN cache
                 ELSE [cache EXCEPT ![m.node] = CachedFrom(m)]
    BY <1>1 DEF Cached
  <2>7. receiver'[c] = "publish"
    BY <1>5, <2>3
  <2>8. Alone(CachedFrom(m)) /\ \A p \in CachedFrom(m) : InDegrees(p)
    BY CachedInDegrees
  <2>9. hand' = [hand EXCEPT ![c] =
                   {[collection |-> "platforms", id |-> m.node, fields |-> fields]}]
    BY <1>1, <2>4
  <2>10. UNCHANGED << tracks, platforms >> /\ \A b \in Conn \ {c} : receiver'[b] = receiver[b]
    BY <1>1, <1>5
  <2> DEFINE places == CachedFrom(m)  n == m.node
  <2>11. n \in Node /\ Alone(places) /\ \A p \in places : InDegrees(p)
    BY <1>2, <2>8
  <2>12. Field(fields, "lat") = Degrees(places) /\ Field(fields, "lon") = Degrees(places)
    BY <2>2
  <2> HIDE DEF taken, places, n
  <2> QED
    BY <1>3, <2>5, <2>6, <2>7, <2>9, <2>10, <2>11, <2>12, TakesPlatform DEF places, n
<1>7. CASE m.content \notin {"Registration", "StatusReport"}
  <2>1. cache' = cache
    BY <1>1, <1>7 DEF Cached, CachedFrom
  <2>2. unsure \subseteq unsure'
    BY <1>1
  <2>3. /\ Alone(taken)
        /\ \A d \in taken : d.collection = "tracks" /\ d.id \in Object /\ Relayable(d.fields)
    <3>1. CASE m.content = "DetectionReport"
      <4>1. CollectionFor(m) = "tracks" /\ documents = DecodeInbound(m, cache[m.node])
        BY <3>1 DEF CollectionFor
      <4>2. /\ Alone(documents)
            /\ \A d \in documents : d.id = m.object /\ Relayable(d.fields)
        BY <1>2, <1>4, <3>1, <4>1, DecodesTrack
      <4> HIDE DEF documents
      <4> QED BY <1>2, <4>1, <4>2 DEF Alone
    <3>2. CASE m.content # "DetectionReport"
      <4>1. CollectionFor(m) = "none"
        BY <1>7, <3>2 DEF CollectionFor
      <4>2. taken = {}
        BY <4>1
      <4> QED BY <4>2 DEF Alone
    <3> QED BY <3>1, <3>2
  <2>4. taken # {} => receiver'[c] = "publish"
    BY <1>5
  <2> HIDE DEF documents, taken
  <2> QED BY <1>1, <1>3, <1>5, <2>1, <2>2, <2>3, <2>4, TakesTrack
<1>8. QED
  BY <1>6, <1>7

\* A task lets go of its document: it is on the mesh, or its platform is unsure.
LEMMA LetsGo ==
  ASSUME DocumentInv, NEW c \in Conn, cache' = cache, unsure \subseteq unsure',
         hand' = [hand EXCEPT ![c] = {}],
         \A b \in Conn \ {c} : receiver'[b] = receiver[b],
         MeshType', TrackInv',
         \A n \in Node \ unsure' :
           \/ platforms'[n] = platforms[n] /\ \A d \in hand[c] : ~OfPlatform(d, n)
           \/ \E d \in hand[c] : OfPlatform(d, n) /\ platforms'[n] = Merge(platforms[n], d.fields)
  PROVE  DocumentInv'
<1>1. /\ hand'[c] = {} /\ \A b \in Conn \ {c} : hand'[b] = hand[b]
      /\ hand' = [b \in Conn |-> hand'[b]]
  BY DEF DocumentInv, HandInv
<1>2. CacheInv'
  BY DEF DocumentInv, CacheInv
<1>3. HandInv'
  <2>1. \A b \in Conn :
          /\ hand'[b] # {} => receiver'[b] = "publish"
          /\ Alone(hand'[b])
          /\ \A d \in hand'[b] :
               \/ d.collection = "platforms" /\ d.id \in Node
               \/ d.collection = "tracks" /\ d.id \in Object /\ Relayable(d.fields)
    BY <1>1 DEF DocumentInv, HandInv, Alone
  <2>2. ASSUME NEW a \in Conn, NEW b \in Conn, NEW k \in Node \ unsure',
               \E d \in hand'[a] : OfPlatform(d, k), \E e \in hand'[b] : OfPlatform(e, k)
        PROVE  a = b
    <3>1. a # c /\ b # c
      BY <1>1, <2>2
    <3> QED BY <1>1, <2>2, <3>1 DEF DocumentInv, HandInv
  <2> QED BY <1>1, <2>1, <2>2 DEF HandInv
<1>4. AgreeInv'
  <2> SUFFICES ASSUME NEW n \in Node \ unsure'
               PROVE  \/ /\ Agrees(platforms'[n], n)
                         /\ \A b \in Conn : \A d \in hand'[b] : ~OfPlatform(d, n)
                      \/ \E b \in Conn : \E d \in hand'[b] :
                           OfPlatform(d, n) /\ Agrees(Merge(platforms'[n], d.fields), n)
    BY DEF AgreeInv, Agrees
  <2>1. n \in Node \ unsure
    OBVIOUS
  <2>2. CASE platforms'[n] = platforms[n] /\ \A d \in hand[c] : ~OfPlatform(d, n)
    <3>1. ASSUME NEW b \in Conn, NEW d \in hand[b], OfPlatform(d, n) PROVE d \in hand'[b]
      BY <1>1, <2>2, <3>1
    <3>2. \A b \in Conn : hand'[b] \subseteq hand[b]
      BY <1>1
    <3> QED BY <2>1, <2>2, <3>1, <3>2 DEF DocumentInv, AgreeInv
  <2>3. ASSUME NEW d \in hand[c], OfPlatform(d, n), platforms'[n] = Merge(platforms[n], d.fields)
        PROVE  /\ Agrees(platforms'[n], n)
               /\ \A b \in Conn : \A e \in hand'[b] : ~OfPlatform(e, n)
    <3>1. \A b \in Conn : \A e \in hand[b] : OfPlatform(e, n) => b = c /\ e = d
      BY <2>1, <2>3 DEF DocumentInv, HandInv, Alone
    <3>2. Agrees(Merge(platforms[n], d.fields), n)
      BY <2>1, <2>3, <3>1 DEF DocumentInv, AgreeInv
    <3> QED BY <1>1, <2>3, <3>1, <3>2
  <2> QED BY <2>2, <2>3
<1>5. QED
  BY <1>2, <1>3, <1>4 DEF DocumentInv

LEMMA PublishesDocuments ==
  ASSUME HldmmType, DocumentInv, NEW c \in Conn, NEW fails \in BOOLEAN, Publish(c, fails)
  PROVE  DocumentInv'
<1>1. PICK d \in hand[c] :
        /\ unsure' = IF fails THEN unsure \union {d.id} ELSE unsure
        /\ tracks' = IF fails \/ d.collection # "tracks" THEN tracks
                     ELSE [tracks EXCEPT ![d.id] = Merge(@, d.fields)]
        /\ platforms' = IF fails \/ d.collection # "platforms" THEN platforms
                        ELSE [platforms EXCEPT ![d.id] = Merge(@, d.fields)]
        /\ hand' = [hand EXCEPT ![c] = {}]
        /\ receiver' = [receiver EXCEPT ![c] = "recv"]
        /\ cache' = cache
  BY DEF Publish
<1>2. hand[c] = {d}
  BY DEF DocumentInv, HandInv, Alone
<1>3. \A b \in Conn \ {c} : receiver'[b] = receiver[b]
  BY <1>1 DEF HldmmType
<1>4. unsure \subseteq unsure'
  BY <1>1
<1>5. MeshType'
  BY <1>1 DEF DocumentInv, MeshType
<1>6. TrackInv'
  <2>1. d.collection = "tracks" => Relayable(d.fields)
    BY DEF DocumentInv, HandInv
  <2>2. \A o \in Object :
          \/ tracks'[o] = tracks[o]
          \/ (d.collection = "tracks" /\ tracks'[o] = Merge(tracks[o], d.fields))
    BY <1>1 DEF DocumentInv, MeshType
  <2> QED BY <2>1, <2>2, MergeIsRelayable DEF DocumentInv, TrackInv
<1>7. ASSUME NEW n \in Node \ unsure'
      PROVE  \/ platforms'[n] = platforms[n] /\ \A e \in hand[c] : ~OfPlatform(e, n)
             \/ \E e \in hand[c] : OfPlatform(e, n) /\ platforms'[n] = Merge(platforms[n], e.fields)
  <2>1. CASE OfPlatform(d, n)
    <3>1. ~fails /\ d.collection = "platforms" /\ d.id = n
      BY <1>1, <2>1 DEF OfPlatform
    <3>2. platforms'[n] = Merge(platforms[n], d.fields)
      BY <1>1, <3>1 DEF DocumentInv, MeshType
    <3> QED BY <2>1, <3>2
  <2>2. CASE ~OfPlatform(d, n)
    <3>1. platforms'[n] = platforms[n]
      BY <1>1, <2>2 DEF OfPlatform, DocumentInv, MeshType
    <3> QED BY <1>2, <2>2, <3>1
  <2> QED BY <2>1, <2>2
<1>8. QED
  BY <1>1, <1>3, <1>4, <1>5, <1>6, <1>7, LetsGo

LEMMA DiesWithDocuments ==
  ASSUME HldmmType, DocumentInv, NEW c \in Conn, TaskDies(c)
  PROVE  DocumentInv'
<1>1. /\ receiver' = [receiver EXCEPT ![c] = "ended"]
      /\ hand' = [hand EXCEPT ![c] = {}]
      /\ unsure' = unsure \union { d.id : d \in hand[c] }
      /\ UNCHANGED << cache, tracks, platforms >>
  BY DEF TaskDies
<1>2. \A b \in Conn \ {c} : receiver'[b] = receiver[b]
  BY <1>1 DEF HldmmType
<1>3. MeshType' /\ TrackInv'
  BY <1>1 DEF DocumentInv, MeshType, TrackInv
<1>4. \A n \in Node \ unsure' :
        platforms'[n] = platforms[n] /\ \A d \in hand[c] : ~OfPlatform(d, n)
  BY <1>1 DEF OfPlatform
<1>5. unsure \subseteq unsure' /\ cache' = cache
  BY <1>1
<1>6. QED
  BY <1>1, <1>2, <1>3, <1>4, <1>5, LetsGo

LEMMA DocumentStep == HldmmInv /\ DocumentInv /\ [Next]_vars => DocumentInv'
<1> SUFFICES ASSUME HldmmInv, DocumentInv, [Next]_vars PROVE DocumentInv'
  OBVIOUS
<1>1. HldmmType /\ FreshInv /\ \A c \in Conn : hand[c] # {} => receiver[c] = "publish"
  BY DEF HldmmInv, DocumentInv, HandInv
<1>2. CASE UNCHANGED << hand, receiver, dataVars >>
  BY <1>1, <1>2, ElsewhereKeeps
<1>3. CASE Start \/ StopListener \/ StopPeers \/ \E a \in Address : Disconnect(a)
  BY <1>2, <1>3 DEF Start, StopListener, StopPeers, Disconnect, taskVars
<1>4. ASSUME NEW l \in Loop, LoopSteps(l) PROVE DocumentInv'
  <2>1. CASE \/ StoreListener(l) \/ \E succeeds \in BOOLEAN : Bind(l, succeeds)
             \/ RegisterPeer(l) \/ EmitConnected(l) \/ LoopDies(l)
    BY <1>2, <2>1 DEF StoreListener, Bind, RegisterPeer, EmitConnected, LoopDies, taskVars
  <2>2. ASSUME NEW a \in Address, Accept(l, a) PROVE DocumentInv'
    <3>1. /\ conn' = conn + 1 /\ conn < MaxConn /\ receiver' = [receiver EXCEPT ![conn'] = "recv"]
          /\ UNCHANGED << hand, dataVars >>
      BY <2>2 DEF Accept
    <3>2. conn' \in Conn /\ conn' > conn
      BY <1>1, <3>1, Bounds DEF HldmmType, Conn
    <3>3. receiver[conn'] = "none"
      BY <1>1, <3>2 DEF FreshInv
    <3>4. \A c \in Conn : hand[c] # {} => receiver'[c] = "publish"
      BY <1>1, <3>1, <3>3 DEF HldmmType
    <3> QED BY <3>1, <3>4, ElsewhereKeeps
  <2> QED BY <1>4, <2>1, <2>2 DEF LoopSteps
<1>5. ASSUME NEW c \in Conn, EmitDisconnected(c) \/ TaskSteps(c) \/ Close(c) PROVE DocumentInv'
  <2>1. CASE EmitDisconnected(c) \/ Close(c)
    BY <1>2, <2>1 DEF EmitDisconnected, Close, taskVars
  <2>2. CASE End(c)
    <3>1. /\ receiver[c] = "recv" /\ receiver' = [receiver EXCEPT ![c] = "ended"]
          /\ UNCHANGED << hand, dataVars >>
      BY <2>2 DEF End
    <3>2. \A b \in Conn : hand[b] # {} => receiver'[b] = "publish"
      BY <1>1, <3>1 DEF HldmmType
    <3> QED BY <3>1, <3>2, ElsewhereKeeps
  <2> QED BY <1>1, <1>5, <2>1, <2>2, ReceivesDocuments, PublishesDocuments, DiesWithDocuments
          DEF TaskSteps
<1>6. CASE UNCHANGED vars
  BY <1>2, <1>6 DEF vars, taskVars
<1>7. QED
  BY <1>3, <1>4, <1>5, <1>6 DEF Next

LEMMA DocumentsAlways == Spec => []DocumentInv
<1>1. Init => HldmmInv /\ DocumentInv
  BY HldmmInitially, DocumentsInitially
<1>2. (HldmmInv /\ DocumentInv) /\ [Next]_vars => (HldmmInv /\ DocumentInv)'
  BY HldmmStep, DocumentStep
<1>3. QED
  BY <1>1, <1>2, PTL DEF Spec

\* Whatever connections come, speak at once, fail and are aborted, where the mesh
\* has a platform is where its bearings are taken from, unless a document of it
\* was dropped or overtaken (translator.rs:170-193, transport.rs:278-323).
THEOREM MeshAgrees == Spec => []MeshAgreesWithCache
<1>1. DocumentInv => MeshAgreesWithCache
  <2> SUFFICES ASSUME DocumentInv, NEW n \in Node, n \notin unsure,
                      \A c \in Conn : \A d \in hand[c] : d.id # n
               PROVE  /\ Field(platforms[n], "lat") = { << p.at, "deg" >> : p \in cache[n] }
                      /\ Field(platforms[n], "lon") = Field(platforms[n], "lat")
    BY DEF MeshAgreesWithCache
  <2>1. \A c \in Conn : \A d \in hand[c] : ~OfPlatform(d, n)
    BY DEF OfPlatform
  <2>2. Agrees(platforms[n], n)
    BY <2>1 DEF DocumentInv, AgreeInv
  <2> QED BY <2>2 DEF Agrees, Degrees
<1>2. QED
  BY <1>1, DocumentsAlways, PTL

\* What a location in degrees is read as.
LEMMA ReadsLocation ==
  ASSUME NEW at, NEW z
  PROVE  \E p : /\ LocationToTrackPosition([at |-> at, x |-> TRUE, y |-> TRUE, z |-> z, cs |-> 1,
                                            zone |-> "none"]) = {p}
              /\ p.at = at /\ p.z = z /\ InDegrees(p)
<1> DEFINE loc == [at |-> at, x |-> TRUE, y |-> TRUE, z |-> z, cs |-> 1, zone |-> "none"]
           cep == ErrorsToMetres("deg", 1)
           p == [at |-> at, latitude |-> "deg", longitude |-> "deg", altitude |-> "m",
                 z |-> z, cep_m |-> cep]
<1>1. loc.at = at /\ loc.x /\ loc.y /\ loc.z = z /\ loc.cs = 1
  OBVIOUS
<1>2. AngleUnit[1] = "deg" /\ HeightUnit[1] = "m"
  BY DEF AngleUnit, HeightUnit
<1> HIDE DEF loc, cep
<1>3. LocationToTrackPosition(loc) = {p}
  BY <1>1, <1>2 DEF LocationToTrackPosition, cep
<1>4. p.at = at /\ p.z = z /\ InDegrees(p)
  BY DEF InDegrees
<1>5. QED
  BY <1>3, <1>4 DEF loc

\* What a document says of where a track is, how high it is, and what it is.
Says(document, at, z, class) ==
  /\ Field(document, "lat") = {<< at, "deg" >>}
  /\ Field(document, "lon") = {<< at, "deg" >>}
  /\ Field(document, "hae") = IF z = "zero" THEN {} ELSE {<< z, "m" >>}
  /\ Field(document, "sapient_classification") = IF class = "" THEN {} ELSE {class}

\* The detection that passes a track on is decoded to a document that says of
\* the place, the height and the class what the detection does.
LEMMA DecodesDetection ==
  ASSUME NEW o, NEW n, NEW class, NEW at, NEW z
  PROVE  \E d \in DecodeInbound(Detection(o, n, class, at, z), {}) :
           d.id = o /\ Says(d.fields, at, z, class)
<1> DEFINE m == Detection(o, n, class, at, z)
<1>1. /\ m.content = "DetectionReport" /\ m.object = o /\ m.fix = "location" /\ m.class = class
      /\ m.location = [at |-> at, x |-> TRUE, y |-> TRUE, z |-> z, cs |-> 1, zone |-> "none"]
  BY DEF Detection
<1> HIDE DEF m
<1>2. PICK p : LocationToTrackPosition(m.location) = {p} /\ p.at = at /\ p.z = z /\ InDegrees(p)
  BY <1>1, ReadsLocation
<1> DEFINE t == [track_id |-> m.object, position |-> p, class |-> m.class, source |-> m.node]
           d == [id |-> t.track_id, fields |-> TrackToFields(t)]
<1>3. t \in FromDetectionReport(m, {})
  BY <1>1, <1>2 DEF FromDetectionReport
<1>4. t.track_id = o /\ t.position = p /\ t.class = class
  BY <1>1
<1> HIDE DEF t
<1>5. d \in DecodeInbound(m, {})
  BY <1>1, <1>3 DEF DecodeInbound
<1>6. d.id = o /\ d.fields = TrackToFields(t)
  BY <1>4
<1>7. Says(d.fields, at, z, class)
  BY <1>2, <1>4, <1>6, FieldOfTrack DEF InDegrees, Says
<1> HIDE DEF d
<1>8. QED
  BY <1>5, <1>6, <1>7 DEF m

\* The detections a document with a place is encoded to.
LEMMA Encodes ==
  ASSUME NEW o, NEW n, NEW document, NEW v \in Field(document, "lat"), v \in Field(document, "lon"),
         NEW h \in OrElse(Heights(document), "zero"),
         NEW k \in OrElse(Field(document, "sapient_classification"), Unclassified)
  PROVE  Detection(o, n, k, v[1], h) \in EncodeOutbound(o, document, n)
  BY DEF EncodeOutbound

\* What is encoded of a relayable track is read as the same track.
LEMMA RelayedAsItWas ==
  ASSUME NEW document, Relayable(document), Field(document, "lat") # {}, NEW o, NEW n
  PROVE  \E m \in EncodeOutbound(o, document, n) : \E d \in DecodeInbound(m, {}) :
           /\ d.id = o
           /\ \A f \in {"lat", "lon", "hae", "sapient_classification"} :
                Field(d.fields, f) = Field(document, f)
<1> DEFINE heights == Heights(document)
           classes == Field(document, "sapient_classification")
<1>1. PICK v \in Field(document, "lat") : TRUE
  OBVIOUS
<1>2. v \in Field(document, "lon") /\ v = << v[1], "deg" >>
  BY <1>1 DEF Relayable
<1>3. PICK h \in OrElse(heights, "zero") : TRUE
  BY DEF OrElse
<1>4. PICK k \in OrElse(classes, Unclassified) : TRUE
  BY DEF OrElse
<1>5. Detection(o, n, k, v[1], h) \in EncodeOutbound(o, document, n)
  BY <1>1, <1>2, <1>3, <1>4, Encodes
<1>6. Field(document, "hae") = IF h = "zero" THEN {} ELSE {<< h, "m" >>}
  <2>1. CASE Field(document, "hae") = {}
    BY <1>3, <2>1 DEF OrElse, Heights
  <2>2. ASSUME NEW hae \in Field(document, "hae")
        PROVE  Field(document, "hae") = IF h = "zero" THEN {} ELSE {<< h, "m" >>}
    <3>1. Field(document, "hae") = {hae} /\ hae = << hae[1], "m" >> /\ hae[1] # "zero"
      BY DEF Relayable, Alone
    <3>2. heights = {hae[1]}
      BY <3>1 DEF Heights
    <3>3. h = hae[1]
      BY <1>3, <3>2 DEF OrElse
    <3> QED BY <3>1, <3>3
  <2> QED BY <2>1, <2>2
<1>7. classes = IF k = "" THEN {} ELSE {k}
  <2>1. CASE classes = {}
    BY <1>4, <2>1 DEF OrElse, Unclassified
  <2>2. CASE classes # {}
    BY <1>4, <2>2 DEF OrElse, Relayable, Alone
  <2> QED BY <2>1, <2>2
<1>8. Says(document, v[1], h, k)
  <2>1. Field(document, "lat") = {v} /\ Field(document, "lon") = {v}
    BY <1>1 DEF Relayable, Alone
  <2> QED BY <1>2, <1>6, <1>7, <2>1 DEF Says
<1>9. PICK d \in DecodeInbound(Detection(o, n, k, v[1], h), {}) : d.id = o /\ Says(d.fields, v[1], h, k)
  BY DecodesDetection
<1>10. \A f \in {"lat", "lon", "hae", "sapient_classification"} :
         Field(d.fields, f) = Field(document, f)
  BY <1>8, <1>9 DEF Says
<1>11. QED
  BY <1>5, <1>9, <1>10

\* Every track on the mesh that has a place can be passed on to the HLDMM of a
\* gateway, whatever detections it was merged from and in whatever units and
\* kinds they came, and is read there as it was (translator.rs:107-160,
\* detection.rs:71-131, 364-402, mesh_fields.rs:60-95).
THEOREM TracksCanBeRelayed == Spec => []RelayPreserves
<1>1. DocumentInv => RelayPreserves
  <2> SUFFICES ASSUME DocumentInv, NEW o \in Object, Field(tracks[o], "lat") # {}, NEW n \in Node
               PROVE  \E m \in EncodeOutbound(o, tracks[o], n) : \E d \in DecodeInbound(m, {}) :
                        /\ d.id = o
                        /\ \A f \in {"lat", "lon", "hae", "sapient_classification"} :
                             Field(d.fields, f) = Field(tracks[o], f)
    BY DEF RelayPreserves
  <2>1. Relayable(tracks[o])
    BY DEF DocumentInv, TrackInv
  <2> QED BY <2>1, RelayedAsItWas
<1>2. QED
  BY <1>1, DocumentsAlways, PTL

=============================================================================
