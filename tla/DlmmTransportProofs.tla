-------------------------- MODULE DlmmTransportProofs --------------------------
(***************************************************************************)
(* What DlmmTransport guarantees for every set of messages, every depth of *)
(* the channel and every bound: the tasks and the outbound channel, the    *)
(* place and the order of every message, and the order of the reports.     *)
(***************************************************************************)
EXTENDS DlmmTransport, TLAPS

\* An aborted loop has no record, and the flag of a loop that ended by itself is
\* cleared: where the record is kept, the flag tells the truth.
AbortedUnrecorded ==
  /\ peerAborted => ~record
  /\ loop \in {"none", "dial", "register", "report"} => ~record
  /\ loop = "register" => ~peerAborted
  /\ alive /\ peer = "none" => peerAborted
  /\ receiver = "transport" => loop = "none"

\* Nothing is aborted, and nothing ends for good, without a call; and while the
\* loop waits for a connection to end, its record is missing only after one.
OnDemand ==
  /\ loopAborted \/ peerAborted \/ loop = "dead" => GivenUp
  /\ loop \in {"greet", "await", "check"} => record \/ GivenUp

\* A running peer loop holds the receiver, so that the connect loop, when it has
\* it, knows that none is running.
HeldByPeer ==
  /\ peer # "none" => receiver = "peer"
  /\ loop \in {"dial", "check", "deregister", "report"} => receiver = "loop"

IInv ==
  /\ TypeOK /\ AbortedUnrecorded /\ OnDemand /\ ChannelSurvives
  /\ HeldByPeer /\ RunningIsReachable

-----------------------------------------------------------------------------

LEMMA ToSetType == ASSUME NEW S, NEW s \in Seq(S) PROVE ToSet(s) \subseteq S
  BY DEF ToSet

LEMMA GroupsUnchanged ==
  ASSUME UNCHANGED vars
  PROVE  UNCHANGED << loop, loopAborted, conn, record, peer, peerAborted, alive,
                      receiver, hand, outbound, stopping, farewell, disconnected,
                      events, link, wire, received, faults, accepted, lost >>
  BY DEF vars, loopVars, peerVars, callVars, networkVars, channelVars

LEMMA EmptySequence == ASSUME NEW S PROVE << >> \in Seq(S) /\ Len(<< >>) = 0
  OBVIOUS

LEMMA TypeInit == Init => TypeOK
<1> SUFFICES ASSUME Init PROVE TypeOK
  OBVIOUS
<1>1. outbound = << >> /\ hand = << >> /\ events = << >> /\ received = << >> /\ accepted
   = << >>
  BY DEF Init
<1>2. /\ events \in Seq({"Connected", "RemoteClosed", "LocalClosed"})
      /\ received \in Seq(Message \X Conn)
  BY <1>1, EmptySequence, Zenon
<1>3. hand \in Seq(Message) /\ outbound \in Seq(Message) /\ accepted \in Seq(Message)
  BY <1>1, EmptySequence, Zenon
<1>4. wire \in [Conn -> Seq(Message)]
  BY EmptySequence, Zenon DEF Init
<1>5. link \in [Conn -> {"none", "up", "down", "closed"}]
  BY DEF Init
<1>6. Len(hand) <= 1 /\ Len(outbound) <= Depth
  BY <1>1, EmptySequence, TransportAssumption
<1>7. conn \in 0..MaxConn /\ faults \in 0..MaxFaults
  BY TransportAssumption DEF Init
<1>8. lost = {}
  BY DEF Init
<1> QED BY <1>2, <1>3, <1>4, <1>5, <1>6, <1>7, <1>8 DEF Init, TypeOK

\* The two halves of TypeOK, so that no leaf has to establish all of it.
TypeControl ==
  /\ loop \in {"none", "dial", "register", "greet", "await", "check", "deregister",
               "report", "dead"}
  /\ peer \in {"none", "select", "send", "finish"}
  /\ loopAborted \in BOOLEAN /\ peerAborted \in BOOLEAN /\ alive \in BOOLEAN
  /\ conn \in 0..MaxConn
  /\ record \in BOOLEAN
  /\ receiver \in {"transport", "loop", "peer", "returned", "dropped"}
  /\ stopping \in {"no", "drain", "done"}
  /\ farewell \in BOOLEAN /\ disconnected \in BOOLEAN
  /\ faults \in 0..MaxFaults

TypeData ==
  /\ hand \in Seq(Message) /\ Len(hand) <= 1
  /\ outbound \in Seq(Message) /\ Len(outbound) <= Depth
  /\ events \in Seq({"Connected", "RemoteClosed", "LocalClosed"})
  /\ link \in [Conn -> {"none", "up", "down", "closed"}]
  /\ wire \in [Conn -> Seq(Message)]
  /\ received \in Seq(Message \X Conn)
  /\ accepted \in Seq(Message)
  /\ lost \subseteq Message

LEMMA TypeStep == TypeOK /\ [Next]_vars => TypeOK'
<1> SUFFICES ASSUME TypeControl, TypeData, [Next]_vars PROVE TypeControl' /\ TypeData'
  BY DEF TypeOK, TypeControl, TypeData
<1> USE TransportAssumption, ToSetType DEF TypeControl, TypeData, Conn,
           loopVars, peerVars, callVars, networkVars, channelVars
<1>1. CASE Start
  BY <1>1 DEF Start
<1>2. CASE Connect
  <2>1. conn + 1 \in 0..MaxConn
    BY <1>2 DEF Connect
  <2>2. link' \in [Conn -> {"none", "up", "down", "closed"}]
    BY <1>2 DEF Connect
  <2>3. TypeControl'
    BY <1>2, <2>1, <2>2 DEF Connect
  <2>4. TypeData'
    BY <1>2, <2>1, <2>2 DEF Connect
  <2> HIDE DEF TypeControl, TypeData
  <2> QED BY <2>3, <2>4
<1>3. CASE RegisterPeer
  BY <1>3 DEF RegisterPeer
<1>4. CASE EmitConnected
  BY <1>4 DEF EmitConnected
<1>5. CASE TakeBack
  BY <1>5 DEF TakeBack
<1>6. CASE PeerGone
  BY <1>6 DEF PeerGone
<1>7. CASE Wanted
  BY <1>7 DEF Wanted
<1>8. CASE Unwanted
  BY <1>8 DEF Unwanted, DropReceiver
<1>9. CASE DeregisterPeer
  <2>1. TypeControl'
    BY <1>9 DEF DeregisterPeer
  <2>2. TypeData'
    BY <1>9 DEF DeregisterPeer
  <2> HIDE DEF TypeControl, TypeData
  <2> QED BY <2>1, <2>2
<1>10. CASE EmitRemoteClosed
  BY <1>10 DEF EmitRemoteClosed
<1>11. CASE LoopDies
  <2>1. /\ outbound' \in Seq(Message) /\ Len(outbound') <= Depth
        /\ lost' \subseteq Message
        /\ receiver' \in {"transport", "loop", "peer", "returned", "dropped"}
    <3>1. CASE receiver \in {"loop", "returned"}
      BY <1>11, <3>1, EmptySequence DEF LoopDies, DropReceiver
    <3>2. CASE receiver \notin {"loop", "returned"}
      BY <1>11, <3>2 DEF LoopDies
    <3> QED BY <3>1, <3>2
  <2>2. TypeControl'
    BY <1>11, <2>1 DEF LoopDies
  <2>3. TypeData'
    BY <1>11, <2>1 DEF LoopDies
  <2> HIDE DEF TypeControl, TypeData
  <2> QED BY <2>2, <2>3
<1>12. CASE Take
  BY <1>12 DEF Take
<1>13. CASE SendRaw
  <2>1. wire' \in [Conn -> Seq(Message)] /\ lost' \subseteq Message
    <3>1. CASE link[conn] = "up"
      <4>1. \A c \in Conn : wire[c] \o hand \in Seq(Message)
        OBVIOUS
      <4>2. wire' = [wire EXCEPT ![conn] = wire[conn] \o hand] /\ lost' = lost
        BY <1>13, <3>1 DEF SendRaw
      <4> QED BY <4>1, <4>2
    <3>2. CASE link[conn] # "up"
      BY <1>13, <3>2 DEF SendRaw
    <3> QED BY <3>1, <3>2
  <2>2. hand' \in Seq(Message) /\ Len(hand') <= 1
    BY <1>13, EmptySequence DEF SendRaw
  <2>3. TypeControl'
    BY <1>13, <2>1, <2>2 DEF SendRaw
  <2>4. TypeData'
    BY <1>13, <2>1, <2>2 DEF SendRaw
  <2> HIDE DEF TypeControl, TypeData
  <2> QED BY <2>3, <2>4
<1>14. CASE SendFails
  BY <1>14 DEF SendFails
<1>15. CASE EndOfStream
  BY <1>15 DEF EndOfStream
<1>16. CASE RecvError
  BY <1>16 DEF RecvError
<1>17. CASE Finish
  <2>1. /\ outbound' \in Seq(Message) /\ Len(outbound') <= Depth
        /\ lost' \subseteq Message
        /\ receiver' \in {"transport", "loop", "peer", "returned", "dropped"}
    <3>1. CASE loop = "dead"
      BY <1>17, <3>1, EmptySequence DEF Finish, DropReceiver
    <3>2. CASE loop # "dead"
      BY <1>17, <3>2 DEF Finish
    <3> QED BY <3>1, <3>2
  <2>2. link' \in [Conn -> {"none", "up", "down", "closed"}]
    BY <1>17 DEF Finish
  <2>3. TypeControl'
    BY <1>17, <2>1, <2>2 DEF Finish
  <2>4. TypeData'
    BY <1>17, <2>1, <2>2 DEF Finish
  <2> HIDE DEF TypeControl, TypeData
  <2> QED BY <2>3, <2>4
<1>18. CASE PeerDies
  <2>1. /\ outbound' \in Seq(Message) /\ Len(outbound') <= Depth
        /\ hand' \in Seq(Message) /\ Len(hand') <= 1
    BY <1>18, EmptySequence DEF PeerDies
  <2>2. lost' \subseteq Message
    BY <1>18 DEF PeerDies
  <2>3. link' \in [Conn -> {"none", "up", "down", "closed"}]
    BY <1>18 DEF PeerDies
  <2>4. TypeControl'
    BY <1>18, <2>1, <2>2, <2>3 DEF PeerDies
  <2>5. TypeData'
    BY <1>18, <2>1, <2>2, <2>3 DEF PeerDies
  <2> HIDE DEF TypeControl, TypeData
  <2> QED BY <2>4, <2>5
<1>19. CASE Disconnect
  <2>1. TypeControl'
    BY <1>19 DEF Disconnect
  <2>2. TypeData'
    BY <1>19 DEF Disconnect
  <2> HIDE DEF TypeControl, TypeData
  <2> QED BY <2>1, <2>2
<1>20. CASE EmitLocalClosed
  <2>1. events' \in Seq({"Connected", "RemoteClosed", "LocalClosed"})
    BY <1>20 DEF EmitLocalClosed
  <2>2. farewell' \in BOOLEAN /\ disconnected' \in BOOLEAN /\ stopping' = stopping
    BY <1>20 DEF EmitLocalClosed
  <2>3. TypeControl'
    BY <1>20, <2>1, <2>2 DEF EmitLocalClosed
  <2>4. TypeData'
    BY <1>20, <2>1, <2>2 DEF EmitLocalClosed
  <2> HIDE DEF TypeControl, TypeData
  <2> QED BY <2>3, <2>4
<1>21. CASE StopListener
  BY <1>21 DEF StopListener
<1>22. CASE StopPeers
  <2>1. TypeControl'
    BY <1>22, ZenonT(60) DEF StopPeers
  <2>2. TypeData'
    BY <1>22 DEF StopPeers
  <2> HIDE DEF TypeControl, TypeData
  <2> QED BY <2>1, <2>2
<1>23. CASE \E m \in Message : SendOutbound(m)
  BY <1>23 DEF SendOutbound
<1>24. CASE \E c \in Conn : Receive(c)
  BY <1>24 DEF Receive
<1>25. CASE \E c \in Conn : Break(c)
  BY <1>25 DEF Break
<1>26. CASE \E c \in Conn : Vanish(c)
  BY <1>26 DEF Vanish
<1>27. CASE UNCHANGED vars
  BY <1>27, GroupsUnchanged
<1>28. QED
  BY <1>1, <1>2, <1>3, <1>4, <1>5, <1>6, <1>7, <1>8, <1>9, <1>10, <1>11, <1>12, <1>13,
     <1>14, <1>15, <1>16, <1>17, <1>18, <1>19, <1>20, <1>21, <1>22, <1>23, <1>24, <1>25,
     <1>26, <1>27 DEF Next, LoopStep, PeerStep, CallerStep, NetworkStep

LEMMA AbortedUnrecordedStep == TypeOK /\ AbortedUnrecorded /\ [Next]_vars =>
   AbortedUnrecorded'
<1> SUFFICES ASSUME TypeOK /\ AbortedUnrecorded, [Next]_vars PROVE AbortedUnrecorded'
  OBVIOUS
<1> USE DEF AbortedUnrecorded, TypeOK,
           loopVars, peerVars, callVars, networkVars, channelVars
<1>1. CASE Start
  BY <1>1 DEF Start
<1>2. CASE Connect
  BY <1>2 DEF Connect
<1>3. CASE RegisterPeer
  BY <1>3 DEF RegisterPeer
<1>4. CASE EmitConnected
  BY <1>4 DEF EmitConnected
<1>5. CASE TakeBack
  BY <1>5 DEF TakeBack
<1>6. CASE PeerGone
  BY <1>6 DEF PeerGone
<1>7. CASE Wanted
  BY <1>7 DEF Wanted
<1>8. CASE Unwanted
  BY <1>8 DEF Unwanted, DropReceiver
<1>9. CASE DeregisterPeer
  BY <1>9 DEF DeregisterPeer
<1>10. CASE EmitRemoteClosed
  BY <1>10 DEF EmitRemoteClosed
<1>11. CASE LoopDies
  BY <1>11 DEF LoopDies, DropReceiver
<1>12. CASE Take
  BY <1>12 DEF Take
<1>13. CASE SendRaw
  BY <1>13 DEF SendRaw
<1>14. CASE SendFails
  BY <1>14 DEF SendFails
<1>15. CASE EndOfStream
  BY <1>15 DEF EndOfStream
<1>16. CASE RecvError
  BY <1>16 DEF RecvError
<1>17. CASE Finish
  BY <1>17 DEF Finish, DropReceiver
<1>18. CASE PeerDies
  BY <1>18 DEF PeerDies
<1>19. CASE Disconnect
  BY <1>19 DEF Disconnect
<1>20. CASE EmitLocalClosed
  BY <1>20 DEF EmitLocalClosed
<1>21. CASE StopListener
  BY <1>21 DEF StopListener
<1>22. CASE StopPeers
  BY <1>22 DEF StopPeers
<1>23. CASE \E m \in Message : SendOutbound(m)
  BY <1>23 DEF SendOutbound
<1>24. CASE \E c \in Conn : Receive(c)
  BY <1>24 DEF Receive
<1>25. CASE \E c \in Conn : Break(c)
  BY <1>25 DEF Break
<1>26. CASE \E c \in Conn : Vanish(c)
  BY <1>26 DEF Vanish
<1>27. CASE UNCHANGED vars
  BY <1>27, GroupsUnchanged
<1>28. QED
  BY <1>1, <1>2, <1>3, <1>4, <1>5, <1>6, <1>7, <1>8, <1>9, <1>10, <1>11, <1>12, <1>13,
     <1>14, <1>15, <1>16, <1>17, <1>18, <1>19, <1>20, <1>21, <1>22, <1>23, <1>24, <1>25,
     <1>26, <1>27 DEF Next, LoopStep, PeerStep, CallerStep, NetworkStep

LEMMA OnDemandStep == IInv /\ [Next]_vars => (OnDemand /\ ChannelSurvives)'
<1> SUFFICES ASSUME IInv, [Next]_vars PROVE (OnDemand /\ ChannelSurvives)'
  OBVIOUS
<1> USE DEF IInv, OnDemand, ChannelSurvives, GivenUp, AbortedUnrecorded, TypeOK,
           loopVars, peerVars, callVars, networkVars, channelVars
<1>1. CASE Start
  BY <1>1 DEF Start
<1>2. CASE Connect
  BY <1>2 DEF Connect
<1>3. CASE RegisterPeer
  BY <1>3 DEF RegisterPeer
<1>4. CASE EmitConnected
  BY <1>4 DEF EmitConnected
<1>5. CASE TakeBack
  BY <1>5 DEF TakeBack
<1>6. CASE PeerGone
  BY <1>6 DEF PeerGone
<1>7. CASE Wanted
  BY <1>7 DEF Wanted
<1>8. CASE Unwanted
  BY <1>8 DEF Unwanted, DropReceiver
<1>9. CASE DeregisterPeer
  BY <1>9 DEF DeregisterPeer
<1>10. CASE EmitRemoteClosed
  BY <1>10 DEF EmitRemoteClosed
<1>11. CASE LoopDies
  BY <1>11 DEF LoopDies, DropReceiver
<1>12. CASE Take
  BY <1>12 DEF Take
<1>13. CASE SendRaw
  BY <1>13 DEF SendRaw
<1>14. CASE SendFails
  BY <1>14 DEF SendFails
<1>15. CASE EndOfStream
  BY <1>15 DEF EndOfStream
<1>16. CASE RecvError
  BY <1>16 DEF RecvError
<1>17. CASE Finish
  BY <1>17 DEF Finish, DropReceiver
<1>18. CASE PeerDies
  BY <1>18 DEF PeerDies
<1>19. CASE Disconnect
  BY <1>19 DEF Disconnect
<1>20. CASE EmitLocalClosed
  BY <1>20 DEF EmitLocalClosed
<1>21. CASE StopListener
  BY <1>21 DEF StopListener
<1>22. CASE StopPeers
  BY <1>22 DEF StopPeers
<1>23. CASE \E m \in Message : SendOutbound(m)
  BY <1>23 DEF SendOutbound
<1>24. CASE \E c \in Conn : Receive(c)
  BY <1>24 DEF Receive
<1>25. CASE \E c \in Conn : Break(c)
  BY <1>25 DEF Break
<1>26. CASE \E c \in Conn : Vanish(c)
  BY <1>26 DEF Vanish
<1>27. CASE UNCHANGED vars
  BY <1>27, GroupsUnchanged
<1>28. QED
  BY <1>1, <1>2, <1>3, <1>4, <1>5, <1>6, <1>7, <1>8, <1>9, <1>10, <1>11, <1>12, <1>13,
     <1>14, <1>15, <1>16, <1>17, <1>18, <1>19, <1>20, <1>21, <1>22, <1>23, <1>24, <1>25,
     <1>26, <1>27 DEF Next, LoopStep, PeerStep, CallerStep, NetworkStep

LEMMA ReachableStep == IInv /\ [Next]_vars => (HeldByPeer /\ RunningIsReachable)'
<1> SUFFICES ASSUME IInv, [Next]_vars PROVE (HeldByPeer /\ RunningIsReachable)'
  OBVIOUS
<1> USE DEF IInv, HeldByPeer, RunningIsReachable, AbortedUnrecorded, TypeOK,
           loopVars, peerVars, callVars, networkVars, channelVars
<1>1. CASE Start
  BY <1>1 DEF Start
<1>2. CASE Connect
  BY <1>2 DEF Connect
<1>3. CASE RegisterPeer
  BY <1>3 DEF RegisterPeer
<1>4. CASE EmitConnected
  BY <1>4 DEF EmitConnected
<1>5. CASE TakeBack
  BY <1>5 DEF TakeBack
<1>6. CASE PeerGone
  BY <1>6 DEF PeerGone
<1>7. CASE Wanted
  BY <1>7 DEF Wanted
<1>8. CASE Unwanted
  BY <1>8 DEF Unwanted, DropReceiver
<1>9. CASE DeregisterPeer
  BY <1>9 DEF DeregisterPeer
<1>10. CASE EmitRemoteClosed
  BY <1>10 DEF EmitRemoteClosed
<1>11. CASE LoopDies
  BY <1>11 DEF LoopDies, DropReceiver
<1>12. CASE Take
  BY <1>12 DEF Take
<1>13. CASE SendRaw
  BY <1>13 DEF SendRaw
<1>14. CASE SendFails
  BY <1>14 DEF SendFails
<1>15. CASE EndOfStream
  BY <1>15 DEF EndOfStream
<1>16. CASE RecvError
  BY <1>16 DEF RecvError
<1>17. CASE Finish
  BY <1>17 DEF Finish, DropReceiver
<1>18. CASE PeerDies
  BY <1>18 DEF PeerDies
<1>19. CASE Disconnect
  BY <1>19 DEF Disconnect
<1>20. CASE EmitLocalClosed
  BY <1>20 DEF EmitLocalClosed
<1>21. CASE StopListener
  BY <1>21 DEF StopListener
<1>22. CASE StopPeers
  BY <1>22 DEF StopPeers
<1>23. CASE \E m \in Message : SendOutbound(m)
  BY <1>23 DEF SendOutbound
<1>24. CASE \E c \in Conn : Receive(c)
  BY <1>24 DEF Receive
<1>25. CASE \E c \in Conn : Break(c)
  BY <1>25 DEF Break
<1>26. CASE \E c \in Conn : Vanish(c)
  BY <1>26 DEF Vanish
<1>27. CASE UNCHANGED vars
  BY <1>27, GroupsUnchanged
<1>28. QED
  BY <1>1, <1>2, <1>3, <1>4, <1>5, <1>6, <1>7, <1>8, <1>9, <1>10, <1>11, <1>12, <1>13,
     <1>14, <1>15, <1>16, <1>17, <1>18, <1>19, <1>20, <1>21, <1>22, <1>23, <1>24, <1>25,
     <1>26, <1>27 DEF Next, LoopStep, PeerStep, CallerStep, NetworkStep

LEMMA Inductive == Spec => []IInv
<1>1. Init => IInv
  BY TypeInit DEF Init, IInv, AbortedUnrecorded, OnDemand, ChannelSurvives, GivenUp,
                      HeldByPeer, RunningIsReachable
<1>2. IInv /\ [Next]_vars => IInv'
  BY TypeStep, AbortedUnrecordedStep, OnDemandStep, ReachableStep DEF IInv
<1>3. QED
  BY <1>1, <1>2, PTL DEF Spec

-----------------------------------------------------------------------------

\* The transport keeps its variables in their types and its channel within its
\* depth (transport.rs:143, 164-191).
THEOREM TransportTypeCorrect == Spec => []TypeOK
  BY Inductive, PTL DEF IInv

\* No loss of a connection closes the outbound channel: only stop() and
\* disconnect() do (transport.rs:29-36, 484-531).
THEOREM ChannelSurvivesLosses == Spec => []ChannelSurvives
  BY Inductive, PTL DEF IInv

\* A peer reported healthy has a running peer loop (transport.rs:436-450,
\* 758-798, 832-842).
THEOREM HealthIsTrue == Spec => []HealthyMeansRunning
<1>1. IInv => HealthyMeansRunning
  BY DEF IInv, AbortedUnrecorded, HealthyMeansRunning
<1>2. QED
  BY <1>1, Inductive, PTL

\* A peer loop that was not aborted is within reach of stop() and disconnect(), or
\* will be (transport.rs:251-266, 484-512, 758-798).
THEOREM TransportReachable == Spec => []RunningIsReachable
  BY Inductive, PTL DEF IInv

-----------------------------------------------------------------------------
(***************************************************************************)
(* Nothing is forgotten. The state the property speaks of is made explicit *)
(* so that what a step does to it is a lemma without actions.              *)
(***************************************************************************)

SoonerIn(a, m, n) == \E i, j \in DOMAIN a : i < j /\ a[i] = m /\ a[j] = n
Ordered(a, s) == \A i, j \in DOMAIN s : i < j => SoonerIn(a, s[i], s[j])
Leads(a, A, B) == \A m \in A, n \in B : SoonerIn(a, m, n)
Came(r, c) == { x[1] : x \in { q \in ToSet(r) : q[2] = c } }
CarriedIn(r, w, c) == Came(r, c) \union ToSet(w[c])

Complete(a, h, o, r, w, l) ==
  (UNION { CarriedIn(r, w, c) : c \in Conn }) \union (ToSet(h) \union ToSet(o)) = ToSet(a) \ l

InPlace(a, h, o, r, w) ==
  /\ \A i, j \in DOMAIN r : i < j /\ r[i][2] = r[j][2] => SoonerIn(a, r[i][1], r[j][1])
  /\ \A c \in Conn :
       /\ Ordered(a, w[c]) /\ Leads(a, Came(r, c), ToSet(w[c]))
       /\ \A d \in Conn : c < d => Leads(a, CarriedIn(r, w, c), CarriedIn(r, w, d))
       /\ Leads(a, CarriedIn(r, w, c), ToSet(h) \union ToSet(o))
  /\ Leads(a, ToSet(h), ToSet(o)) /\ Ordered(a, o)

Once(a) == \A i, j \in DOMAIN a : a[i] = a[j] => i = j

Placed(a, h, o, r, w, l) ==
  Complete(a, h, o, r, w, l) /\ InPlace(a, h, o, r, w) /\ Once(a)

DataType(a, h, o, r, w, l) ==
  /\ a \in Seq(Message) /\ h \in Seq(Message) /\ Len(h) <= 1 /\ o \in Seq(Message)
  /\ r \in Seq(Message \X Conn) /\ w \in [Conn -> Seq(Message)] /\ l \subseteq Message

LEMMA PlacedIsTheProperty ==
  Placed(accepted, hand, outbound, received, wire, lost) => NothingForgotten
<1> SUFFICES ASSUME Placed(accepted, hand, outbound, received, wire, lost)
             PROVE  NothingForgotten
  OBVIOUS
<1>1. \A m, n : Sooner(m, n) <=> SoonerIn(accepted, m, n)
  BY DEF Sooner, SoonerIn
<1>2. \A s : Ordered(accepted, s) => InOrder(s)
  BY <1>1 DEF Ordered, InOrder
<1>3. \A A, B : Leads(accepted, A, B) => Ahead(A, B)
  BY <1>1 DEF Leads, Ahead
<1>4. \A c : Arrived(c) = Came(received, c) /\ Carried(c) = CarriedIn(received, wire, c)
  BY DEF Arrived, Carried, Came, CarriedIn
<1>5. UNION { Carried(c) : c \in Conn } = UNION { CarriedIn(received, wire, c) : c \in Conn }
  BY <1>4
<1>6. QED
  BY <1>1, <1>2, <1>3, <1>4, <1>5 DEF Placed, Complete, InPlace, NothingForgotten

\* Sequences.
LEMMA EmptySet == ToSet(<< >>) = {} /\ \A a : Ordered(a, << >>)
  BY DEF ToSet, Ordered

LEMMA HeadAndTail ==
  ASSUME NEW M, NEW s \in Seq(M), s # << >>, NEW a
  PROVE  /\ Head(s) \in M /\ Tail(s) \in Seq(M)
         /\ ToSet(s) = {Head(s)} \union ToSet(Tail(s))
         /\ Ordered(a, s) =>
              /\ Ordered(a, Tail(s))
              /\ \A n \in ToSet(Tail(s)) : SoonerIn(a, Head(s), n)
<1> DEFINE t == Tail(s)
<1>1. /\ Len(s) \in Nat \ {0} /\ t \in Seq(M) /\ Len(t) = Len(s) - 1
      /\ \A i \in 1..Len(t) : t[i] = s[i + 1]
      /\ Head(s) = s[1] /\ DOMAIN s = 1..Len(s) /\ DOMAIN t = 1..Len(t)
  OBVIOUS
<1> HIDE DEF t
<1>2. ToSet(s) = {Head(s)} \union ToSet(t)
  <2>1. ASSUME NEW x \in ToSet(s) PROVE x \in {Head(s)} \union ToSet(t)
    <3>1. PICK i \in 1..Len(s) : x = s[i]
      BY <1>1 DEF ToSet
    <3>2. CASE i = 1
      BY <1>1, <3>1, <3>2
    <3>3. CASE i # 1
      <4>1. i - 1 \in 1..Len(t) /\ t[i - 1] = s[i]
        BY <1>1, <3>3
      <4> QED BY <1>1, <3>1, <4>1 DEF ToSet
    <3> QED BY <3>2, <3>3
  <2>2. {Head(s)} \union ToSet(t) \subseteq ToSet(s)
    BY <1>1 DEF ToSet
  <2> QED BY <2>1, <2>2
<1>3. ASSUME Ordered(a, s)
      PROVE  Ordered(a, t) /\ \A n \in ToSet(t) : SoonerIn(a, Head(s), n)
  <2>1. ASSUME NEW i \in 1..Len(t), NEW j \in 1..Len(t), i < j PROVE SoonerIn(a, t[i], t[j])
    <3>1. i + 1 \in DOMAIN s /\ j + 1 \in DOMAIN s /\ i + 1 < j + 1
      BY <1>1, <2>1
    <3> QED BY <1>1, <1>3, <3>1 DEF Ordered
  <2>2. ASSUME NEW i \in 1..Len(t) PROVE SoonerIn(a, Head(s), t[i])
    <3>1. 1 \in DOMAIN s /\ i + 1 \in DOMAIN s /\ 1 < i + 1
      BY <1>1
    <3> QED BY <1>1, <1>3, <3>1 DEF Ordered
  <2> QED BY <1>1, <2>1, <2>2 DEF Ordered, ToSet
<1>4. s[1] \in M
  BY <1>1
<1>5. QED
  BY <1>1, <1>2, <1>3, <1>4 DEF t

LEMMA AppendedSet ==
  ASSUME NEW M, NEW s \in Seq(M), NEW x \in M, NEW a
  PROVE  /\ Append(s, x) \in Seq(M)
         /\ ToSet(Append(s, x)) = ToSet(s) \union {x}
         /\ Ordered(a, s) /\ (\A m \in ToSet(s) : SoonerIn(a, m, x)) => Ordered(a, Append(s, x))
<1> DEFINE t == Append(s, x)
<1>1. /\ Len(s) \in Nat /\ t \in Seq(M) /\ Len(t) = Len(s) + 1
      /\ \A i \in 1..Len(s) : t[i] = s[i]
      /\ t[Len(s) + 1] = x /\ DOMAIN s = 1..Len(s) /\ DOMAIN t = 1..Len(t)
  OBVIOUS
<1> HIDE DEF t
<1>2. ToSet(t) = ToSet(s) \union {x}
  BY <1>1 DEF ToSet
<1>3. ASSUME Ordered(a, s), \A m \in ToSet(s) : SoonerIn(a, m, x) PROVE Ordered(a, t)
  <2>1. ASSUME NEW i \in 1..Len(t), NEW j \in 1..Len(t), i < j PROVE SoonerIn(a, t[i], t[j])
    <3>1. i \in 1..Len(s) /\ t[i] = s[i] /\ s[i] \in ToSet(s)
      BY <1>1, <2>1 DEF ToSet
    <3>2. CASE j = Len(s) + 1
      BY <1>1, <1>3, <3>1, <3>2
    <3>3. CASE j # Len(s) + 1
      <4>1. j \in 1..Len(s)
        BY <1>1, <3>3
      <4> QED BY <1>1, <1>3, <2>1, <3>1, <4>1 DEF Ordered
    <3> QED BY <3>2, <3>3
  <2> QED BY <1>1, <2>1 DEF Ordered
<1>4. QED
  BY <1>1, <1>2, <1>3 DEF t

LEMMA CameAppended ==
  ASSUME NEW r \in Seq(Message \X Conn), NEW m \in Message, NEW c \in Conn
  PROVE  /\ Append(r, << m, c >>) \in Seq(Message \X Conn)
         /\ \A d : Came(Append(r, << m, c >>), d) =
                     IF d = c THEN Came(r, d) \union {m} ELSE Came(r, d)
<1> DEFINE x == << m, c >>
<1>1. x \in Message \X Conn /\ x[1] = m /\ x[2] = c
  OBVIOUS
<1> HIDE DEF x
<1>2. Append(r, x) \in Seq(Message \X Conn) /\ ToSet(Append(r, x)) = ToSet(r) \union {x}
  BY <1>1, AppendedSet
<1>3. \A d : Came(Append(r, x), d) = IF d = c THEN Came(r, d) \union {m} ELSE Came(r, d)
  BY <1>1, <1>2 DEF Came
<1>4. QED
  BY <1>2, <1>3 DEF x

LEMMA CameElsewhere ==
  \A r \in Seq(Message \X Conn), m \in Message, c \in Conn, d \in Conn :
    d # c => Came(Append(r, << m, c >>), d) = Came(r, d)
<1> TAKE r \in Seq(Message \X Conn), m \in Message, c \in Conn, d \in Conn
<1> DEFINE x == << m, c >>
<1>1. x \in Message \X Conn /\ x[2] = c
  OBVIOUS
<1> HIDE DEF x
<1>2. ToSet(Append(r, x)) = ToSet(r) \union {x}
  BY <1>1, AppendedSet
<1>3. d # c => Came(Append(r, x), d) = Came(r, d)
  BY <1>1, <1>2 DEF Came
<1>4. QED
  BY <1>3 DEF x

\* Nothing was accepted before itself.
LEMMA NotBeforeItself ==
  ASSUME NEW a \in Seq(Message), Once(a), NEW A, NEW B, Leads(a, A, B)
  PROVE  A \intersect B = {}
<1>1. \A m : ~SoonerIn(a, m, m)
  BY DEF SoonerIn, Once
<1>2. QED
  BY <1>1 DEF Leads

\* The peer loop takes the head of the channel.
LEMMA TakeKeepsPlaces ==
  ASSUME NEW a, NEW o, NEW r, NEW w, NEW l, DataType(a, << >>, o, r, w, l),
         Placed(a, << >>, o, r, w, l), o # << >>
  PROVE  Placed(a, << Head(o) >>, Tail(o), r, w, l)
<1> DEFINE x == Head(o)  t == Tail(o)
<1>1. /\ ToSet(o) = {x} \union ToSet(t)
      /\ Ordered(a, t) /\ \A n \in ToSet(t) : SoonerIn(a, x, n)
  BY HeadAndTail DEF DataType, Placed, InPlace
<1>2. ToSet(<< x >>) = {x}
  BY DEF ToSet
<1>3. ToSet(<< >>) \union ToSet(o) = ToSet(<< x >>) \union ToSet(t)
  BY <1>1, <1>2, EmptySet
<1> HIDE DEF x, t
<1>4. Leads(a, ToSet(<< x >>), ToSet(t))
  BY <1>1, <1>2 DEF Leads
<1>5. Complete(a, << x >>, t, r, w, l)
  BY <1>3 DEF Placed, Complete
<1>6. InPlace(a, << x >>, t, r, w)
  BY <1>1, <1>3, <1>4 DEF Placed, InPlace
<1>7. QED
  BY <1>5, <1>6 DEF Placed, x, t

\* What it has in hand goes on the wire of the latest connection.
LEMMA SendKeepsPlaces ==
  ASSUME NEW a, NEW x \in Message, NEW o, NEW r, NEW w, NEW l, NEW c \in Conn,
         DataType(a, << x >>, o, r, w, l), Placed(a, << x >>, o, r, w, l),
         \A d \in Conn : d > c => CarriedIn(r, w, d) = {}
  PROVE  Placed(a, << >>, o, r, [w EXCEPT ![c] = Append(@, x)], l)
<1> DEFINE v == [w EXCEPT ![c] = Append(@, x)]
<1>1. v[c] = Append(w[c], x) /\ \A d \in Conn \ {c} : v[d] = w[d]
  BY DEF DataType
<1>2. w[c] \in Seq(Message) /\ ToSet(<< x >>) = {x}
  BY DEF DataType, ToSet
<1>3. ToSet(v[c]) = ToSet(w[c]) \union {x}
  <2> HIDE DEF v
  <2>1. \A s \in Seq(Message) : ToSet(Append(s, x)) = ToSet(s) \union {x}
    BY AppendedSet
  <2> QED BY <1>1, <1>2, <2>1
<1>4. \A d \in Conn : x \in ToSet(<< x >>) \union ToSet(o) /\ Leads(a, CarriedIn(r, w, d), {x})
  BY <1>2 DEF Placed, InPlace, Leads
<1>5. Ordered(a, v[c]) /\ Leads(a, Came(r, c), ToSet(v[c]))
  <2>1. Ordered(a, w[c]) /\ Leads(a, Came(r, c), ToSet(w[c]))
    BY DEF Placed, InPlace
  <2>2. \A m \in Came(r, c) \union ToSet(w[c]) : SoonerIn(a, m, x)
    BY <1>4 DEF Leads, CarriedIn
  <2>3. Ordered(a, v[c])
    BY <1>1, <1>2, <2>1, <2>2, AppendedSet
  <2> QED BY <1>3, <2>1, <2>2, <2>3 DEF Leads
<1> HIDE DEF v
<1>6. /\ CarriedIn(r, v, c) = CarriedIn(r, w, c) \union {x}
      /\ \A d \in Conn \ {c} : CarriedIn(r, v, d) = CarriedIn(r, w, d)
  BY <1>1, <1>3 DEF CarriedIn
<1>7. Complete(a, << >>, o, r, v, l)
  <2>1. UNION { CarriedIn(r, v, d) : d \in Conn } = (UNION { CarriedIn(r, w, d) : d \in Conn }) \union {x}
    BY <1>6
  <2> QED BY <1>2, <2>1, EmptySet DEF Placed, Complete
<1>8. InPlace(a, << >>, o, r, v)
  <2>1. ASSUME NEW b \in Conn, NEW d \in Conn, b < d
        PROVE  Leads(a, CarriedIn(r, v, b), CarriedIn(r, v, d))
    <3>1. Leads(a, CarriedIn(r, w, b), CarriedIn(r, w, d)) /\ Leads(a, CarriedIn(r, w, b), {x})
      BY <1>4, <2>1 DEF Placed, InPlace
    <3>2. CASE b = c
      <4>1. d > c /\ d # c
        BY <2>1, <3>2 DEF Conn
      <4>2. CarriedIn(r, v, d) = {}
        BY <1>6, <4>1
      <4> QED BY <4>2 DEF Leads
    <3>3. CASE b # c
      BY <1>6, <3>1, <3>3 DEF Leads
    <3> QED BY <3>2, <3>3
  <2>2. ASSUME NEW b \in Conn
        PROVE  /\ Ordered(a, v[b]) /\ Leads(a, Came(r, b), ToSet(v[b]))
               /\ Leads(a, CarriedIn(r, v, b), ToSet(<< >>) \union ToSet(o))
    <3>1. /\ Ordered(a, w[b]) /\ Leads(a, Came(r, b), ToSet(w[b]))
          /\ Leads(a, CarriedIn(r, w, b), ToSet(o)) /\ Leads(a, {x}, ToSet(o))
      BY <1>2 DEF Placed, InPlace, Leads
    <3>2. CarriedIn(r, v, b) \subseteq CarriedIn(r, w, b) \union {x}
      BY <1>6
    <3>3. Leads(a, CarriedIn(r, v, b), ToSet(<< >>) \union ToSet(o))
      BY <3>1, <3>2, EmptySet DEF Leads
    <3>4. CASE b = c
      BY <1>5, <3>3, <3>4
    <3>5. CASE b # c
      BY <1>1, <3>1, <3>3, <3>5
    <3> QED BY <3>4, <3>5
  <2>3. Leads(a, ToSet(<< >>), ToSet(o))
    BY EmptySet DEF Leads
  <2> QED BY <2>1, <2>2, <2>3 DEF Placed, InPlace
<1>9. QED
  BY <1>7, <1>8 DEF Placed, v

\* The HLDMM receives what is first on the wire.
LEMMA ReceiveKeepsPlaces ==
  ASSUME NEW a, NEW h, NEW o, NEW r, NEW w, NEW l, NEW c \in Conn,
         DataType(a, h, o, r, w, l), Placed(a, h, o, r, w, l), w[c] # << >>
  PROVE  Placed(a, h, o, Append(r, << Head(w[c]), c >>), [w EXCEPT ![c] = Tail(@)], l)
<1> DEFINE x == Head(w[c])  t == Tail(w[c])
           s == Append(r, << x, c >>)  v == [w EXCEPT ![c] = Tail(@)]
<1>1. v[c] = t /\ \A d \in Conn \ {c} : v[d] = w[d]
  BY DEF DataType
<1>2. w[c] \in Seq(Message) /\ Ordered(a, w[c])
  BY DEF DataType, Placed, InPlace
<1>3. /\ x \in Message /\ ToSet(w[c]) = {x} \union ToSet(t)
      /\ Ordered(a, t) /\ \A n \in ToSet(t) : SoonerIn(a, x, n)
  BY <1>2, HeadAndTail
<1>4. \A d : Came(s, d) = IF d = c THEN Came(r, d) \union {x} ELSE Came(r, d)
  BY <1>3, CameAppended DEF DataType
<1>5. /\ Len(r) \in Nat /\ DOMAIN r = 1..Len(r) /\ DOMAIN s = 1..(Len(r) + 1)
      /\ \A i \in 1..Len(r) : s[i] = r[i]
      /\ s[Len(r) + 1][1] = x /\ s[Len(r) + 1][2] = c
  <2>1. << x, c >>[1] = x /\ << x, c >>[2] = c
    OBVIOUS
  <2> DEFINE y == << x, c >>
  <2> HIDE DEF x, y
  <2>2. r \in Seq(Message \X Conn)
    BY DEF DataType
  <2>3. /\ Len(r) \in Nat /\ DOMAIN r = 1..Len(r)
        /\ DOMAIN Append(r, y) = 1..(Len(r) + 1)
        /\ \A i \in 1..Len(r) : Append(r, y)[i] = r[i]
        /\ Append(r, y)[Len(r) + 1] = y
    BY <2>2
  <2> QED BY <2>1, <2>3 DEF y
<1> HIDE DEF x, t, s, v
<1>6. \A d \in Conn : CarriedIn(s, v, d) = CarriedIn(r, w, d)
  BY <1>1, <1>3, <1>4 DEF CarriedIn
<1>7. Complete(a, h, o, s, v, l)
  <2>1. UNION { CarriedIn(s, v, d) : d \in Conn } = UNION { CarriedIn(r, w, d) : d \in Conn }
    BY <1>6
  <2> QED BY <2>1 DEF Placed, Complete
<1>8. \A m \in Came(r, c) : SoonerIn(a, m, x)
  BY <1>3 DEF Placed, InPlace, Leads
<1>9. InPlace(a, h, o, s, v)
  <2>1. ASSUME NEW i \in DOMAIN s, NEW j \in DOMAIN s, i < j, s[i][2] = s[j][2]
        PROVE  SoonerIn(a, s[i][1], s[j][1])
    <3>1. i \in 1..Len(r) /\ s[i] = r[i]
      BY <1>5, <2>1
    <3>2. CASE j = Len(r) + 1
      <4>1. r[i][2] = c /\ r[i] \in ToSet(r)
        BY <1>5, <2>1, <3>1, <3>2 DEF ToSet
      <4>2. r[i][1] \in Came(r, c)
        BY <4>1 DEF Came
      <4> QED BY <1>5, <1>8, <3>1, <3>2, <4>2
    <3>3. CASE j # Len(r) + 1
      <4>1. j \in 1..Len(r) /\ s[j] = r[j]
        BY <1>5, <3>3
      <4> QED BY <1>5, <2>1, <3>1, <4>1 DEF Placed, InPlace
    <3> QED BY <3>2, <3>3
  <2>2. ASSUME NEW d \in Conn PROVE Ordered(a, v[d]) /\ Leads(a, Came(s, d), ToSet(v[d]))
    <3>1. CASE d = c
      BY <1>1, <1>3, <1>4, <3>1 DEF Placed, InPlace, Leads
    <3>2. CASE d # c
      BY <1>1, <1>4, <3>2 DEF Placed, InPlace
    <3> QED BY <3>1, <3>2
  <2> QED BY <1>6, <2>1, <2>2 DEF Placed, InPlace
<1>10. QED
  BY <1>7, <1>9 DEF Placed, x, s, v

\* A connection loses what it has on the wire.
LEMMA WireLossKeepsPlaces ==
  ASSUME NEW a, NEW h, NEW o, NEW r, NEW w, NEW l, NEW c \in Conn,
         DataType(a, h, o, r, w, l), Placed(a, h, o, r, w, l)
  PROVE  Placed(a, h, o, r, [w EXCEPT ![c] = << >>], l \union ToSet(w[c]))
<1> DEFINE v == [w EXCEPT ![c] = << >>]  gone == ToSet(w[c])
<1>1. v[c] = << >> /\ \A d \in Conn \ {c} : v[d] = w[d]
  BY DEF DataType
<1>2. ToSet(v[c]) = {} /\ Ordered(a, v[c])
  BY <1>1, EmptySet
<1> HIDE DEF v
<1>3. \A d \in Conn : CarriedIn(r, v, d) \subseteq CarriedIn(r, w, d)
  BY <1>1, <1>2 DEF CarriedIn
<1>4. a \in Seq(Message) /\ Once(a)
  BY DEF DataType, Placed
<1>5. \A d \in Conn : CarriedIn(r, v, d) = CarriedIn(r, w, d) \ gone
  <2>1. CarriedIn(r, v, c) = Came(r, c) /\ CarriedIn(r, w, c) = Came(r, c) \union gone
    BY <1>2 DEF CarriedIn
  <2>2. Leads(a, Came(r, c), gone)
    BY DEF Placed, InPlace
  <2>3. Came(r, c) \intersect gone = {}
    BY <1>4, <2>2, NotBeforeItself
  <2>4. ASSUME NEW d \in Conn, d # c PROVE CarriedIn(r, v, d) = CarriedIn(r, w, d) \ gone
    <3>1. CarriedIn(r, v, d) = CarriedIn(r, w, d)
      BY <1>1, <2>4 DEF CarriedIn
    <3>2. Leads(a, CarriedIn(r, w, c), CarriedIn(r, w, d)) \/ Leads(a, CarriedIn(r, w, d), CarriedIn(r, w, c))
      <4>1. c < d \/ d < c
        BY <2>4 DEF Conn
      <4> QED BY <4>1 DEF Placed, InPlace
    <3>3. CarriedIn(r, w, c) \intersect CarriedIn(r, w, d) = {}
      BY <1>4, <3>2, NotBeforeItself
    <3> QED BY <2>1, <3>1, <3>3
  <2> HIDE DEF gone
  <2> QED BY <2>1, <2>3, <2>4
<1>6. (ToSet(h) \union ToSet(o)) \intersect gone = {}
  <2>1. Leads(a, CarriedIn(r, w, c), ToSet(h) \union ToSet(o))
    BY DEF Placed, InPlace
  <2>2. CarriedIn(r, w, c) \intersect (ToSet(h) \union ToSet(o)) = {}
    BY <1>4, <2>1, NotBeforeItself
  <2> QED BY <2>2 DEF CarriedIn
<1>7. Complete(a, h, o, r, v, l \union gone)
  <2>1. UNION { CarriedIn(r, v, d) : d \in Conn } = (UNION { CarriedIn(r, w, d) : d \in Conn }) \ gone
    BY <1>5
  <2> HIDE DEF gone
  <2> QED BY <1>6, <2>1 DEF Placed, Complete
<1>8. InPlace(a, h, o, r, v)
  <2>1. \A d \in Conn : Ordered(a, v[d]) /\ Leads(a, Came(r, d), ToSet(v[d]))
    BY <1>1, <1>2 DEF Placed, InPlace, Leads
  <2> QED BY <1>3, <2>1 DEF Placed, InPlace, Leads
<1>9. QED
  BY <1>7, <1>8 DEF Placed, v

\* What the peer loop has in hand is lost.
LEMMA HandLossKeepsPlaces ==
  ASSUME NEW a, NEW h, NEW o, NEW r, NEW w, NEW l,
         DataType(a, h, o, r, w, l), Placed(a, h, o, r, w, l)
  PROVE  Placed(a, << >>, o, r, w, l \union ToSet(h))
<1> DEFINE kept == UNION { CarriedIn(r, w, c) : c \in Conn }
<1>1. a \in Seq(Message) /\ Once(a)
  BY DEF DataType, Placed
<1>2. \A c \in Conn : CarriedIn(r, w, c) \intersect (ToSet(h) \union ToSet(o)) = {}
  BY <1>1, NotBeforeItself DEF Placed, InPlace
<1>3. ToSet(h) \intersect ToSet(o) = {}
  BY <1>1, NotBeforeItself DEF Placed, InPlace
<1>4. kept \intersect ToSet(h) = {}
  BY <1>2
<1>5. kept \union (ToSet(h) \union ToSet(o)) = ToSet(a) \ l
  BY DEF Placed, Complete
<1> HIDE DEF kept
<1>6. kept \union (ToSet(<< >>) \union ToSet(o)) = ToSet(a) \ (l \union ToSet(h))
  BY <1>3, <1>4, <1>5, EmptySet
<1>7. InPlace(a, << >>, o, r, w)
  BY EmptySet DEF Placed, InPlace, Leads
<1>8. QED
  BY <1>6, <1>7 DEF Placed, Complete, kept

\* What waits in the channel is lost.
LEMMA ChannelLossKeepsPlaces ==
  ASSUME NEW a, NEW h, NEW o, NEW r, NEW w, NEW l,
         DataType(a, h, o, r, w, l), Placed(a, h, o, r, w, l)
  PROVE  Placed(a, h, << >>, r, w, l \union ToSet(o))
<1> DEFINE kept == UNION { CarriedIn(r, w, c) : c \in Conn }
<1>1. a \in Seq(Message) /\ Once(a)
  BY DEF DataType, Placed
<1>2. \A c \in Conn : CarriedIn(r, w, c) \intersect (ToSet(h) \union ToSet(o)) = {}
  BY <1>1, NotBeforeItself DEF Placed, InPlace
<1>3. ToSet(h) \intersect ToSet(o) = {}
  BY <1>1, NotBeforeItself DEF Placed, InPlace
<1>4. kept \intersect ToSet(o) = {}
  BY <1>2
<1>5. kept \union (ToSet(h) \union ToSet(o)) = ToSet(a) \ l
  BY DEF Placed, Complete
<1> HIDE DEF kept
<1>6. kept \union (ToSet(h) \union ToSet(<< >>)) = ToSet(a) \ (l \union ToSet(o))
  BY <1>3, <1>4, <1>5, EmptySet
<1>7. InPlace(a, h, << >>, r, w)
  BY EmptySet DEF Placed, InPlace, Leads
<1>8. QED
  BY <1>6, <1>7 DEF Placed, Complete, kept

\* The sink accepts a message that is new.
LEMMA AcceptKeepsPlaces ==
  ASSUME NEW a, NEW h, NEW o, NEW r, NEW w, NEW l, NEW m \in Message,
         DataType(a, h, o, r, w, l), Placed(a, h, o, r, w, l), m \notin ToSet(a), l \subseteq ToSet(a)
  PROVE  Placed(Append(a, m), h, Append(o, m), r, w, l)
<1> DEFINE b == Append(a, m)  p == Append(o, m)
<1>1. /\ a \in Seq(Message) /\ o \in Seq(Message)
      /\ Len(a) \in Nat /\ DOMAIN a = 1..Len(a) /\ DOMAIN b = 1..(Len(a) + 1)
      /\ \A i \in 1..Len(a) : b[i] = a[i]
      /\ b[Len(a) + 1] = m
  BY DEF DataType
<1>2. ToSet(b) = ToSet(a) \union {m} /\ ToSet(p) = ToSet(o) \union {m}
  BY <1>1, AppendedSet
<1>3. Once(b)
  <2>1. \A i \in 1..Len(a) : a[i] # m
    BY <1>1 DEF ToSet
  <2> HIDE DEF b, p
  <2> QED BY <1>1, <2>1 DEF Placed, Once
<1>4. \A x, y : SoonerIn(a, x, y) => SoonerIn(b, x, y)
  <2> HIDE DEF b, p
  <2> QED BY <1>1 DEF SoonerIn
<1>5. \A x \in ToSet(a) : SoonerIn(b, x, m)
  <2> HIDE DEF b, p
  <2> TAKE x \in ToSet(a)
  <2>1. PICK i \in 1..Len(a) : x = a[i]
    BY <1>1 DEF ToSet
  <2>2. i \in DOMAIN b /\ Len(a) + 1 \in DOMAIN b /\ i < Len(a) + 1 /\ b[i] = x
    BY <1>1, <2>1
  <2> QED BY <1>1, <2>2 DEF SoonerIn
<1>6. Ordered(b, o)
  BY <1>4 DEF Placed, InPlace, Ordered
<1>7. /\ \A c \in Conn : CarriedIn(r, w, c) \subseteq ToSet(a)
      /\ ToSet(h) \subseteq ToSet(a) /\ ToSet(o) \subseteq ToSet(a)
  BY DEF Placed, Complete
<1>8. Ordered(b, p)
  BY <1>1, <1>5, <1>6, <1>7, AppendedSet
<1> HIDE DEF b, p
<1>9. Complete(b, h, p, r, w, l)
  <2> DEFINE kept == UNION { CarriedIn(r, w, c) : c \in Conn }
  <2>1. kept \union (ToSet(h) \union ToSet(o)) = ToSet(a) \ l
    BY DEF Placed, Complete
  <2> HIDE DEF kept
  <2>2. kept \union (ToSet(h) \union ToSet(p)) = ToSet(b) \ l
    BY <1>2, <2>1
  <2> QED BY <2>2 DEF Complete, kept
<1>10. \A A, B : Leads(a, A, B) => Leads(b, A, B)
  BY <1>4 DEF Leads
<1>11. \A s : Ordered(a, s) => Ordered(b, s)
  BY <1>4 DEF Ordered
<1>12. \A A : A \subseteq ToSet(a) => Leads(b, A, {m})
  BY <1>5 DEF Leads
<1>13. InPlace(b, h, p, r, w)
  <2>1. ASSUME NEW c \in Conn PROVE Leads(b, CarriedIn(r, w, c), ToSet(h) \union ToSet(p))
    <3>1. Leads(b, CarriedIn(r, w, c), ToSet(h) \union ToSet(o)) /\ Leads(b, CarriedIn(r, w, c), {m})
      BY <1>7, <1>10, <1>12 DEF Placed, InPlace
    <3> QED BY <1>2, <3>1 DEF Leads
  <2>2. Leads(b, ToSet(h), ToSet(p))
    <3>1. Leads(b, ToSet(h), ToSet(o)) /\ Leads(b, ToSet(h), {m})
      BY <1>7, <1>10, <1>12 DEF Placed, InPlace
    <3> QED BY <1>2, <3>1 DEF Leads
  <2> QED BY <1>4, <1>8, <1>10, <1>11, <2>1, <2>2 DEF Placed, InPlace
<1>14. QED
  BY <1>3, <1>9, <1>13 DEF Placed, b, p

-----------------------------------------------------------------------------

\* Where the messages are; connections not yet made have carried none, and only a
\* loop that is sending has one in hand.
PlaceInv ==
  /\ Placed(accepted, hand, outbound, received, wire, lost)
  /\ lost \subseteq ToSet(accepted)
  /\ \A c \in Conn : c > conn => CarriedIn(received, wire, c) = {}
  /\ peer # "none" => conn # 0
  /\ peer # "send" => hand = << >>

Data == DataType(accepted, hand, outbound, received, wire, lost)

LEMMA DataTyped == TypeOK => Data
  BY DEF TypeOK, Data, DataType

LEMMA PlacesInitially == Init => PlaceInv
<1> SUFFICES ASSUME Init PROVE PlaceInv
  OBVIOUS
<1>1. /\ accepted = << >> /\ hand = << >> /\ outbound = << >> /\ received = << >> /\ lost = {}
      /\ wire = [c \in Conn |-> << >>] /\ peer = "none"
  BY DEF Init
<1>2. \A c \in Conn : Came(received, c) = {} /\ CarriedIn(received, wire, c) = {}
  BY <1>1, EmptySet DEF Came, CarriedIn
<1>3. Complete(accepted, hand, outbound, received, wire, lost)
  BY <1>1, <1>2, EmptySet DEF Complete
<1>4. InPlace(accepted, hand, outbound, received, wire)
  <2>1. \A c \in Conn : Ordered(accepted, wire[c])
    BY <1>1, EmptySet
  <2>2. \A i \in DOMAIN received : FALSE
    BY <1>1
  <2>3. ToSet(hand) = {} /\ ToSet(outbound) = {} /\ Ordered(accepted, outbound)
    BY <1>1, EmptySet
  <2> QED BY <1>2, <2>1, <2>2, <2>3 DEF InPlace, Leads
<1>5. Once(accepted)
  BY <1>1 DEF Once
<1>6. QED
  BY <1>1, <1>2, <1>3, <1>4, <1>5 DEF PlaceInv, Placed

LEMMA OnlyAccepted ==
  ASSUME PlaceInv
  PROVE  /\ ToSet(hand) \subseteq ToSet(accepted) /\ ToSet(outbound) \subseteq ToSet(accepted)
         /\ \A c \in Conn : ToSet(wire[c]) \subseteq ToSet(accepted)
<1>1. \A c \in Conn : ToSet(wire[c]) \subseteq CarriedIn(received, wire, c)
  BY DEF CarriedIn
<1>2. QED
  BY <1>1 DEF PlaceInv, Placed, Complete

LEMMA DropReceiverKeepsPlaces ==
  ASSUME IInv, PlaceInv, DropReceiver, UNCHANGED << conn, hand, wire, received, accepted >>,
         peer' # "none" => peer # "none", peer' # "send" => hand = << >>
  PROVE  PlaceInv'
<1>1. outbound' = << >> /\ lost' = lost \union ToSet(outbound)
  BY DEF DropReceiver
<1>2. Placed(accepted, hand, << >>, received, wire, lost \union ToSet(outbound))
  BY DataTyped, ChannelLossKeepsPlaces DEF IInv, PlaceInv, Data
<1>3. lost' \subseteq ToSet(accepted)
  BY <1>1, OnlyAccepted DEF PlaceInv
<1>4. QED
  BY <1>1, <1>2, <1>3 DEF PlaceInv

LEMMA HandLost ==
  ASSUME IInv, PlaceInv, hand' = << >>, lost' = lost \union ToSet(hand), peer # "none",
         UNCHANGED << conn, wire, received, accepted, outbound >>
  PROVE  PlaceInv'
<1>1. Placed(accepted, << >>, outbound, received, wire, lost \union ToSet(hand))
  BY DataTyped, HandLossKeepsPlaces DEF IInv, PlaceInv, Data
<1>2. lost' \subseteq ToSet(accepted)
  BY OnlyAccepted DEF PlaceInv
<1>3. QED
  BY <1>1, <1>2 DEF PlaceInv

LEMMA OneInHand ==
  ASSUME NEW M, NEW s \in Seq(M), Len(s) <= 1, s # << >>
  PROVE  s[1] \in M /\ s = << s[1] >>
<1>1. Len(s) \in Nat /\ DOMAIN s = 1..Len(s) /\ (Len(s) = 0 => s = << >>)
  OBVIOUS
<1>2. Len(s) = 1
  BY <1>1
<1>3. QED
  BY <1>2

LEMMA PeerKeepsPlaces ==
  ASSUME IInv, PlaceInv, PeerStep
  PROVE  PlaceInv'
<1> USE DEF loopVars, callVars, networkVars, channelVars
<1>1. CASE Take
  <2>1. /\ hand = << >> /\ outbound # << >> /\ peer # "none"
        /\ hand' = << Head(outbound) >> /\ outbound' = Tail(outbound) /\ peer' = "send"
        /\ UNCHANGED << conn, wire, received, accepted, lost >>
    BY <1>1 DEF Take, PlaceInv
  <2>2. Placed(accepted, << Head(outbound) >>, Tail(outbound), received, wire, lost)
    BY <2>1, DataTyped, TakeKeepsPlaces DEF IInv, PlaceInv, Data
  <2> QED BY <2>1, <2>2 DEF PlaceInv
<1>2. CASE SendRaw
  <2>1. /\ peer = "send" /\ peer' = "select" /\ hand' = << >>
        /\ UNCHANGED << conn, received, accepted, outbound >>
    BY <1>2 DEF SendRaw
  <2>2. CASE link[conn] # "up"
    <3>1. lost' = lost \union ToSet(hand) /\ wire' = wire
      BY <1>2, <2>2 DEF SendRaw
    <3> QED BY <2>1, <3>1, HandLost
  <2>3. CASE link[conn] = "up"
    <3>1. wire' = [wire EXCEPT ![conn] = @ \o hand] /\ lost' = lost
      BY <1>2, <2>3 DEF SendRaw
    <3>2. conn \in Conn /\ wire \in [Conn -> Seq(Message)] /\ hand \in Seq(Message) /\ Len(hand) <= 1
      BY <2>1, TransportAssumption DEF IInv, TypeOK, PlaceInv, Conn
    <3>3. CASE hand = << >>
      <4>1. wire[conn] \o << >> = wire[conn]
        BY <3>2
      <4>2. wire' = wire
        BY <3>1, <3>2, <3>3, <4>1
      <4> QED BY <2>1, <3>1, <3>3, <4>2 DEF PlaceInv
    <3>4. CASE hand # << >>
      <4> DEFINE x == hand[1]
      <4>1. x \in Message /\ hand = << x >>
        BY <3>2, <3>4, OneInHand
      <4> HIDE DEF x
      <4>2. \A s \in Seq(Message) : s \o << x >> = Append(s, x)
        OBVIOUS
      <4>3. wire' = [wire EXCEPT ![conn] = Append(@, x)]
        BY <3>1, <3>2, <4>1, <4>2
      <4>4. Placed(accepted, << >>, outbound, received, [wire EXCEPT ![conn] = Append(@, x)], lost)
        BY <3>2, <4>1, DataTyped, SendKeepsPlaces DEF IInv, PlaceInv, Data
      <4>5. \A c \in Conn : c > conn => CarriedIn(received, wire', c) = CarriedIn(received, wire, c)
        BY <3>2, <4>3 DEF CarriedIn, Conn
      <4> QED BY <2>1, <3>1, <4>3, <4>4, <4>5 DEF PlaceInv
    <3> QED BY <3>3, <3>4
  <2> QED BY <2>2, <2>3
<1>3. CASE SendFails
  BY <1>3, HandLost DEF SendFails
<1>4. CASE EndOfStream \/ RecvError
  BY <1>4 DEF EndOfStream, RecvError, PlaceInv
<1>5. CASE Finish
  <2>1. CASE loop = "dead"
    BY <1>5, <2>1, DropReceiverKeepsPlaces DEF Finish, PlaceInv
  <2>2. CASE loop # "dead"
    BY <1>5, <2>2 DEF Finish, PlaceInv
  <2> QED BY <2>1, <2>2
<1>6. CASE PeerDies
  <2>1. /\ hand' = << >> /\ outbound' = << >> /\ lost' = (lost \union ToSet(hand)) \union ToSet(outbound)
        /\ peer' = "none" /\ UNCHANGED << conn, wire, received, accepted >>
    BY <1>6 DEF PeerDies
  <2>2. Placed(accepted, << >>, outbound, received, wire, lost \union ToSet(hand))
    BY DataTyped, HandLossKeepsPlaces DEF IInv, PlaceInv, Data
  <2>3. DataType(accepted, << >>, outbound, received, wire, lost \union ToSet(hand))
    BY ToSetType, EmptySequence DEF IInv, TypeOK, DataType
  <2>4. Placed(accepted, << >>, << >>, received, wire, (lost \union ToSet(hand)) \union ToSet(outbound))
    BY <2>2, <2>3, ChannelLossKeepsPlaces
  <2>5. lost' \subseteq ToSet(accepted)
    BY <2>1, OnlyAccepted DEF PlaceInv
  <2> QED BY <2>1, <2>4, <2>5 DEF PlaceInv
<1>7. QED
  BY <1>1, <1>2, <1>3, <1>4, <1>5, <1>6 DEF PeerStep

LEMMA NetworkKeepsPlaces ==
  ASSUME IInv, PlaceInv, NetworkStep
  PROVE  PlaceInv'
<1> USE DEF loopVars, peerVars, callVars, channelVars
<1>1. PICK c \in Conn : Receive(c) \/ Break(c) \/ Vanish(c)
  BY DEF NetworkStep
<1>2. wire \in [Conn -> Seq(Message)] /\ received \in Seq(Message \X Conn)
  BY DEF IInv, TypeOK
<1>3. CASE Receive(c)
  <2>1. /\ wire[c] # << >> /\ received' = Append(received, << Head(wire[c]), c >>)
        /\ wire' = [wire EXCEPT ![c] = Tail(@)]
        /\ UNCHANGED << conn, peer, hand, accepted, outbound, lost >>
    BY <1>3 DEF Receive
  <2>2. Placed(accepted, hand, outbound, Append(received, << Head(wire[c]), c >>),
               [wire EXCEPT ![c] = Tail(@)], lost)
    BY <2>1, DataTyped, ReceiveKeepsPlaces DEF IInv, PlaceInv, Data
  <2>3. \A d \in Conn : d > conn => CarriedIn(received', wire', d) = CarriedIn(received, wire, d)
    <3> TAKE d \in Conn
    <3>1. wire[c] \in Seq(Message) /\ wire[c] # << >>
      BY <1>2, <2>1
    <3> DEFINE x == Head(wire[c])
    <3>0. \A s \in Seq(Message) : s # << >> => Head(s) \in Message /\ ToSet(s) # {}
      BY HeadAndTail
    <3>2. x \in Message /\ ToSet(wire[c]) # {}
      BY <3>0, <3>1
    <3> HIDE DEF x
    <3>3. d > conn => d # c
      BY <3>2 DEF PlaceInv, CarriedIn
    <3> DEFINE r == received
    <3> HIDE DEF r
    <3>4. r \in Seq(Message \X Conn) /\ r = received
      BY <1>2 DEF r
    <3>5. d # c => Came(Append(r, << x, c >>), d) = Came(r, d)
      <4>1. r \in Seq(Message \X Conn) /\ x \in Message /\ c \in Conn
        BY <1>1, <3>2, <3>4
      <4> QED BY <4>1, CameElsewhere
    <3>6. received' = Append(received, << x, c >>)
      BY <2>1 DEF x
    <3>7. d # c => Came(received', d) = Came(received, d)
      BY <3>4, <3>5, <3>6
    <3>8. d # c => wire'[d] = wire[d]
      BY <1>2, <2>1
    <3> QED BY <3>3, <3>7, <3>8 DEF CarriedIn
  <2> QED BY <2>1, <2>2, <2>3 DEF PlaceInv
<1>4. CASE Break(c) \/ Vanish(c)
  <2>1. /\ wire' = [wire EXCEPT ![c] = << >>] /\ lost' = lost \union ToSet(wire[c])
        /\ UNCHANGED << conn, peer, hand, accepted, outbound, received >>
    BY <1>4 DEF Break, Vanish
  <2>2. Placed(accepted, hand, outbound, received, [wire EXCEPT ![c] = << >>],
               lost \union ToSet(wire[c]))
    BY DataTyped, WireLossKeepsPlaces DEF IInv, PlaceInv, Data
  <2>3. \A d \in Conn : CarriedIn(received, wire', d) \subseteq CarriedIn(received, wire, d)
    BY <1>2, <2>1, EmptySet DEF CarriedIn
  <2>4. lost' \subseteq ToSet(accepted)
    BY <2>1, OnlyAccepted DEF PlaceInv
  <2> QED BY <2>1, <2>2, <2>3, <2>4 DEF PlaceInv
<1>5. QED
  BY <1>1, <1>3, <1>4

LEMMA PlaceStep == IInv /\ PlaceInv /\ [Next]_vars => PlaceInv'
<1> SUFFICES ASSUME IInv, PlaceInv, [Next]_vars PROVE PlaceInv'
  OBVIOUS
<1> USE DEF loopVars, peerVars, callVars, networkVars, channelVars
<1>1. CASE Connect
  <2>1. conn' = conn + 1 /\ conn \in Nat /\ Conn \subseteq Nat
    BY <1>1 DEF Connect, IInv, TypeOK, Conn
  <2>2. peer = "none" /\ peer' = "select"
    BY <1>1 DEF Connect, IInv, HeldByPeer
  <2>3. UNCHANGED << accepted, hand, outbound, received, wire, lost >>
    BY <1>1 DEF Connect
  <2> QED BY <2>1, <2>2, <2>3 DEF PlaceInv
<1>2. CASE Start \/ RegisterPeer \/ EmitConnected \/ TakeBack \/ PeerGone \/ Wanted
             \/ DeregisterPeer \/ EmitRemoteClosed
  BY <1>2 DEF Start, RegisterPeer, EmitConnected, TakeBack, PeerGone, Wanted, DeregisterPeer,
              EmitRemoteClosed, PlaceInv
<1>3. CASE Unwanted
  BY <1>3, DropReceiverKeepsPlaces DEF Unwanted, PlaceInv
<1>4. CASE LoopDies
  <2>1. CASE receiver \in {"loop", "returned"}
    BY <1>4, <2>1, DropReceiverKeepsPlaces DEF LoopDies, PlaceInv
  <2>2. CASE receiver \notin {"loop", "returned"}
    BY <1>4, <2>2 DEF LoopDies, PlaceInv
  <2> QED BY <2>1, <2>2
<1>5. CASE PeerStep
  BY <1>5, PeerKeepsPlaces
<1>6. CASE Disconnect \/ EmitLocalClosed \/ StopListener \/ StopPeers
  BY <1>6 DEF Disconnect, EmitLocalClosed, StopListener, StopPeers, PlaceInv
<1>7. ASSUME NEW m \in Message, SendOutbound(m) PROVE PlaceInv'
  <2>1. /\ m \notin ToSet(accepted) /\ outbound' = Append(outbound, m)
        /\ accepted' = Append(accepted, m)
        /\ UNCHANGED << conn, peer, hand, received, wire, lost >>
    BY <1>7 DEF SendOutbound
  <2>2. Placed(Append(accepted, m), hand, Append(outbound, m), received, wire, lost)
    BY <2>1, DataTyped, AcceptKeepsPlaces DEF IInv, PlaceInv, Data
  <2>3. accepted \in Seq(Message)
    BY DEF IInv, TypeOK
  <2>4. ToSet(accepted') = ToSet(accepted) \union {m}
    BY <2>1, <2>3, AppendedSet
  <2> QED BY <2>1, <2>2, <2>4 DEF PlaceInv
<1>8. CASE NetworkStep
  BY <1>8, NetworkKeepsPlaces
<1>9. CASE UNCHANGED vars
  BY <1>9, GroupsUnchanged DEF PlaceInv
<1>10. QED
  BY <1>1, <1>2, <1>3, <1>4, <1>5, <1>6, <1>7, <1>8, <1>9 DEF Next, LoopStep, CallerStep

\* For every number of connections, losses and messages, and at every interleaving
\* of stop(), disconnect(), the loops and the network: what the sink has accepted
\* is lost or in one place, and nothing overtakes or is sent twice
\* (transport.rs:368-432, 484-531).
THEOREM MessagesKeepTheirPlace == Spec => []NothingForgotten
<1>1. Init => IInv /\ PlaceInv
  BY TypeInit, PlacesInitially DEF Init, IInv, AbortedUnrecorded, OnDemand, ChannelSurvives, GivenUp,
                      HeldByPeer, RunningIsReachable
<1>2. IInv /\ PlaceInv /\ [Next]_vars => PlaceInv'
  BY PlaceStep
<1>3. PlaceInv => NothingForgotten
  BY PlacedIsTheProperty DEF PlaceInv
<1>4. QED
  BY <1>1, <1>2, <1>3, Inductive, PTL DEF Spec

-----------------------------------------------------------------------------
(***************************************************************************)
(* The loop reports its connections in turn.                               *)
(***************************************************************************)

UpAfter(s, n) ==
  \E i \in 1..n : s[i] = "Connected" /\ \A k \in (i + 1)..n : s[k] # "RemoteClosed"

Turns(s) ==
  \A i \in DOMAIN s :
    /\ s[i] = "Connected" => ~UpAfter(s, i - 1)
    /\ s[i] = "RemoteClosed" => UpAfter(s, i - 1)

Event == {"Connected", "RemoteClosed", "LocalClosed"}

LEMMA TurnAppended ==
  ASSUME NEW s \in Seq(Event), NEW e \in Event
  PROVE  /\ UpAfter(Append(s, e), Len(Append(s, e))) <=>
              e = "Connected" \/ (e = "LocalClosed" /\ UpAfter(s, Len(s)))
         /\ Turns(s) /\ (e = "Connected" => ~UpAfter(s, Len(s)))
              /\ (e = "RemoteClosed" => UpAfter(s, Len(s))) => Turns(Append(s, e))
<1> DEFINE t == Append(s, e)  n == Len(s)
<1>1. /\ n \in Nat /\ Len(t) = n + 1 /\ DOMAIN s = 1..n /\ DOMAIN t = 1..(n + 1)
      /\ t[n + 1] = e /\ \A i \in 1..n : t[i] = s[i]
  OBVIOUS
<1> HIDE DEF t, n
<1>2. \A k \in 0..n : UpAfter(t, k) <=> UpAfter(s, k)
  <2> TAKE k \in 0..n
  <2>1. \A i \in 1..k : t[i] = s[i] /\ \A j \in (i + 1)..k : t[j] = s[j]
    BY <1>1
  <2> QED BY <2>1 DEF UpAfter
<1>3. UpAfter(t, n + 1) <=> e = "Connected" \/ (e = "LocalClosed" /\ UpAfter(s, n))
  <2>1. CASE e = "Connected"
    <3>1. n + 1 \in 1..(n + 1) /\ t[n + 1] = "Connected" /\ ((n + 1) + 1)..(n + 1) = {}
      BY <1>1, <2>1
    <3> QED BY <2>1, <3>1 DEF UpAfter
  <2>2. CASE e = "RemoteClosed"
    <3>1. \A i \in 1..(n + 1) : t[i] = "Connected" => n + 1 \in (i + 1)..(n + 1)
      BY <1>1, <2>2
    <3> QED BY <1>1, <2>2, <3>1 DEF UpAfter
  <2>3. CASE e = "LocalClosed"
    <3>1. ASSUME UpAfter(t, n + 1) PROVE UpAfter(s, n)
      <4>1. PICK i \in 1..(n + 1) : t[i] = "Connected" /\ \A k \in (i + 1)..(n + 1) : t[k] # "RemoteClosed"
        BY <3>1 DEF UpAfter
      <4>2. i \in 1..n
        BY <1>1, <2>3, <4>1
      <4>3. \A k \in (i + 1)..n : k \in (i + 1)..(n + 1) /\ t[k] = s[k]
        BY <1>1, <4>2
      <4> QED BY <1>1, <4>1, <4>2, <4>3 DEF UpAfter
    <3>2. ASSUME UpAfter(s, n) PROVE UpAfter(t, n + 1)
      <4>1. PICK i \in 1..n : s[i] = "Connected" /\ \A k \in (i + 1)..n : s[k] # "RemoteClosed"
        BY <3>2 DEF UpAfter
      <4>2. i \in 1..(n + 1) /\ t[i] = "Connected"
        BY <1>1, <4>1
      <4>3. ASSUME NEW k \in (i + 1)..(n + 1) PROVE t[k] # "RemoteClosed"
        <5>1. CASE k = n + 1
          BY <1>1, <2>3, <5>1
        <5>2. CASE k # n + 1
          <6>1. k \in (i + 1)..n /\ k \in 1..n
            BY <1>1, <5>2
          <6> QED BY <1>1, <4>1, <6>1
        <5> QED BY <5>1, <5>2
      <4> QED BY <4>2, <4>3 DEF UpAfter
    <3> QED BY <2>3, <3>1, <3>2
  <2> QED BY <2>1, <2>2, <2>3 DEF Event
<1>4. ASSUME Turns(s), e = "Connected" => ~UpAfter(s, n), e = "RemoteClosed" => UpAfter(s, n)
      PROVE  Turns(t)
  <2> SUFFICES ASSUME NEW i \in 1..(n + 1)
               PROVE  /\ t[i] = "Connected" => ~UpAfter(t, i - 1)
                      /\ t[i] = "RemoteClosed" => UpAfter(t, i - 1)
    BY <1>1 DEF Turns
  <2>1. CASE i = n + 1
    <3>1. i - 1 = n /\ n \in 0..n
      BY <1>1, <2>1
    <3> QED BY <1>1, <1>2, <1>4, <2>1, <3>1
  <2>2. CASE i # n + 1
    <3>1. i \in 1..n /\ i - 1 \in 0..n
      BY <1>1, <2>2
    <3> QED BY <1>1, <1>2, <1>4, <3>1 DEF Turns
  <2> QED BY <2>1, <2>2
<1>5. QED
  BY <1>1, <1>3, <1>4 DEF t, n

\* The loop knows whether it has a connection reported: what it has to report
\* next is the other. It is spawned once: the receiver never goes back to the
\* transport.
TurnInv ==
  /\ Turns(events)
  /\ loop \in {"none", "dial", "register", "greet"} => ~UpAfter(events, Len(events))
  /\ loop \in {"await", "check", "deregister", "report"} => UpAfter(events, Len(events))
  /\ receiver = "transport" => loop = "none"

LEMMA TurnStep == TypeOK /\ TurnInv /\ [Next]_vars => TurnInv'
<1> SUFFICES ASSUME TypeOK, TurnInv, [Next]_vars PROVE TurnInv'
  OBVIOUS
<1> USE DEF loopVars, peerVars, callVars, networkVars, channelVars
<1>1. events \in Seq(Event)
  BY DEF TypeOK, Event
<1>2. CASE events' = events /\ loop' = loop /\ receiver' \in {receiver, "returned", "dropped"}
  BY <1>2 DEF TurnInv
<1>3. CASE Start \/ Connect \/ RegisterPeer \/ TakeBack \/ PeerGone \/ Wanted \/ Unwanted
             \/ DeregisterPeer \/ LoopDies
  <2>1. CASE Start \/ Connect \/ RegisterPeer
    BY <2>1 DEF Start, Connect, RegisterPeer, TurnInv, TypeOK
  <2>2. CASE TakeBack \/ PeerGone \/ Wanted
    BY <2>2 DEF TakeBack, PeerGone, Wanted, TurnInv
  <2>3. CASE Unwanted \/ DeregisterPeer \/ LoopDies
    BY <2>3 DEF Unwanted, DeregisterPeer, LoopDies, DropReceiver, TurnInv
  <2> QED BY <1>3, <2>1, <2>2, <2>3
<1>4. CASE EmitConnected
  <2>1. /\ loop = "greet" /\ loop' = "await" /\ events' = Append(events, "Connected")
        /\ receiver' = receiver
    BY <1>4 DEF EmitConnected
  <2>2. Turns(events') /\ UpAfter(events', Len(events'))
    BY <1>1, <2>1, TurnAppended DEF TurnInv, Event
  <2> QED BY <2>1, <2>2 DEF TurnInv
<1>5. CASE EmitRemoteClosed
  <2>1. /\ loop = "report" /\ loop' = "dial" /\ events' = Append(events, "RemoteClosed")
        /\ receiver' = receiver
    BY <1>5 DEF EmitRemoteClosed
  <2>2. Turns(events') /\ ~UpAfter(events', Len(events'))
    BY <1>1, <2>1, TurnAppended DEF TurnInv, Event
  <2> QED BY <2>1, <2>2 DEF TurnInv
<1>6. CASE EmitLocalClosed
  <2>1. /\ loop' = loop /\ events' = Append(events, "LocalClosed")
        /\ receiver' = receiver
    BY <1>6 DEF EmitLocalClosed
  <2>2. Turns(events') /\ (UpAfter(events', Len(events')) <=> UpAfter(events, Len(events)))
    BY <1>1, <2>1, TurnAppended DEF TurnInv, Event
  <2> QED BY <2>1, <2>2 DEF TurnInv
<1>7. CASE PeerStep \/ NetworkStep
  BY <1>2, <1>7 DEF PeerStep, Take, SendRaw, SendFails, EndOfStream, RecvError, Finish, PeerDies, DropReceiver,
                    NetworkStep, Receive, Break, Vanish
<1>8. CASE Disconnect \/ StopListener \/ StopPeers \/ \E m \in Message : SendOutbound(m)
  BY <1>2, <1>8 DEF Disconnect, StopListener, StopPeers, SendOutbound
<1>9. CASE UNCHANGED vars
  BY <1>2, <1>9, GroupsUnchanged
<1>10. QED
  BY <1>3, <1>4, <1>5, <1>6, <1>7, <1>8, <1>9 DEF Next, LoopStep, CallerStep

\* No connection is reported before the loss of the one before it, and no loss
\* without its connection, whatever disconnect() reports in between
\* (transport.rs:251-274, 436-458).
THEOREM ReportsInTurn == Spec => []ReportedInTurn
<1>1. Init => TurnInv
  <2> SUFFICES ASSUME events = << >>, loop = "none", receiver = "transport" PROVE TurnInv
    BY DEF Init
  <2>1. DOMAIN events = {} /\ 1..Len(events) = {}
    OBVIOUS
  <2> QED BY <2>1 DEF TurnInv, Turns, UpAfter
<1>2. TypeOK /\ TurnInv /\ [Next]_vars => TurnInv'
  BY TurnStep
<1>3. TurnInv => ReportedInTurn
  BY DEF TurnInv, Turns, UpAfter, ReportedInTurn, ReportedUp
<1>4. QED
  BY <1>1, <1>2, <1>3, TransportTypeCorrect, PTL DEF Spec

=============================================================================
