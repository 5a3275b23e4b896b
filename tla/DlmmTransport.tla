----------------------------- MODULE DlmmTransport -----------------------------
(***************************************************************************)
(* PeatSapientTransport in DLMM mode                                       *)
(* (peat-mesh-sapient/src/transport.rs): the connect loop, the peer loop   *)
(* it spawns for every connection, the outbound sink, and stop() and       *)
(* disconnect() called by other tasks.                                     *)
(*                                                                         *)
(* The tasks run on several threads: whatever is not under one lock may be *)
(* interleaved, awaits or not. An aborted task goes on until it next has   *)
(* to wait, so an abort only enables its death. Inbound messages change    *)
(* nothing here (the mesh is not modelled); TLS takes the same path. The   *)
(* subscriber of the peer events keeps up with them.                       *)
(***************************************************************************)
EXTENDS Integers, SequencesExt

CONSTANTS
  Message,   \* what the fan-out gives to the sink, each once
  Depth,     \* OUTBOUND_CHANNEL_DEPTH
  MaxConn,   \* bound of the connections made, for TLC
  MaxFaults  \* bound of the connections lost while in use, for TLC

ASSUME TransportAssumption == Depth \in Nat \ {0} /\ MaxConn \in Nat /\ MaxFaults \in Nat

Conn == 1..MaxConn

VARIABLES
  loop,         \* where run_dlmm_connect_loop stands
  loopAborted,
  conn,         \* the number of the latest connection
  record,       \* is there a record in `peers`?
  peer,         \* where run_dlmm_peer_loop stands
  peerAborted,
  alive,        \* the flag the latest peer loop shares with its record
  receiver,     \* who holds the receiver of the outbound channel
  hand,         \* the message the peer loop is writing, at most one
  outbound,     \* the outbound channel
  stopping,     \* where stop() stands
  farewell,     \* is disconnect() about to emit its event?
  disconnected, \* has disconnect() removed a record?
  events,       \* the peer events emitted
  link,         \* per connection, what has become of it
  wire,         \* per connection, what is written and not yet received
  received,     \* what the HLDMM has received, with the connection
  faults,       \* connections lost while in use
  accepted,     \* what the sink has accepted
  lost          \* what will never be received

loopVars == << loop, loopAborted, conn, record >>
peerVars == << peer, peerAborted, alive, receiver, hand >>
callVars == << stopping, farewell, disconnected >>
networkVars == << link, wire, received, faults >>
channelVars == << outbound, lost >>
vars == << loopVars, peerVars, callVars, networkVars, accepted, channelVars, events >>

Init ==
  /\ loop = "none" /\ loopAborted = FALSE
  /\ conn = 0
  /\ record = FALSE
  /\ peer = "none" /\ peerAborted = FALSE /\ alive = FALSE
  /\ receiver = "transport"
  /\ hand = << >>
  /\ outbound = << >>
  /\ stopping = "no" /\ farewell = FALSE /\ disconnected = FALSE
  /\ events = << >>
  /\ link = [c \in Conn |-> "none"]
  /\ wire = [c \in Conn |-> << >>]
  /\ received = << >>
  /\ faults = 0
  /\ accepted = << >>
  /\ lost = {}

-----------------------------------------------------------------------------
(***************************************************************************)
(* The connect loop.                                                       *)
(***************************************************************************)

\* start() takes the receiver; a second call panics for want of it.
Start ==
  /\ receiver = "transport"
  /\ receiver' = "loop"
  /\ loop' = "dial"
  /\ UNCHANGED << loopAborted, conn, record, peer, peerAborted, alive, hand, callVars,
                  networkVars, accepted, channelVars, events >>

\* connect_with_retry succeeds, and the peer loop is spawned with the
\* receiver. It runs before its record exists.
Connect ==
  /\ loop = "dial"
  /\ conn < MaxConn
  /\ conn' = conn + 1
  /\ link' = [link EXCEPT ![conn + 1] = "up"]
  /\ peer' = "select" /\ peerAborted' = FALSE /\ alive' = TRUE
  /\ receiver' = "peer"
  /\ loop' = "register"
  /\ UNCHANGED << loopAborted, record, hand, callVars, wire, received, faults,
                  accepted, channelVars, events >>

\* The first half of register_peer, under the lock of `peers` ...
RegisterPeer ==
  /\ loop = "register"
  /\ record' = TRUE
  /\ loop' = "greet"
  /\ UNCHANGED << loopAborted, conn, peerVars, callVars, networkVars, accepted,
                  channelVars, events >>

\* ... and the second, after it.
EmitConnected ==
  /\ loop = "greet"
  /\ events' = Append(events, "Connected")
  /\ loop' = "await"
  /\ UNCHANGED << loopAborted, conn, record, peerVars, callVars, networkVars, accepted,
                  channelVars >>

\* return_rx.await: the receiver came back.
TakeBack ==
  /\ loop = "await"
  /\ receiver = "returned"
  /\ receiver' = "loop"
  /\ loop' = "check"
  /\ UNCHANGED << loopAborted, conn, record, peer, peerAborted, alive, hand, callVars,
                  networkVars, accepted, channelVars, events >>

\* The receiver is dropped, and what waits in the channel with it.
DropReceiver ==
  /\ receiver' = "dropped"
  /\ outbound' = << >>
  /\ lost' = lost \union ToSet(outbound)

\* return_rx.await: the peer loop was aborted, and so the connect loop exits.
PeerGone ==
  /\ loop = "await"
  /\ receiver = "dropped"
  /\ loop' = "dead"
  /\ UNCHANGED << loopAborted, conn, record, peerVars, callVars, networkVars, accepted,
                  channelVars, events >>

\* A slip used by the configurations: the test for the record is inverted.
WantedInverted ==
  /\ loop = "check"
  /\ ~record
  /\ loop' = "deregister"
  /\ UNCHANGED << loopAborted, conn, record, peerVars, callVars, networkVars, accepted,
                  channelVars, events >>

\* The record is still there: the connection was lost, not given up.
Wanted ==
  /\ loop = "check"
  /\ record
  /\ loop' = "deregister"
  /\ UNCHANGED << loopAborted, conn, record, peerVars, callVars, networkVars, accepted,
                  channelVars, events >>

Unwanted ==
  /\ loop = "check"
  /\ ~record
  /\ loop' = "dead"
  /\ DropReceiver
  /\ UNCHANGED << loopAborted, conn, record, peer, peerAborted, alive, hand, callVars,
                  networkVars, accepted, events >>

\* A slip used by the configurations: the loss is not reported.
DeregisterSilently ==
  /\ loop = "deregister"
  /\ record' = FALSE
  /\ loop' = "dial"
  /\ UNCHANGED << loopAborted, conn, peerVars, callVars, networkVars, accepted,
                  channelVars, events >>

\* deregister_peer: what it removes may be gone by now; it emits all the same.
DeregisterPeer ==
  /\ loop = "deregister"
  /\ record' = FALSE
  /\ loop' = "report"
  /\ UNCHANGED << loopAborted, conn, peerVars, callVars, networkVars, accepted,
                  channelVars, events >>

EmitRemoteClosed ==
  /\ loop = "report"
  /\ events' = Append(events, "RemoteClosed")
  /\ loop' = "dial"
  /\ UNCHANGED << loopAborted, conn, record, peerVars, callVars, networkVars, accepted,
                  channelVars >>

\* The abort takes effect where the loop waits. A receiver it holds, or that
\* was returned to it, is dropped.
LoopDies ==
  /\ loopAborted
  /\ loop \in {"dial", "await"}
  /\ loop' = "dead"
  /\ IF receiver \in {"loop", "returned"}
       THEN DropReceiver
       ELSE UNCHANGED << receiver, channelVars >>
  /\ UNCHANGED << loopAborted, conn, record, peer, peerAborted, alive, hand, callVars,
                  networkVars, accepted, events >>

(***************************************************************************)
(* The peer loop, on connection conn.                                      *)
(***************************************************************************)

\* A slip used by the configurations: the head is read, not removed.
Peek ==
  /\ peer = "select"
  /\ outbound # << >>
  /\ hand' = << Head(outbound) >>
  /\ peer' = "send"
  /\ UNCHANGED << loopVars, peerAborted, alive, receiver, callVars, networkVars,
                  accepted, channelVars, events >>

\* The outbound branch of the select.
Take ==
  /\ peer = "select"
  /\ outbound # << >>
  /\ hand' = << Head(outbound) >>
  /\ outbound' = Tail(outbound)
  /\ peer' = "send"
  /\ UNCHANGED << loopVars, peerAborted, alive, receiver, callVars, networkVars,
                  accepted, lost, events >>

\* send_raw succeeds when the bytes are with the kernel; if the connection is
\* broken they go no further.
SendRaw ==
  /\ peer = "send"
  /\ IF link[conn] = "up"
       THEN wire' = [wire EXCEPT ![conn] = @ \o hand] /\ UNCHANGED lost
       ELSE lost' = lost \union ToSet(hand) /\ UNCHANGED wire
  /\ hand' = << >>
  /\ peer' = "select"
  /\ UNCHANGED << loopVars, peerAborted, alive, receiver, callVars, link, received,
                  faults, accepted, outbound, events >>

\* send_raw fails on a broken connection, and the message with it.
SendFails ==
  /\ peer = "send"
  /\ link[conn] = "down"
  /\ lost' = lost \union ToSet(hand)
  /\ hand' = << >>
  /\ peer' = "finish"
  /\ UNCHANGED << loopVars, peerAborted, alive, receiver, callVars, networkVars,
                  accepted, outbound, events >>

\* The inbound branch: the HLDMM has closed ...
EndOfStream ==
  /\ peer = "select"
  /\ link[conn] = "down"
  /\ peer' = "finish"
  /\ UNCHANGED << loopVars, peerAborted, alive, receiver, hand, callVars, networkVars,
                  accepted, channelVars, events >>

\* ... or what it sent is no message.
RecvError ==
  /\ peer = "select"
  /\ link[conn] = "up"
  /\ faults < MaxFaults
  /\ faults' = faults + 1
  /\ peer' = "finish"
  /\ UNCHANGED << loopVars, peerAborted, alive, receiver, hand, callVars, link, wire,
                  received, accepted, channelVars, events >>

\* A slip used by the configurations: the receiver stays with the peer loop.
FinishDropping ==
  /\ peer = "finish"
  /\ peer' = "none"
  /\ alive' = FALSE
  /\ link' = [link EXCEPT ![conn] = "closed"]
  /\ DropReceiver
  /\ UNCHANGED << loopVars, peerAborted, hand, callVars, wire, received, faults,
                  accepted, events >>

\* A slip used by the configurations: the flag is left as it is.
FinishAlive ==
  /\ peer = "finish"
  /\ peer' = "none"
  /\ link' = [link EXCEPT ![conn] = "closed"]
  /\ receiver' = "returned"
  /\ UNCHANGED << loopVars, peerAborted, alive, hand, callVars, wire, received, faults,
                  accepted, channelVars, events >>

\* The end of the loop and return_tx.send, in vain if the connect loop is dead.
Finish ==
  /\ peer = "finish"
  /\ peer' = "none"
  /\ alive' = FALSE
  /\ link' = [link EXCEPT ![conn] = "closed"]
  /\ IF loop = "dead"
       THEN DropReceiver
       ELSE receiver' = "returned" /\ UNCHANGED channelVars
  /\ UNCHANGED << loopVars, peerAborted, hand, callVars, wire, received, faults,
                  accepted, events >>

\* The abort takes effect: everything the loop owns is dropped, and the flag
\* stays as it is.
PeerDies ==
  /\ peerAborted
  /\ peer \in {"select", "send"}
  /\ peer' = "none"
  /\ hand' = << >>
  /\ link' = [link EXCEPT ![conn] = "closed"]
  /\ receiver' = "dropped"
  /\ outbound' = << >>
  /\ lost' = lost \union ToSet(hand) \union ToSet(outbound)
  /\ UNCHANGED << loopVars, peerAborted, alive, callVars, wire, received, faults,
                  accepted, events >>

(***************************************************************************)
(* The callers.                                                            *)
(***************************************************************************)

\* send_outbound; it waits for room, and fails when the channel is closed.
SendOutbound(m) ==
  /\ receiver # "dropped"
  /\ m \notin ToSet(accepted)
  /\ Len(outbound) < Depth
  /\ outbound' = Append(outbound, m)
  /\ accepted' = Append(accepted, m)
  /\ UNCHANGED << loopVars, peerVars, callVars, networkVars, lost, events >>

\* disconnect() removes the record and aborts the loop in it ...
Disconnect ==
  /\ record
  /\ ~farewell
  /\ record' = FALSE
  /\ peerAborted' = TRUE
  /\ farewell' = TRUE
  /\ disconnected' = TRUE
  /\ UNCHANGED << loop, loopAborted, conn, peer, alive, receiver, hand, stopping,
                  networkVars, accepted, channelVars, events >>

\* ... then emits its event.
EmitLocalClosed ==
  /\ farewell
  /\ farewell' = FALSE
  /\ events' = Append(events, "LocalClosed")
  /\ UNCHANGED << loopVars, peerVars, stopping, disconnected, networkVars, accepted,
                  channelVars >>

\* stop() aborts the connect loop ...
StopListener ==
  /\ stopping = "no"
  /\ loop # "none"
  /\ stopping' = "drain"
  /\ loopAborted' = TRUE
  /\ UNCHANGED << loop, conn, record, peerVars, farewell, disconnected, networkVars,
                  accepted, channelVars, events >>

\* A slip used by the configurations: the records go, the loops stay.
StopPeersForgetting ==
  /\ stopping = "drain"
  /\ stopping' = "done"
  /\ record' = FALSE
  /\ UNCHANGED << loop, loopAborted, conn, peerVars, farewell, disconnected,
                  networkVars, accepted, channelVars, events >>

\* ... then drains `peers` and aborts the loop of every record.
StopPeers ==
  /\ stopping = "drain"
  /\ stopping' = "done"
  /\ record' = FALSE
  /\ peerAborted' = (peerAborted \/ record)
  /\ UNCHANGED << loop, loopAborted, conn, peer, alive, receiver, hand, farewell,
                  disconnected, networkVars, accepted, channelVars, events >>

(***************************************************************************)
(* The network and the HLDMM, which may read old connections late.         *)
(***************************************************************************)

Receive(c) ==
  /\ wire[c] # << >>
  /\ received' = Append(received, << Head(wire[c]), c >>)
  /\ wire' = [wire EXCEPT ![c] = Tail(@)]
  /\ UNCHANGED << loopVars, peerVars, callVars, link, faults, accepted, channelVars,
                  events >>

\* The HLDMM drops the connection, with what it has not read.
Break(c) ==
  /\ link[c] = "up"
  /\ faults < MaxFaults
  /\ faults' = faults + 1
  /\ link' = [link EXCEPT ![c] = "down"]
  /\ wire' = [wire EXCEPT ![c] = << >>]
  /\ lost' = lost \union ToSet(wire[c])
  /\ UNCHANGED << loopVars, peerVars, callVars, received, accepted, outbound, events >>

\* What a connection closed at this end still carried is lost on the way.
Vanish(c) ==
  /\ link[c] = "closed"
  /\ wire[c] # << >>
  /\ wire' = [wire EXCEPT ![c] = << >>]
  /\ lost' = lost \union ToSet(wire[c])
  /\ UNCHANGED << loopVars, peerVars, callVars, link, received, faults, accepted,
                  outbound, events >>

-----------------------------------------------------------------------------

LoopStep ==
  \/ Start \/ Connect \/ RegisterPeer \/ EmitConnected \/ TakeBack \/ PeerGone
  \/ Wanted \/ Unwanted \/ DeregisterPeer \/ EmitRemoteClosed \/ LoopDies

PeerStep == Take \/ SendRaw \/ SendFails \/ EndOfStream \/ RecvError \/ Finish \/ PeerDies

CallerStep ==
  \/ \E m \in Message : SendOutbound(m)
  \/ Disconnect \/ EmitLocalClosed \/ StopListener \/ StopPeers

NetworkStep == \E c \in Conn : Receive(c) \/ Break(c) \/ Vanish(c)

Next == LoopStep \/ PeerStep \/ CallerStep \/ NetworkStep

Spec == Init /\ [][Next]_vars

(***************************************************************************)
(* The runtime polls every task that can go on: an aborted one ends, the   *)
(* loops go from step to step, a dial succeeds in the end while the        *)
(* retries are without limit, and select! chooses among its ready branches *)
(* at random, so that a closed connection is noticed. The network delivers *)
(* what it does not lose. Nobody has to call anything, and no connection   *)
(* has to break.                                                           *)
(***************************************************************************)
Fairness ==
  /\ WF_vars(LoopStep /\ loop # "none")
  /\ WF_vars(Take \/ SendRaw \/ SendFails \/ EndOfStream \/ Finish \/ PeerDies)
  /\ WF_vars(PeerDies)
  /\ \A c \in Conn : WF_vars(Receive(c))
  /\ WF_vars(StopPeers)

FairSpec == Spec /\ Fairness

-----------------------------------------------------------------------------
(***************************************************************************)
(* Properties.                                                             *)
(***************************************************************************)

\* Every variable has its type, and the outbound channel its bound
\* (transport.rs:54, 164-191).
TypeOK ==
  /\ loop \in {"none", "dial", "register", "greet", "await", "check", "deregister",
               "report", "dead"}
  /\ peer \in {"none", "select", "send", "finish"}
  /\ loopAborted \in BOOLEAN /\ peerAborted \in BOOLEAN /\ alive \in BOOLEAN
  /\ conn \in 0..MaxConn
  /\ record \in BOOLEAN
  /\ receiver \in {"transport", "loop", "peer", "returned", "dropped"}
  /\ hand \in Seq(Message) /\ Len(hand) <= 1
  /\ outbound \in Seq(Message) /\ Len(outbound) <= Depth
  /\ stopping \in {"no", "drain", "done"}
  /\ farewell \in BOOLEAN /\ disconnected \in BOOLEAN
  /\ events \in Seq({"Connected", "RemoteClosed", "LocalClosed"})
  /\ link \in [Conn -> {"none", "up", "down", "closed"}]
  /\ wire \in [Conn -> Seq(Message)]
  /\ received \in Seq(Message \X Conn)
  /\ faults \in 0..MaxFaults
  /\ accepted \in Seq(Message)
  /\ lost \subseteq Message

\* The sink accepted m before n.
Sooner(m, n) == \E i, j \in DOMAIN accepted : i < j /\ accepted[i] = m /\ accepted[j] = n

InOrder(messages) == \A i, j \in DOMAIN messages : i < j => Sooner(messages[i], messages[j])
Ahead(A, B) == \A m \in A, n \in B : Sooner(m, n)

\* What came over connection c, and what it has carried: that, and what is on the wire.
Arrived(c) == { r[1] : r \in { q \in ToSet(received) : q[2] = c } }
Carried(c) == Arrived(c) \union ToSet(wire[c])

\* However often the receiver of the channel changes hands, what the sink has
\* accepted, but for what is known to be lost, is in one place: carried by a
\* connection, in the hand of the peer loop, or waiting. It keeps the order in
\* which it was accepted, on a connection, from one to the next, and from there
\* to what is not yet sent: nothing is forgotten, sent twice or overtaken
\* (transport.rs:368-432, 484-531).
NothingForgotten ==
  /\ (UNION { Carried(c) : c \in Conn }) \union (ToSet(hand) \union ToSet(outbound))
       = ToSet(accepted) \ lost
  /\ \A i, j \in DOMAIN received :
       i < j /\ received[i][2] = received[j][2] => Sooner(received[i][1], received[j][1])
  /\ \A c \in Conn :
       /\ InOrder(wire[c]) /\ Ahead(Arrived(c), ToSet(wire[c]))
       /\ \A d \in Conn : c < d => Ahead(Carried(c), Carried(d))
       /\ Ahead(Carried(c), ToSet(hand) \union ToSet(outbound))
  /\ Ahead(ToSet(hand), ToSet(outbound)) /\ InOrder(outbound)

\* The outbound channel closes only on demand: as long as neither stop() nor
\* disconnect() was called, no loss of a connection loses the receiver, and
\* the sink goes on accepting (transport.rs:29-36, 484-531).
ChannelSurvives == receiver = "dropped" => disconnected \/ stopping # "no"

\* A peer reported healthy has a running peer loop. An aborted loop leaves its
\* flag set, so this holds only because every abort follows the removal of the
\* record (transport.rs:436-450, 758-798, 832-842).
HealthyMeansRunning == record /\ alive => peer # "none"

\* A peer loop that nobody has aborted can still be ended: it has a record, which
\* stop() and disconnect() look for, or is about to be given one. So none is left
\* behind for ever, whatever races with the connect loop, although stop() may be
\* over by the time the record is there (transport.rs:251-266, 484-512, 758-798).
RunningIsReachable == peer # "none" /\ ~peerAborted => record \/ loop = "register"

\* After n events, one of them has reported a connection that none has reported
\* as lost since.
ReportedUp(n) ==
  \E i \in 1..n : events[i] = "Connected" /\ \A k \in (i + 1)..n : events[k] # "RemoteClosed"

\* The loop reports its connections in turn: none is reported before the loss
\* of the one before it, and no loss is reported twice, whatever disconnect()
\* reports in between (transport.rs:251-274, 436-458).
ReportedInTurn ==
  \A i \in DOMAIN events :
    /\ events[i] = "Connected" => ~ReportedUp(i - 1)
    /\ events[i] = "RemoteClosed" => ReportedUp(i - 1)

GivenUp == disconnected \/ stopping # "no"

\* A broken connection is followed by another one, unless the transport was
\* told to give up (transport.rs:29-36, 484-531).
Reconnects ==
  \A c \in Conn : link[c] = "down" /\ c < MaxConn ~> conn > c \/ GivenUp

\* Once the transport has been started, what the sink has accepted reaches the
\* HLDMM or is lost with a connection. (At the bound of the connections it may
\* wait for one that is not made.)
Settles ==
  \A m \in Message :
    m \in ToSet(accepted) /\ loop # "none"
      ~> \/ \E i \in DOMAIN received : received[i][1] = m
         \/ m \in lost
         \/ conn = MaxConn /\ link[conn] # "up"

=============================================================================
