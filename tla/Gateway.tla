-------------------------------- MODULE Gateway --------------------------------
(***************************************************************************)
(* Bridge processes from start to end (peat-sapient-bridge/src/main.rs)    *)
(* and the connection between one that dials and one that listens          *)
(* (peat-sapient/src/connection.rs). What they say on it is in             *)
(* DlmmTransport, HldmmTransport and Framing.                              *)
(*                                                                         *)
(* Time passes in the units of the delays. Files, the mesh, TAK and the    *)
(* TLS library are external: calls succeed or fail. There is one dialler   *)
(* and one listener, as the roles come out, and strangers, who dial the    *)
(* listener and say nothing.                                               *)
(***************************************************************************)
EXTENDS Configuration, Naturals

CONSTANTS
  Process,      \* bridge processes
  Dialler,      \* the process whose dials the model follows
  Listener,     \* the process it may reach
  Settings,     \* per process, the files and command lines it may be given
  Unreachable,  \* mesh peers that never answer
  InitialDelay, MaxDelay, \* ReconnectConfig
  MaxFaults,    \* bound of the failures of the network, for TLC
  MaxStrangers  \* bound of the strangers, for TLC

ASSUME GatewayAssumption ==
  /\ Dialler \in Process /\ Listener \in Process /\ Dialler # Listener
  /\ {InitialDelay, MaxDelay} \subseteq Nat \ {0}
  /\ {MaxFaults, MaxStrangers} \subseteq Nat
  /\ \A p \in Process : \A g \in Settings[p] :
       /\ "role" \notin DOMAIN g.cli \* there is no such flag
       /\ \A source \in {g.file, g.cli} : Setting(source, "sapient_tls", FALSE) \in BOOLEAN

VARIABLES
  given,     \* per process, its file and its command line
  phase,     \* where main() stands
  config,    \* what Config::load made of them
  transport, \* the SAPIENT transport, while it is started
  mesh,      \* per process, where the dialling of each of its peers stands
  dial,      \* the connect loop of Dialler, down in connect_with_retry
  delay,     \* its `delay`
  wait,      \* what is left of its sleep
  line,      \* the connection Dialler has opened last: "none", "queued",
             \* "handshake", "up" (a peer of Listener) or "closed"
  accept,    \* where the accept loop of Listener stands: "none", "bind", "accept",
             \* "handshake", "stranger" or "dead"
  faults, strangers

processVars == << given, phase, config, transport, mesh >>
dialVars == << dial, delay, wait >>
lineVars == << line, accept, strangers >>
vars == << processVars, dialVars, lineVars, faults >>

Init ==
  /\ given \in [Process -> UNION { Settings[p] : p \in Process }]
  /\ \A p \in Process : given[p] \in Settings[p]
  /\ phase = [p \in Process |-> "load"]
  /\ config = [p \in Process |-> << >>]
  /\ transport = [p \in Process |-> {}]
  /\ mesh = [p \in Process |-> << >>]
  /\ dial = "none" /\ delay = InitialDelay /\ wait = 0
  /\ line = "none" /\ accept = "none"
  /\ faults = 0 /\ strangers = 0

-----------------------------------------------------------------------------
(***************************************************************************)
(* main().                                                                 *)
(***************************************************************************)

Go(p, from, to) == phase[p] = from /\ phase' = [phase EXCEPT ![p] = to]

LoadConfig(p) ==
  /\ Go(p, "load", "mesh")
  /\ config' = [config EXCEPT ![p] = Load(given[p].file, given[p].cli)]
  /\ UNCHANGED << given, transport, mesh, dialVars, lineVars, faults >>

\* The mesh is started, and every peer that can be parsed is dialled by a task
\* of its own.
StartMesh(p) ==
  /\ Go(p, "mesh", "sapient")
  /\ mesh' = [mesh EXCEPT ![p] =
                [id \in UNION { ParsePeer(spec) : spec \in config[p]["peers"] } |-> "dialling"]]
  /\ UNCHANGED << given, config, transport, dialVars, lineVars, faults >>

Roles(p) == ResolveSapientRole(config[p])

\* A slip used by the configurations: a TLS configuration that cannot be built
\* leaves the transport without it.
TransportsAnyway(p) ==
  { [role |-> r.role, address |-> r.address,
     tls |-> IF UseTls(config[p]) THEN BuildSapientTls(config[p], r.role) ELSE {},
     serverName |-> Setting(config[p], "sapient_server_name", r.address)] : r \in Roles(p) }

\* What the transport is made from: its role, the address it listens on or dials,
\* and how it does TLS if it is to.
Transports(p) ==
  { [role |-> r.role, address |-> r.address,
     tls |-> IF UseTls(config[p]) THEN BuildSapientTls(config[p], r.role) ELSE {},
     serverName |-> Setting(config[p], "sapient_server_name", r.address)]
    : r \in { r \in Roles(p) : UseTls(config[p]) => BuildSapientTls(config[p], r.role) # {} } }

Starting(p, t) ==
  /\ transport' = [transport EXCEPT ![p] = {t}]
  /\ dial' = IF p = Dialler /\ t.role = "dlmm" THEN "connect" ELSE dial
  /\ accept' = IF p = Listener /\ t.role = "hldmm" THEN "bind" ELSE accept

StartSapient(p) ==
  /\ \E t \in Transports(p) : Go(p, "sapient", "tak") /\ Starting(p, t)
  /\ UNCHANGED << given, config, mesh, delay, wait, line, strangers, faults >>

\* TAK, if it is wanted, and then the fan-out. Either may fail (Fail).
StartTak(p) ==
  /\ TakReady(config[p])
  /\ Go(p, "tak", "running")
  /\ UNCHANGED << given, config, transport, mesh, dialVars, lineVars, faults >>

\* The end of a process closes what it has open.
Close(p) ==
  /\ transport' = [transport EXCEPT ![p] = {}]
  /\ mesh' = [mesh EXCEPT ![p] = << >>]
  /\ dial' = IF p = Dialler THEN "none" ELSE dial
  /\ accept' = IF p = Listener THEN "none" ELSE accept
  /\ line' = IF p \in {Dialler, Listener} /\ line # "none" THEN "closed" ELSE line

\* main() returns an error: the file cannot be read or parsed; there is no storage,
\* or the mesh does not start; the SAPIENT transport cannot be made; TAK is not
\* ready or does not start, or the fan-out does not, with the SAPIENT transport
\* running by then.
Fail(p) ==
  /\ \/ \E from \in {"load", "mesh", "tak"} : Go(p, from, "failed")
     \/ Go(p, "sapient", "failed") /\ Transports(p) = {}
  /\ Close(p)
  /\ UNCHANGED << given, config, delay, wait, strangers, faults >>

\* Ctrl-C: TAK and then SAPIENT are stopped.
CtrlC(p) ==
  /\ Go(p, "running", "exited")
  /\ Close(p)
  /\ UNCHANGED << given, config, delay, wait, strangers, faults >>

\* A slip used by the configurations: a peer that is not there is forgotten.
DialMeshOnce(p, id, succeeds) ==
  /\ id \in DOMAIN mesh[p] /\ mesh[p][id] = "dialling"
  /\ mesh' = [mesh EXCEPT ![p][id] = IF succeeds THEN "connected" ELSE "gone"]
  /\ succeeds => id \notin Unreachable
  /\ succeeds \/ id \in Unreachable \/ faults < MaxFaults
  /\ faults' = IF succeeds \/ id \in Unreachable THEN faults ELSE faults + 1
  /\ UNCHANGED << given, phase, config, transport, dialVars, lineVars >>

\* connect_to_peer, every five seconds until it succeeds.
DialMesh(p, id, succeeds) ==
  /\ id \in DOMAIN mesh[p] /\ mesh[p][id] = "dialling"
  /\ mesh' = [mesh EXCEPT ![p][id] = IF succeeds THEN "connected" ELSE "waiting"]
  /\ succeeds => id \notin Unreachable
  /\ succeeds \/ id \in Unreachable \/ faults < MaxFaults
  /\ faults' = IF succeeds \/ id \in Unreachable THEN faults ELSE faults + 1
  /\ UNCHANGED << given, phase, config, transport, dialVars, lineVars >>

RedialMesh(p, id) ==
  /\ id \in DOMAIN mesh[p] /\ mesh[p][id] = "waiting"
  /\ mesh' = [mesh EXCEPT ![p][id] = "dialling"]
  /\ UNCHANGED << given, phase, config, transport, dialVars, lineVars, faults >>

-----------------------------------------------------------------------------
(***************************************************************************)
(* The dialling end: connect_with_retry and connect_tls_with_retry.        *)
(***************************************************************************)

Ours == CHOOSE t \in transport[Dialler] : TRUE
Theirs == CHOOSE t \in transport[Listener] : TRUE

Smaller(a, b) == IF a < b THEN a ELSE b

\* A slip used by the configurations: a failure ends the loop.
GiveUp == dial' = "none" /\ UNCHANGED << delay, wait >>

BackOff ==
  /\ dial' = "sleep" /\ wait' = delay
  /\ delay' = Smaller(delay * 2, MaxDelay)

\* Is the address of the listener bound?
Bound == accept \notin {"none", "bind", "dead"}

\* The listener's address takes no connection, or the network fails.
ConnectFails ==
  /\ dial = "connect"
  /\ Bound => faults < MaxFaults
  /\ faults' = IF Bound THEN faults + 1 ELSE faults
  /\ BackOff
  /\ line' = "none"
  /\ UNCHANGED << processVars, accept, strangers >>

\* TCP connects as soon as the listener has room in its backlog. Without TLS
\* that is all; the first delay is the one to come back to.
Connect ==
  /\ dial = "connect" /\ Bound
  /\ line' = "queued"
  /\ IF Ours.tls = {} THEN dial' = "up" /\ delay' = InitialDelay
                      ELSE dial' = "handshake" /\ UNCHANGED delay
  /\ UNCHANGED << processVars, wait, accept, faults, strangers >>

\* The handshake fails at this end: the connection is closed, or the server is
\* not who it should be.
HandshakeFails ==
  /\ dial = "handshake"
  /\ \/ line = "closed"
     \/ /\ line = "handshake"
        /\ Theirs.tls # {}
        /\ ~ \E c \in Ours.tls, s \in Theirs.tls : ServerVerified(c, Ours.serverName, s)
  /\ BackOff
  /\ line' = "none"
  /\ UNCHANGED << processVars, accept, faults, strangers >>

\* The handshake ends at this end before the server has looked at the client.
HandshakeDone ==
  /\ dial = "handshake" /\ line = "handshake"
  /\ \E c \in Ours.tls, s \in Theirs.tls : ServerVerified(c, Ours.serverName, s)
  /\ dial' = "up" /\ delay' = InitialDelay
  /\ UNCHANGED << processVars, wait, lineVars, faults >>

Sleep ==
  /\ dial = "sleep" /\ wait > 0
  /\ wait' = wait - 1
  /\ UNCHANGED << processVars, dial, delay, lineVars, faults >>

Wake ==
  /\ dial = "sleep" /\ wait = 0
  /\ dial' = "connect"
  /\ UNCHANGED << processVars, delay, wait, lineVars, faults >>

\* The connect loop sees its connection closed, and dials again at once.
Redial ==
  /\ dial = "up" /\ line = "closed"
  /\ dial' = "connect" /\ line' = "none"
  /\ UNCHANGED << processVars, delay, wait, accept, faults, strangers >>

-----------------------------------------------------------------------------
(***************************************************************************)
(* The listening end: the accept loop binds its address, when start() has  *)
(* returned; accept, and accept_tls, which shakes hands before it takes    *)
(* the next connection.                                                    *)
(***************************************************************************)

\* A failure to bind is logged, and the loop ends; the process goes on without.
Bind(succeeds) ==
  /\ accept = "bind"
  /\ accept' = IF succeeds THEN "accept" ELSE "dead"
  /\ UNCHANGED << processVars, dialVars, line, strangers, faults >>

\* A listener that is not to do TLS takes the connection as it is. (A hello
\* it cannot read ends it.)
Accept ==
  /\ accept = "accept" /\ line = "queued"
  /\ \/ /\ Theirs.tls = {}
        /\ line' = IF Ours.tls = {} THEN "up" ELSE "closed"
        /\ UNCHANGED accept
     \/ /\ Theirs.tls # {}
        /\ line' = "handshake" /\ accept' = "handshake"
  /\ UNCHANGED << processVars, dialVars, strangers, faults >>

\* The client shakes hands, and shows what is asked for.
Admits ==
  \E c \in Ours.tls, s \in Theirs.tls :
    ServerVerified(c, Ours.serverName, s) /\ ClientVerified(c, s)

\* The end of the handshake, once the dialler has done its part; a plain dialler
\* has when it sends anything. The connection may be gone by then, and the
\* dialler's next one wait to be accepted.
EndHandshake ==
  /\ accept = "handshake"
  /\ line = "handshake" => dial = "up"
  /\ accept' = "accept"
  /\ line' = CASE line # "handshake" -> line
               [] line = "handshake" /\ Admits -> "up"
               [] OTHER -> "closed"
  /\ UNCHANGED << processVars, dialVars, strangers, faults >>

\* A stranger has the accept loop to itself until it hangs up, if it ever does.
Stranger ==
  /\ accept = "accept" /\ strangers < MaxStrangers
  /\ Theirs.tls # {}
  /\ strangers' = strangers + 1
  /\ accept' = "stranger"
  /\ UNCHANGED << processVars, dialVars, line, faults >>

StrangerLeaves ==
  /\ accept = "stranger"
  /\ accept' = "accept"
  /\ UNCHANGED << processVars, dialVars, line, strangers, faults >>

Break ==
  /\ line \in {"queued", "handshake", "up"}
  /\ faults < MaxFaults /\ faults' = faults + 1
  /\ line' = "closed"
  /\ UNCHANGED << processVars, dialVars, accept, strangers >>

-----------------------------------------------------------------------------

MainStep(p) == LoadConfig(p) \/ StartMesh(p) \/ StartSapient(p) \/ StartTak(p) \/ Fail(p)

MeshStep(p, id) == RedialMesh(p, id) \/ \E succeeds \in BOOLEAN : DialMesh(p, id, succeeds)

DialStep == ConnectFails \/ Connect \/ HandshakeFails \/ HandshakeDone \/ Sleep \/ Wake \/ Redial

AcceptStep == Accept \/ EndHandshake \/ \E succeeds \in BOOLEAN : Bind(succeeds)

StrangerStep == Stranger \/ StrangerLeaves

Next ==
  \/ \E p \in Process :
       MainStep(p) \/ CtrlC(p) \/ \E id \in DOMAIN mesh[p] : MeshStep(p, id)
  \/ DialStep \/ AcceptStep \/ StrangerStep \/ Break

Spec == Init /\ [][Next]_vars

\* The peers a process is given that can be parsed.
PeersOf(g) == UNION { ParsePeer(spec) : spec \in Setting(g.file, "peers", {})
                                                  \union Setting(g.cli, "peers", {}) }

MeshPeers(p) == UNION { PeersOf(g) : g \in Settings[p] }

\* Processes go on, timers expire and tasks are polled: one per mesh peer, the
\* connect loop, and the accept loop when it has something to do. Nothing makes a
\* stranger hang up.
FairSpec ==
  /\ Spec
  /\ \A p \in Process :
       /\ WF_vars(MainStep(p))
       /\ \A id \in MeshPeers(p) : WF_vars(id \in DOMAIN mesh[p] /\ MeshStep(p, id))
  /\ WF_vars(DialStep) /\ WF_vars(AcceptStep)

-----------------------------------------------------------------------------
(***************************************************************************)
(* Properties.                                                             *)
(***************************************************************************)

\* What the user of a process has set: a flag goes before the file.
InForce(p, key) ==
  LET g == given[p] IN IF key \in DOMAIN g.cli THEN {g.cli[key]} ELSE Given(g.file, key)

WantsTls(p) == InForce(p, "sapient_tls") = {TRUE}

\* The transport a process runs is the one its flags ask for, whatever the file
\* says of it: a flag that names an end settles the role and the address, for
\* --sapient-listen too if the file makes the process a DLMM, and --sapient-remote
\* goes before it; and TLS is done, or not, with the flags' certificate and CA, in
\* the flag's server name. (config.rs:184-264, "CLI flags override".)
FlagsInForce ==
  \A p \in Process : \A t \in transport[p] :
    LET cli == given[p].cli
    IN  /\ \A a \in Given(cli, "sapient_remote") : t.role = "dlmm" /\ t.address = a
        /\ "sapient_remote" \notin DOMAIN cli =>
             \A a \in Given(cli, "sapient_listen") : t.role = "hldmm" /\ t.address = a
        /\ \A wanted \in Given(cli, "sapient_tls") : wanted <=> t.tls # {}
        /\ \A name \in Given(cli, "sapient_server_name") : t.serverName = name
        /\ \A s \in t.tls :
             /\ \A cert \in Given(cli, "sapient_cert") : s.cert = cert
             /\ \A ca \in Given(cli, "sapient_ca_cert") :
                  IF t.role = "dlmm" THEN s.ca = ca ELSE s.cas = {ca}

\* A bridge that is told to use TLS never opens a connection without it, nor
\* has one with an end that does not: it fails before it starts.
NoPlaintext ==
  \A p \in Process : WantsTls(p) =>
    /\ \A t \in transport[p] : t.tls # {}
    /\ line = "up" /\ p \in {Dialler, Listener} => Ours.tls # {} /\ Theirs.tls # {}

\* Ends that take each other for connected were both set to use TLS, or neither;
\* and if they were, each has shown what the settings of the other ask for. The
\* listener's certificate is of the dialler's CA, in the name the dialler was
\* given or else the address it dials; and the dialler's is of the CA the listener
\* was given, if it was given one. A dialler may be mistaken before the listener
\* answers, never after (main.rs:131-149, 280-308, connection.rs:143-252).
EndsAgree ==
  line = "up" =>
    /\ dial = "up"
    /\ WantsTls(Dialler) <=> WantsTls(Listener)
    /\ WantsTls(Dialler) =>
         /\ \A cert \in InForce(Listener, "sapient_cert") :
              /\ \E ca \in InForce(Dialler, "sapient_ca_cert") : cert.issuer = ca.name
              /\ cert.name \in IF InForce(Dialler, "sapient_server_name") # {}
                                THEN InForce(Dialler, "sapient_server_name")
                                ELSE InForce(Dialler, "sapient_remote")
         /\ \A ca \in InForce(Listener, "sapient_ca_cert") :
              \E cert \in InForce(Dialler, "sapient_cert") : cert.issuer = ca.name

Running == \A p \in {Dialler, Listener} : phase[p] = "running"

\* The two bridges are set to talk to each other.
Compatible ==
  /\ Ours.role = "dlmm" /\ Theirs.role = "hldmm"
  /\ \/ Ours.tls = {} /\ Theirs.tls = {}
     \/ Admits

\* Two bridges that are set to talk to each other do so in the end, whichever is
\* started first and whatever failed before, unless one of them is stopped, the
\* listener could not bind its address, which it never tries again, or a stranger
\* holds up its accept loop for good (connection.rs:49-82, 290-346,
\* transport.rs:332-338).
Linked ==
  [](Running /\ Compatible =>
       \/ <>(line = "up" \/ accept = "dead" \/ ~Running)
       \/ <>[](accept = "stranger"))

\* A peer that can be parsed, from the file or the command line, is connected to
\* in the end, whatever is wrong with the other peers, be they malformed or never
\* reached, and however often it cannot be reached itself, while the process lives.
MeshPeersConnected ==
  \A p \in Process : \A id \in MeshPeers(p) \ Unreachable :
    (phase[p] # "load" /\ id \in PeersOf(given[p]))
      ~> \/ phase[p] \in {"failed", "exited"}
         \/ id \in DOMAIN mesh[p] /\ mesh[p][id] = "connected"

=============================================================================
