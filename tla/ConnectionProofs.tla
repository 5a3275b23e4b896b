---------------------------- MODULE ConnectionProofs ----------------------------
(***************************************************************************)
(* What connection.rs and codec.rs of peat-sapient/src guarantee: the ends *)
(* of a connection, for all settings of the two processes, and the stream  *)
(* between them, for every limit of the codec.                             *)
(***************************************************************************)
EXTENDS Gateway, Framing, TLAPS

-----------------------------------------------------------------------------
(***************************************************************************)
(* The settings.                                                           *)
(***************************************************************************)

\* What Load makes of a setting.
LEMMA LoadedSetting ==
  ASSUME NEW file, NEW cli
  PROVE  /\ DOMAIN Load(file, cli) = Keys(file, cli)
         /\ \A key \in DOMAIN cli \ {"peers", "tak_peer_id", "role"} :
              Load(file, cli)[key] = cli[key]
         /\ \A key \in DOMAIN file \ {"peers", "tak_peer_id", "role"} :
              key \notin DOMAIN cli => Load(file, cli)[key] = file[key]
         /\ Load(file, cli)["peers"] = Setting(file, "peers", {}) \union Setting(cli, "peers", {})
         /\ "sapient_remote" \in DOMAIN cli =>
              "role" \in Keys(file, cli) /\ Load(file, cli)["role"] = "dlmm"
         /\ "sapient_listen" \in DOMAIN cli /\ "sapient_remote" \notin DOMAIN cli =>
              "role" \in Keys(file, cli) /\ Load(file, cli)["role"] = "hldmm"
<1>1. /\ DOMAIN Load(file, cli) = Keys(file, cli)
      /\ Load(file, cli)["peers"] = Setting(file, "peers", {}) \union Setting(cli, "peers", {})
  BY DEF Load, Keys
<1>2. ASSUME NEW key \in DOMAIN cli \ {"peers", "tak_peer_id", "role"}
      PROVE  Load(file, cli)[key] = cli[key]
  BY DEF Load, Keys
<1>3. ASSUME NEW key \in DOMAIN file \ {"peers", "tak_peer_id", "role"}, key \notin DOMAIN cli
      PROVE  Load(file, cli)[key] = file[key]
  BY <1>3 DEF Load, Keys
<1>4. ASSUME "sapient_remote" \in DOMAIN cli
      PROVE  "role" \in Keys(file, cli) /\ Load(file, cli)["role"] = "dlmm"
  <2>1. RoleOf(file, cli) = {"dlmm"}
    BY <1>4 DEF RoleOf
  <2>2. "role" \in Keys(file, cli) /\ (CHOOSE r \in RoleOf(file, cli) : TRUE) = "dlmm"
    BY <2>1 DEF Keys
  <2> QED BY <2>2 DEF Load
<1>5. ASSUME "sapient_listen" \in DOMAIN cli, "sapient_remote" \notin DOMAIN cli
      PROVE  "role" \in Keys(file, cli) /\ Load(file, cli)["role"] = "hldmm"
  <2>1. RoleOf(file, cli) = {"hldmm"}
    BY <1>5 DEF RoleOf
  <2>2. "role" \in Keys(file, cli) /\ (CHOOSE r \in RoleOf(file, cli) : TRUE) = "hldmm"
    BY <2>1 DEF Keys
  <2> QED BY <2>2 DEF Load
<1>6. QED
  BY <1>1, <1>2, <1>3, <1>4, <1>5

\* What a transport is made of: one role of its process, with the address that
\* belongs to it, and one TLS configuration, if the settings want TLS, out of the
\* certificate and the CA that are set.
TlsOf(p, t) ==
  \A s \in t.tls :
    /\ s.cert \in Given(config[p], "sapient_cert")
    /\ t.role = "dlmm" => s.ca \in Given(config[p], "sapient_ca_cert")
    /\ t.role = "hldmm" => s.cas = Given(config[p], "sapient_ca_cert")

LEMMA TransportOfSettings ==
  ASSUME NEW p \in Process, NEW t \in Transports(p)
  PROVE  /\ \E r \in Roles(p) : /\ t.role = r.role /\ t.address = r.address
                               /\ t.serverName = Setting(config[p], "sapient_server_name", r.address)
         /\ UseTls(config[p]) <=> t.tls # {}
         /\ \A x, y \in t.tls : x = y
         /\ TlsOf(p, t)
<1>1. PICK r \in Roles(p) :
        /\ t.role = r.role /\ t.address = r.address
        /\ t.serverName = Setting(config[p], "sapient_server_name", r.address)
        /\ t.tls = IF UseTls(config[p]) THEN BuildSapientTls(config[p], r.role) ELSE {}
        /\ UseTls(config[p]) => BuildSapientTls(config[p], r.role) # {}
  BY DEF Transports
<1>2. r.role \in {"hldmm", "dlmm"}
  BY DEF Roles, ResolveSapientRole
<1>3. \A key : \A x, y \in Given(config[p], key) : x = y
  BY DEF Given
<1>4. \A x, y \in BuildSapientTls(config[p], r.role) : x = y
  <2>1. CASE r.role = "hldmm"
    BY <1>3, <2>1 DEF BuildSapientTls, TlsServer
  <2>2. CASE r.role = "dlmm"
    BY <1>3, <2>2 DEF BuildSapientTls, TlsClient
  <2> QED BY <1>2, <2>1, <2>2
<1>5. ASSUME NEW s \in BuildSapientTls(config[p], r.role)
      PROVE  /\ s.cert \in Given(config[p], "sapient_cert")
             /\ r.role = "dlmm" => s.ca \in Given(config[p], "sapient_ca_cert")
             /\ r.role = "hldmm" => s.cas = Given(config[p], "sapient_ca_cert")
  <2>1. CASE r.role = "hldmm"
    BY <2>1 DEF BuildSapientTls, TlsServer
  <2>2. CASE r.role = "dlmm"
    BY <2>2 DEF BuildSapientTls, TlsClient
  <2> QED BY <1>2, <2>1, <2>2
<1>6. TlsOf(p, t)
  BY <1>1, <1>5 DEF TlsOf
<1>7. QED
  BY <1>1, <1>4, <1>6

\* The role and the address that the settings name.
LEMMA RoleOfSettings ==
  ASSUME NEW p \in Process, "role" \in DOMAIN config[p], NEW r \in Roles(p)
  PROVE  /\ config[p]["role"] = "dlmm" =>
              r.role = "dlmm" /\ r.address \in Given(config[p], "sapient_remote")
         /\ config[p]["role"] = "hldmm" =>
              r.role = "hldmm" /\ \A a \in Given(config[p], "sapient_listen") : r.address = a
BY DEF Roles, ResolveSapientRole, Setting, Given

LEMMA DialledAddress ==
  ASSUME NEW p \in Process, NEW r \in Roles(p), r.role = "dlmm"
  PROVE  r.address \in Given(config[p], "sapient_remote")
BY DEF Roles, ResolveSapientRole

-----------------------------------------------------------------------------
(***************************************************************************)
(* The processes and their line. A transport is one that the settings of   *)
(* its process make; a connection is there between two ends that are       *)
(* started, and both ends have done their part when it is up.              *)
(***************************************************************************)

GatewayType ==
  /\ \A p \in Process : given[p] \in Settings[p]
  /\ phase = [p \in Process |-> phase[p]]
  /\ config = [p \in Process |-> config[p]]
  /\ transport = [p \in Process |-> transport[p]]

Loaded ==
  \A p \in Process : phase[p] \notin {"load", "failed"} => config[p] = Load(given[p].file, given[p].cli)

Started ==
  \A p \in Process : transport[p] # {} =>
    /\ phase[p] \in {"tak", "running"}
    /\ \E t \in Transports(p) : transport[p] = {t}

Live == {"queued", "handshake", "up"}

\* What a connection that is up tells of the transports at its ends.
Agreed ==
  line = "up" =>
    /\ dial = "up"
    /\ (Ours.tls = {}) = (Theirs.tls = {})
    /\ \A c \in Ours.tls, s \in Theirs.tls : ServerVerified(c, Ours.serverName, s) /\ ClientVerified(c, s)

LineInv ==
  /\ dial # "none" => transport[Dialler] # {} /\ Ours.role = "dlmm"
  /\ accept # "none" => transport[Listener] # {} /\ Theirs.role = "hldmm"
  /\ dial = "handshake" => Ours.tls # {}
  /\ line \in Live => dial \in {"handshake", "up"} /\ accept # "none"
  /\ line = "handshake" => Theirs.tls # {}

ProcessInv == GatewayType /\ Loaded /\ Started

GatewayInv == ProcessInv /\ LineInv /\ Agreed

LEMMA GatewayInitially == Init => GatewayInv
  BY DEF Init, GatewayInv, ProcessInv, GatewayType, Loaded, Started, LineInv, Agreed, Live

\* What the transports of a process are depends on its settings.
LEMMA SameTransports ==
  ASSUME NEW p \in Process, config'[p] = config[p]
  PROVE  Transports(p)' = Transports(p)
  BY DEF Transports, Roles, ResolveSapientRole, UseTls, BuildSapientTls, Setting, Given

LEMMA ProcessUnchanged ==
  ASSUME ProcessInv, UNCHANGED << given, phase, config, transport >>
  PROVE  ProcessInv'
<1>1. \A p \in Process : Transports(p)' = Transports(p)
  BY SameTransports
<1>2. QED
  BY <1>1 DEF ProcessInv, GatewayType, Loaded, Started

LEMMA PhaseSteps ==
  ASSUME ProcessInv, NEW p \in Process, NEW from, NEW to, Go(p, from, to)
  PROVE  /\ phase[p] = from /\ phase'[p] = to
         /\ \A q \in Process \ {p} : phase'[q] = phase[q]
         /\ phase' = [q \in Process |-> phase'[q]]
  BY DEF Go, ProcessInv, GatewayType

\* A step of main() that leaves the transports alone.
LEMMA MainKeeps ==
  ASSUME ProcessInv, NEW p \in Process, LoadConfig(p) \/ StartMesh(p) \/ StartTak(p)
  PROVE  ProcessInv' /\ UNCHANGED << transport, dial, accept, line >>
<1>1. CASE LoadConfig(p)
  <2>1. /\ config' = [config EXCEPT ![p] = Load(given[p].file, given[p].cli)]
        /\ UNCHANGED << given, transport, dial, accept, line >> /\ Go(p, "load", "mesh")
    BY <1>1 DEF LoadConfig, dialVars, lineVars
  <2>2. /\ config'[p] = Load(given[p].file, given[p].cli)
        /\ \A q \in Process \ {p} : config'[q] = config[q]
        /\ config' = [q \in Process |-> config'[q]]
    BY <2>1 DEF ProcessInv, GatewayType
  <2>3. transport[p] = {}
    BY <2>1, PhaseSteps DEF ProcessInv, Started
  <2>4. \A q \in Process \ {p} : Transports(q)' = Transports(q)
    BY <2>2, SameTransports
  <2>5. GatewayType' /\ Loaded'
    BY <2>1, <2>2, PhaseSteps DEF ProcessInv, GatewayType, Loaded
  <2>6. Started'
    BY <2>1, <2>3, <2>4, PhaseSteps DEF ProcessInv, Started
  <2> QED BY <2>1, <2>5, <2>6 DEF ProcessInv
<1>2. CASE StartMesh(p) \/ StartTak(p)
  <2>1. /\ UNCHANGED << given, config, transport, dial, accept, line >>
        /\ Go(p, "mesh", "sapient") \/ Go(p, "tak", "running")
    BY <1>2 DEF StartMesh, StartTak, dialVars, lineVars
  <2>2. \A q \in Process : Transports(q)' = Transports(q)
    BY <2>1, SameTransports
  <2>3. GatewayType' /\ Loaded'
    BY <2>1, PhaseSteps DEF ProcessInv, GatewayType, Loaded
  <2>4. Started'
    BY <2>1, <2>2, PhaseSteps DEF ProcessInv, Started
  <2> QED BY <2>1, <2>3, <2>4 DEF ProcessInv
<1>3. QED
  BY <1>1, <1>2

\* A step of neither end leaves the line as it was.
LEMMA LineUnchanged ==
  ASSUME GatewayInv, ProcessInv', UNCHANGED << dial, accept, line >>,
         transport'[Dialler] = transport[Dialler], transport'[Listener] = transport[Listener]
  PROVE  GatewayInv'
<1>1. Ours' = Ours
  BY DEF Ours
<1>2. Theirs' = Theirs
  BY DEF Theirs
<1>3. LineInv'
  BY <1>1, <1>2 DEF GatewayInv, LineInv
<1>4. Agreed'
  BY <1>1, <1>2 DEF GatewayInv, Agreed
<1>5. QED
  BY <1>3, <1>4 DEF GatewayInv

\* A process closes what it has; the line goes with it.
LEMMA CloseKeeps ==
  ASSUME GatewayInv, NEW p \in Process, Close(p), UNCHANGED << given, config >>,
         NEW from, NEW to \in {"failed", "exited"}, Go(p, from, to),
         to = "exited" => from = "running"
  PROVE  GatewayInv'
<1>1. /\ transport'[p] = {} /\ \A q \in Process \ {p} : transport'[q] = transport[q]
      /\ transport' = [q \in Process |-> transport'[q]]
  BY DEF Close, GatewayInv, ProcessInv, GatewayType
<1>2. \A q \in Process : Transports(q)' = Transports(q)
  BY SameTransports
<1>3. ProcessInv'
  <2>1. /\ phase'[p] \in {"failed", "exited"} /\ \A q \in Process \ {p} : phase'[q] = phase[q]
        /\ phase' = [q \in Process |-> phase'[q]] /\ phase[p] = from
        /\ phase'[p] = "exited" => phase[p] = "running"
    BY PhaseSteps DEF GatewayInv
  <2>2. GatewayType'
    BY <1>1, <2>1 DEF GatewayInv, ProcessInv, GatewayType
  <2>3. Loaded'
    BY <2>1 DEF GatewayInv, ProcessInv, Loaded
  <2>4. Started'
    BY <1>1, <1>2, <2>1 DEF GatewayInv, ProcessInv, Started
  <2> QED BY <2>2, <2>3, <2>4 DEF ProcessInv
<1>4. Dialler \in Process /\ Listener \in Process /\ Dialler # Listener
  BY GatewayAssumption
<1>5. CASE p \in {Dialler, Listener}
  <2>1. line' \notin Live
    BY <1>5 DEF Close, Live
  <2>2. LineInv'
    BY <1>1, <1>4, <1>5, <2>1 DEF GatewayInv, LineInv, Close, Ours, Theirs, Live
  <2>3. Agreed'
    BY <2>1 DEF Agreed, Live
  <2> QED BY <1>3, <2>2, <2>3 DEF GatewayInv
<1>6. CASE p \notin {Dialler, Listener}
  <2>1. /\ UNCHANGED << dial, accept, line >>
        /\ transport'[Dialler] = transport[Dialler] /\ transport'[Listener] = transport[Listener]
    BY <1>1, <1>4, <1>6 DEF Close
  <2> QED BY <1>3, <2>1, LineUnchanged
<1>7. QED
  BY <1>5, <1>6

LEMMA StartSapientKeeps ==
  ASSUME GatewayInv, NEW p \in Process, StartSapient(p)
  PROVE  GatewayInv'
<1>1. PICK t \in Transports(p) : Go(p, "sapient", "tak") /\ Starting(p, t)
  BY DEF StartSapient
<1>2. UNCHANGED << given, config, line >>
  BY DEF StartSapient
<1>3. /\ transport'[p] = {t} /\ \A q \in Process \ {p} : transport'[q] = transport[q]
      /\ transport' = [q \in Process |-> transport'[q]]
  BY <1>1 DEF Starting, GatewayInv, ProcessInv, GatewayType
<1>4. \A q \in Process : Transports(q)' = Transports(q)
  BY <1>2, SameTransports
<1>5. ProcessInv'
  BY <1>1, <1>2, <1>3, <1>4, PhaseSteps DEF GatewayInv, ProcessInv, GatewayType, Loaded, Started
<1>6. transport[p] = {}
  BY <1>1, PhaseSteps DEF GatewayInv, ProcessInv, Started
<1>7. Dialler \in Process /\ Listener \in Process /\ Dialler # Listener
  BY GatewayAssumption
<1>8. /\ dial' = dial \/ (p = Dialler /\ t.role = "dlmm" /\ dial' = "connect")
      /\ accept' = accept \/ (p = Listener /\ t.role = "hldmm" /\ accept' = "bind")
  BY <1>1 DEF Starting
<1>9. CASE p \in {Dialler, Listener}
  <2>1. line \notin Live
    BY <1>6, <1>9 DEF GatewayInv, LineInv
  <2>2. (p = Dialler => dial = "none") /\ (p = Listener => accept = "none")
    BY <1>6 DEF GatewayInv, LineInv
  <2>3. /\ Ours' = IF p = Dialler THEN t ELSE Ours
        /\ Theirs' = IF p = Listener THEN t ELSE Theirs
    BY <1>3, <1>7 DEF Ours, Theirs
  <2>4. LineInv'
    BY <1>2, <1>3, <1>7, <1>8, <1>9, <2>1, <2>2, <2>3 DEF GatewayInv, LineInv, Live
  <2>5. Agreed'
    BY <1>2, <2>1 DEF Agreed, Live
  <2> QED BY <1>5, <2>4, <2>5 DEF GatewayInv
<1>10. CASE p \notin {Dialler, Listener}
  <2>1. /\ UNCHANGED << dial, accept, line >>
        /\ transport'[Dialler] = transport[Dialler] /\ transport'[Listener] = transport[Listener]
    BY <1>2, <1>3, <1>7, <1>8, <1>10
  <2> QED BY <1>5, <2>1, LineUnchanged
<1>11. QED
  BY <1>9, <1>10

\* A step of the dialler or of the listener.
LEMMA LineKeeps ==
  ASSUME GatewayInv, DialStep \/ AcceptStep \/ StrangerStep \/ Break
  PROVE  GatewayInv'
<1>1. UNCHANGED << given, phase, config, transport >>
  BY DEF DialStep, AcceptStep, Stranger, Break, ConnectFails, Connect, HandshakeFails,
     HandshakeDone, Sleep, Wake, Redial, Accept, EndHandshake, Bind, StrangerStep, StrangerLeaves,
     processVars
<1>2. ProcessInv' /\ Ours' = Ours /\ Theirs' = Theirs
  BY <1>1, ProcessUnchanged DEF GatewayInv, Ours, Theirs
<1>3. LineInv /\ Agreed
  BY DEF GatewayInv
<1>4. CASE DialStep
  <2>1. LineInv'
    <3>1. CASE ConnectFails \/ Sleep \/ Wake \/ Redial
      BY <1>1, <1>2, <1>3, <3>1 DEF LineInv, Live, ConnectFails, Sleep, Wake, Redial, BackOff, lineVars
    <3>2. CASE Connect
      BY <1>1, <1>2, <1>3, <3>2 DEF LineInv, Live, Connect, Bound
    <3>3. CASE HandshakeFails
      BY <1>1, <1>2, <1>3, <3>3 DEF LineInv, Live, HandshakeFails, BackOff
    <3>4. CASE HandshakeDone
      BY <1>1, <1>2, <1>3, <3>4 DEF LineInv, Live, HandshakeDone, lineVars
    <3> QED BY <1>4, <3>1, <3>2, <3>3, <3>4 DEF DialStep
  <2>2. line' = "up" => line = "up" /\ dial' = dial
    BY <1>3, <1>4 DEF Agreed, DialStep, ConnectFails, Connect, HandshakeFails,
       HandshakeDone, Sleep, Wake, Redial, BackOff, lineVars
  <2>3. Agreed'
    BY <1>2, <1>3, <2>2 DEF Agreed
  <2> QED BY <1>2, <2>1, <2>3 DEF GatewayInv
<1>5. CASE Accept
  <2>1. line = "queued" /\ accept = "accept" /\ UNCHANGED << dial, delay, wait >>
    BY <1>5 DEF Accept, dialVars
  <2>2. CASE Theirs.tls = {} /\ line' = (IF Ours.tls = {} THEN "up" ELSE "closed") /\ accept' = accept
    <3>1. line' = "up" => dial = "up" /\ Ours.tls = {}
      BY <1>3, <2>1, <2>2 DEF LineInv, Live
    <3> QED BY <1>1, <1>2, <1>3, <2>1, <2>2, <3>1 DEF GatewayInv, LineInv, Agreed, Live
  <2>3. CASE Theirs.tls # {} /\ line' = "handshake" /\ accept' = "handshake"
    BY <1>1, <1>2, <1>3, <2>1, <2>3 DEF GatewayInv, LineInv, Agreed, Live
  <2> QED BY <1>5, <2>2, <2>3 DEF Accept
<1>6. CASE EndHandshake
  <2>1. /\ accept = "handshake" /\ accept' = "accept" /\ UNCHANGED << dial, delay, wait >>
        /\ line = "handshake" => dial = "up"
    BY <1>6 DEF EndHandshake, dialVars
  <2>2. CASE line # "handshake" /\ line' = line
    BY <1>1, <1>2, <1>3, <2>1, <2>2 DEF GatewayInv, LineInv, Agreed, Live
  <2>3. CASE line = "handshake" /\ Admits /\ line' = "up"
    <3>1. PICK c \in Ours.tls, s \in Theirs.tls :
             ServerVerified(c, Ours.serverName, s) /\ ClientVerified(c, s)
      BY <2>3 DEF Admits
    <3>2. /\ \A x \in Ours.tls : x = c
          /\ \A x \in Theirs.tls : x = s
      <4>1. transport[Dialler] # {} /\ transport[Listener] # {}
        BY <1>3, <2>1, <2>3 DEF LineInv
      <4>2. Ours \in Transports(Dialler) /\ Theirs \in Transports(Listener)
        BY <4>1, GatewayAssumption DEF GatewayInv, ProcessInv, Started, Ours, Theirs
      <4> QED BY <3>1, <4>2, TransportOfSettings, GatewayAssumption
    <3>3. Agreed'
      BY <1>2, <2>1, <2>3, <3>1, <3>2 DEF Agreed, ServerVerified, ClientVerified
    <3>4. LineInv'
      BY <1>1, <1>2, <1>3, <2>1, <2>3 DEF LineInv, Live
    <3> QED BY <1>2, <3>3, <3>4 DEF GatewayInv
  <2>4. CASE line' = "closed"
    BY <1>1, <1>2, <1>3, <2>1, <2>4 DEF GatewayInv, LineInv, Agreed, Live
  <2> QED BY <1>6, <2>2, <2>3, <2>4 DEF EndHandshake
<1>7. CASE StrangerLeaves \/ Stranger
  <2>1. UNCHANGED << dial, line >> /\ accept # "none" /\ accept' # "none"
    BY <1>7 DEF StrangerLeaves, Stranger, dialVars
  <2> QED BY <1>1, <1>2, <1>3, <2>1 DEF GatewayInv, LineInv, Agreed, Live
<1>8. CASE Break
  <2>1. line' = "closed" /\ UNCHANGED << dial, accept >>
    BY <1>8 DEF Break, dialVars
  <2> QED BY <1>1, <1>2, <1>3, <2>1 DEF GatewayInv, LineInv, Agreed, Live
<1>9. ASSUME NEW succeeds \in BOOLEAN, Bind(succeeds) PROVE GatewayInv'
  <2>1. UNCHANGED << dial, line >> /\ accept # "none" /\ accept' # "none"
    BY <1>9 DEF Bind, dialVars
  <2> QED BY <1>1, <1>2, <1>3, <2>1 DEF GatewayInv, LineInv, Agreed, Live
<1>10. QED
  BY <1>4, <1>5, <1>6, <1>7, <1>8, <1>9 DEF AcceptStep, StrangerStep

LEMMA GatewayStep == GatewayInv /\ [Next]_vars => GatewayInv'
<1> SUFFICES ASSUME GatewayInv, [Next]_vars PROVE GatewayInv'
  OBVIOUS
<1>1. CASE UNCHANGED << given, phase, config, transport, dial, accept, line >>
  <2>1. ProcessInv'
    BY <1>1, ProcessUnchanged DEF GatewayInv
  <2> QED BY <1>1, <2>1, LineUnchanged
<1>2. ASSUME NEW p \in Process, NEW id \in DOMAIN mesh[p], MeshStep(p, id) PROVE GatewayInv'
  <2>1. UNCHANGED << given, phase, config, transport, dial, accept, line >>
    BY <1>2 DEF MeshStep, RedialMesh, DialMesh, dialVars, lineVars
  <2> QED BY <1>1, <2>1
<1>3. ASSUME NEW p \in Process, LoadConfig(p) \/ StartMesh(p) \/ StartTak(p) PROVE GatewayInv'
  <2>1. ProcessInv' /\ UNCHANGED << transport, dial, accept, line >>
    BY <1>3, MainKeeps DEF GatewayInv
  <2> QED BY <2>1, LineUnchanged
<1>4. ASSUME NEW p \in Process, StartSapient(p) PROVE GatewayInv'
  BY <1>4, StartSapientKeeps
<1>5. ASSUME NEW p \in Process, Fail(p) \/ CtrlC(p) PROVE GatewayInv'
  <2>1. /\ Close(p) /\ UNCHANGED << given, config >>
        /\ \/ \E from \in {"load", "mesh", "sapient", "tak"} : Go(p, from, "failed")
           \/ Go(p, "running", "exited")
    BY <1>5 DEF Fail, CtrlC
  <2> QED BY <2>1, CloseKeeps
<1>6. CASE DialStep \/ AcceptStep \/ StrangerStep \/ Break
  BY <1>6, LineKeeps
<1>7. CASE UNCHANGED vars
  BY <1>1, <1>7 DEF vars, processVars, dialVars, lineVars
<1>8. QED
  BY <1>2, <1>3, <1>4, <1>5, <1>6, <1>7 DEF Next, MainStep

LEMMA GatewayInvariant == Spec => []GatewayInv
<1> QED BY GatewayInitially, GatewayStep, PTL DEF Spec

\* What is loaded is what is in force.
LEMMA LoadedInForce ==
  ASSUME GatewayInv, NEW p \in Process, transport[p] # {},
         NEW key, key \notin {"peers", "tak_peer_id", "role"}
  PROVE  Given(config[p], key) = InForce(p, key)
<1> DEFINE cli == given[p].cli  file == given[p].file
<1>1. config[p] = Load(file, cli)
  BY DEF GatewayInv, ProcessInv, Started, Loaded
<1>2. InForce(p, key) = IF key \in DOMAIN cli THEN {cli[key]} ELSE Given(file, key)
  BY DEF InForce
<1> HIDE DEF cli, file
<1>3. DOMAIN config[p] = Keys(file, cli)
  BY <1>1, LoadedSetting
<1>4. key \in Keys(file, cli) <=> key \in DOMAIN file \union DOMAIN cli
  BY DEF Keys
<1>5. CASE key \in DOMAIN cli
  <2>1. config[p][key] = cli[key]
    BY <1>1, <1>5, LoadedSetting
  <2> QED BY <1>2, <1>3, <1>4, <1>5, <2>1 DEF Given
<1>6. CASE key \notin DOMAIN cli
  <2>1. key \in DOMAIN file => config[p][key] = file[key]
    BY <1>1, <1>6, LoadedSetting
  <2> QED BY <1>2, <1>3, <1>4, <1>6, <2>1 DEF Given
<1>7. QED
  BY <1>5, <1>6

LEMMA LoadedTls ==
  ASSUME GatewayInv, NEW p \in Process, transport[p] # {}
  PROVE  UseTls(config[p]) <=> WantsTls(p)
<1>1. Given(config[p], "sapient_tls") = InForce(p, "sapient_tls")
  BY LoadedInForce
<1>2. \A v \in InForce(p, "sapient_tls") : v \in BOOLEAN
  BY GatewayAssumption DEF GatewayInv, ProcessInv, GatewayType, InForce, Given, Setting
<1>3. CASE "sapient_tls" \in DOMAIN config[p]
  <2> DEFINE v == config[p]["sapient_tls"]
  <2>1. UseTls(config[p]) = v /\ InForce(p, "sapient_tls") = {v}
    BY <1>1, <1>3 DEF UseTls, Setting, Given
  <2>2. v \in BOOLEAN
    BY <1>2, <2>1
  <2> HIDE DEF v
  <2>3. WantsTls(p) <=> v = TRUE
    BY <2>1 DEF WantsTls
  <2> QED BY <2>1, <2>2, <2>3
<1>4. CASE "sapient_tls" \notin DOMAIN config[p]
  BY <1>1, <1>4 DEF UseTls, Setting, Given, WantsTls
<1>5. QED
  BY <1>3, <1>4

\* The transport that runs is one of those the settings make.
LEMMA TransportInForce ==
  ASSUME GatewayInv, NEW p \in Process, NEW t \in transport[p]
  PROVE  /\ t \in Transports(p)
         /\ t.tls # {} <=> WantsTls(p)
         /\ \A s \in t.tls :
              /\ s.cert \in InForce(p, "sapient_cert")
              /\ t.role = "dlmm" => s.ca \in InForce(p, "sapient_ca_cert")
              /\ t.role = "hldmm" => s.cas = InForce(p, "sapient_ca_cert")
         /\ IF InForce(p, "sapient_server_name") # {}
              THEN t.serverName \in InForce(p, "sapient_server_name") ELSE t.serverName = t.address
         /\ t.role = "dlmm" => t.address \in InForce(p, "sapient_remote")
<1>1. t \in Transports(p)
  BY DEF GatewayInv, ProcessInv, Started
<1>2. t.tls # {} <=> WantsTls(p)
  BY <1>1, LoadedTls, TransportOfSettings
<1>3. TlsOf(p, t)
  BY <1>1, TransportOfSettings
<1>4. /\ Given(config[p], "sapient_cert") = InForce(p, "sapient_cert")
      /\ Given(config[p], "sapient_ca_cert") = InForce(p, "sapient_ca_cert")
      /\ Given(config[p], "sapient_server_name") = InForce(p, "sapient_server_name")
      /\ Given(config[p], "sapient_remote") = InForce(p, "sapient_remote")
  BY LoadedInForce
<1>5. PICK r \in Roles(p) : /\ t.role = r.role /\ t.address = r.address
                           /\ t.serverName = Setting(config[p], "sapient_server_name", r.address)
  BY <1>1, TransportOfSettings
<1>6. IF InForce(p, "sapient_server_name") # {}
        THEN t.serverName \in InForce(p, "sapient_server_name") ELSE t.serverName = t.address
  BY <1>4, <1>5 DEF Setting, Given
<1>7. t.role = "dlmm" => t.address \in InForce(p, "sapient_remote")
  BY <1>4, <1>5, DialledAddress
<1>8. QED
  BY <1>1, <1>2, <1>3, <1>4, <1>6, <1>7 DEF TlsOf

\* The transport a process runs is the one its flags ask for, whatever its file
\* says, for every file and every command line (config.rs:184-264,
\* main.rs:131-149, 242-308).
THEOREM FlagsAreInForce == Spec => []FlagsInForce
<1>1. GatewayInv => FlagsInForce
  <2> SUFFICES ASSUME GatewayInv, NEW p \in Process, NEW t \in transport[p]
               PROVE  LET cli == given[p].cli
                      IN  /\ \A a \in Given(cli, "sapient_remote") : t.role = "dlmm" /\ t.address = a
                          /\ "sapient_remote" \notin DOMAIN cli =>
                               \A a \in Given(cli, "sapient_listen") : t.role = "hldmm" /\ t.address = a
                          /\ \A wanted \in Given(cli, "sapient_tls") : wanted <=> t.tls # {}
                          /\ \A name \in Given(cli, "sapient_server_name") : t.serverName = name
                          /\ \A s \in t.tls :
                               /\ \A cert \in Given(cli, "sapient_cert") : s.cert = cert
                               /\ \A ca \in Given(cli, "sapient_ca_cert") :
                                    IF t.role = "dlmm" THEN s.ca = ca ELSE s.cas = {ca}
    BY DEF FlagsInForce
  <2> DEFINE cli == given[p].cli  file == given[p].file
  <2>1. config[p] = Load(file, cli)
    BY DEF GatewayInv, ProcessInv, Started, Loaded
  <2>2. \A key \in DOMAIN cli : InForce(p, key) = {cli[key]}
    BY DEF InForce
  <2>3. PICK r \in Roles(p) : t.role = r.role /\ t.address = r.address
    BY TransportInForce, TransportOfSettings
  <2>4. t.role \in {"dlmm", "hldmm"}
    BY <2>3 DEF Roles, ResolveSapientRole
  <2> HIDE DEF cli, file
  <2>5. ASSUME "sapient_remote" \in DOMAIN cli
        PROVE  t.role = "dlmm" /\ t.address = cli["sapient_remote"]
    <3>1. "role" \in DOMAIN config[p] /\ config[p]["role"] = "dlmm"
      BY <2>1, <2>5, LoadedSetting
    <3>2. t.role = "dlmm"
      BY <2>3, <3>1, RoleOfSettings
    <3> QED BY <2>2, <2>5, <3>2, TransportInForce
  <2>6. ASSUME "sapient_remote" \notin DOMAIN cli, "sapient_listen" \in DOMAIN cli
        PROVE  t.role = "hldmm" /\ t.address = cli["sapient_listen"]
    <3>1. "role" \in DOMAIN config[p] /\ config[p]["role"] = "hldmm"
      BY <2>1, <2>6, LoadedSetting
    <3>2. Given(config[p], "sapient_listen") = {cli["sapient_listen"]}
      BY <2>2, <2>6, LoadedInForce
    <3> QED BY <2>3, <3>1, <3>2, RoleOfSettings
  <2>7. ASSUME "sapient_tls" \in DOMAIN cli PROVE cli["sapient_tls"] <=> t.tls # {}
    <3> DEFINE v == cli["sapient_tls"]
    <3>1. v \in BOOLEAN
      BY <2>7, GatewayAssumption DEF GatewayInv, ProcessInv, GatewayType, Setting, cli
    <3>2. InForce(p, "sapient_tls") = {v}
      BY <2>2, <2>7
    <3> HIDE DEF v
    <3>3. WantsTls(p) <=> v = TRUE
      BY <3>2 DEF WantsTls
    <3>4. v <=> t.tls # {}
      BY <3>1, <3>3, TransportInForce
    <3> QED BY <3>4 DEF v
  <2>8. "sapient_server_name" \in DOMAIN cli => t.serverName = cli["sapient_server_name"]
    BY <2>2, TransportInForce
  <2>9. ASSUME NEW s \in t.tls
        PROVE  /\ \A cert \in Given(cli, "sapient_cert") : s.cert = cert
               /\ \A ca \in Given(cli, "sapient_ca_cert") :
                    IF t.role = "dlmm" THEN s.ca = ca ELSE s.cas = {ca}
    <3>1. /\ s.cert \in InForce(p, "sapient_cert")
          /\ t.role = "dlmm" => s.ca \in InForce(p, "sapient_ca_cert")
          /\ t.role = "hldmm" => s.cas = InForce(p, "sapient_ca_cert")
      BY TransportInForce
    <3> QED BY <2>2, <2>4, <3>1 DEF Given
  <2> QED BY <2>5, <2>6, <2>7, <2>8, <2>9 DEF Given, cli
<1>2. QED
  BY <1>1, GatewayInvariant, PTL

\* Ends that take each other for connected have shown what the settings of the
\* other ask for, whatever broke, whoever was restarted and whoever else dialled,
\* for all settings (main.rs:131-149, 280-308, connection.rs:143-252, 269-335).
THEOREM ConnectedEndsAgree == Spec => []EndsAgree
<1>1. GatewayInv => EndsAgree
  <2> SUFFICES ASSUME GatewayInv, line = "up" PROVE EndsAgree
    BY DEF EndsAgree
  <2> DEFINE t == Ours  u == Theirs
  <2>1. /\ dial = "up" /\ t \in transport[Dialler] /\ u \in transport[Listener]
        /\ t.role = "dlmm" /\ u.role = "hldmm"
    BY DEF GatewayInv, LineInv, Agreed, Live, Ours, Theirs
  <2>2. /\ (t.tls = {}) = (u.tls = {})
        /\ \A c \in t.tls, s \in u.tls : ServerVerified(c, t.serverName, s) /\ ClientVerified(c, s)
    BY DEF GatewayInv, Agreed
  <2> HIDE DEF t, u
  <2>3. (t.tls # {} <=> WantsTls(Dialler)) /\ (u.tls # {} <=> WantsTls(Listener))
    BY <2>1, TransportInForce, GatewayAssumption
  <2>4. ASSUME WantsTls(Dialler)
        PROVE  /\ \A cert \in InForce(Listener, "sapient_cert") :
                    /\ \E ca \in InForce(Dialler, "sapient_ca_cert") : cert.issuer = ca.name
                    /\ cert.name \in IF InForce(Dialler, "sapient_server_name") # {}
                                      THEN InForce(Dialler, "sapient_server_name")
                                      ELSE InForce(Dialler, "sapient_remote")
               /\ \A ca \in InForce(Listener, "sapient_ca_cert") :
                    \E cert \in InForce(Dialler, "sapient_cert") : cert.issuer = ca.name
    <3>1. PICK c \in t.tls, s \in u.tls : TRUE
      BY <2>2, <2>3, <2>4
    <3>2. /\ s.cert.issuer = c.ca.name /\ s.cert.name = t.serverName
          /\ \A ca \in s.cas : c.cert.issuer = ca.name
      BY <2>2, <3>1 DEF ServerVerified, ClientVerified
    <3>3. /\ c.ca \in InForce(Dialler, "sapient_ca_cert") /\ c.cert \in InForce(Dialler, "sapient_cert")
          /\ t.serverName \in IF InForce(Dialler, "sapient_server_name") # {}
                               THEN InForce(Dialler, "sapient_server_name")
                               ELSE InForce(Dialler, "sapient_remote")
      BY <2>1, <3>1, TransportInForce, GatewayAssumption
    <3>4. s.cert \in InForce(Listener, "sapient_cert") /\ s.cas = InForce(Listener, "sapient_ca_cert")
      BY <2>1, <3>1, TransportInForce, GatewayAssumption
    <3>5. \A x, y \in InForce(Listener, "sapient_cert") : x = y
      BY DEF InForce, Given
    <3> QED BY <3>2, <3>3, <3>4, <3>5
  <2> QED BY <2>1, <2>2, <2>3, <2>4 DEF EndsAgree
<1>2. QED
  BY <1>1, GatewayInvariant, PTL

\* A bridge that is told to use TLS is never connected without it, for every
\* file and command line (main.rs:131-149, 280-308, connection.rs:143-252).
THEOREM NeverPlaintext == Spec => []NoPlaintext
<1>1. GatewayInv => NoPlaintext
  <2> SUFFICES ASSUME GatewayInv, NEW p \in Process, WantsTls(p)
               PROVE  /\ \A t \in transport[p] : t.tls # {}
                      /\ line = "up" /\ p \in {Dialler, Listener} => Ours.tls # {} /\ Theirs.tls # {}
    BY DEF NoPlaintext
  <2>1. \A t \in transport[p] : t.tls # {}
    BY TransportInForce
  <2>2. ASSUME line = "up" PROVE Ours \in transport[Dialler] /\ Theirs \in transport[Listener]
    BY <2>2 DEF GatewayInv, LineInv, Live, Ours, Theirs
  <2>3. line = "up" => (Ours.tls = {}) = (Theirs.tls = {})
    BY DEF GatewayInv, Agreed
  <2> QED BY <2>1, <2>2, <2>3
<1>2. QED
  BY <1>1, GatewayInvariant, PTL

-----------------------------------------------------------------------------
(***************************************************************************)
(* The stream. The decoder asks for more when it has less than a frame.    *)
(***************************************************************************)

\* Every byte on its way belongs to a frame that was encoded.
ByteOf(n) == (1..n) \X Nat

FramingType ==
  /\ frames \in Seq([size : Nat, valid : BOOLEAN])
  /\ wire \in Seq(ByteOf(Len(frames)))
  /\ buffer \in Seq(ByteOf(Len(frames)))

FramingInv == FramingType /\ BufferBounded

-----------------------------------------------------------------------------

LEMMA ElementOfSeq ==
  ASSUME NEW S, NEW s \in Seq(S), NEW i \in 1..Len(s)
  PROVE  s[i] \in S
OBVIOUS

LEMMA SizeIsNatural ==
  ASSUME FramingType, NEW i \in 1..Len(frames)
  PROVE  frames[i].size \in Nat
<1>1. frames \in Seq([size : Nat, valid : BOOLEAN])
  BY DEF FramingType
<1>2. frames[i] \in [size : Nat, valid : BOOLEAN]
  BY <1>1, ElementOfSeq, Zenon
<1>3. QED
  BY <1>2

LEMMA DeclaredType ==
  ASSUME FramingType, Len(buffer) >= HeaderBytes
  PROVE  Declared \subseteq Nat /\ Declared # {}
<1> DEFINE i == buffer[1][1]
<1>1. i \in 1..Len(frames) /\ Len(frames) \in Nat
  <2>1. Len(frames) \in Nat /\ Len(buffer) \in Nat
    BY DEF FramingType
  <2>2. buffer[1] \in ByteOf(Len(frames))
    BY <2>1 DEF FramingType, HeaderBytes
  <2> QED BY <2>1, <2>2 DEF ByteOf
<1>2. frames[i].size \in Nat /\ LengthModulus \in Nat \ {0}
  BY <1>1, SizeIsNatural, FramingAssumption
<1>3. frames[i].size % LengthModulus \in Nat
  BY <1>2
<1>4. 0 \in 0..(LengthModulus - 1) /\ 0..(LengthModulus - 1) \subseteq Nat
  BY <1>2
<1>5. QED
  BY <1>3, <1>4 DEF Declared

LEMMA MoreBytes ==
  ASSUME NEW m \in Nat, NEW n \in Nat, m <= n, NEW s \in Seq(ByteOf(m))
  PROVE  s \in Seq(ByteOf(n))
<1>1. ByteOf(m) \subseteq ByteOf(n)
  BY DEF ByteOf
<1>2. QED
  BY <1>1

\* A reader that asks for more has less than a frame.
LEMMA ReadStep ==
  ASSUME FramingInv, NEW n \in 1..ReadCapacity, Read(n)
  PROVE  FramingInv'
<1>1. /\ buffer \in Seq(ByteOf(Len(frames))) /\ wire \in Seq(ByteOf(Len(frames)))
      /\ n \in Nat /\ n <= ReadCapacity /\ n <= Len(wire)
      /\ MaxFrameBytes \in Nat /\ ReadCapacity \in Nat \ {0}
  BY FramingAssumption DEF FramingInv, FramingType, Read
<1>2. Len(buffer) < HeaderBytes + MaxFrameBytes
  <2>1. CASE Len(buffer) < HeaderBytes
    BY <2>1, <1>1 DEF HeaderBytes
  <2>2. CASE Len(buffer) >= HeaderBytes
    <3>1. PICK length \in Declared : TRUE
      BY <2>2, DeclaredType DEF FramingInv
    <3>2. length \in Nat
      BY <3>1, <2>2, DeclaredType DEF FramingInv
    <3>3. ~TooLarge(length) /\ ~Whole(length)
      BY <3>1, <2>2 DEF Read, Decodable
    <3> QED BY <3>2, <3>3, <1>1 DEF TooLarge, Whole, HeaderBytes
  <2> QED BY <2>1, <2>2, <1>1 DEF HeaderBytes
<1>3. /\ SubSeq(wire, 1, n) \in Seq(ByteOf(Len(frames))) /\ Len(SubSeq(wire, 1, n)) = n
      /\ SubSeq(wire, n + 1, Len(wire)) \in Seq(ByteOf(Len(frames)))
  BY <1>1
<1>4. /\ buffer' = buffer \o SubSeq(wire, 1, n) /\ wire' = SubSeq(wire, n + 1, Len(wire))
      /\ frames' = frames
  BY DEF Read
<1>5. buffer' \in Seq(ByteOf(Len(frames))) /\ Len(buffer') = Len(buffer) + n
  BY <1>1, <1>3, <1>4
<1>6. FramingType'
  BY <1>3, <1>4, <1>5 DEF FramingInv, FramingType
<1>7. BufferBounded'
  BY <1>1, <1>2, <1>5 DEF BufferBounded, HeaderBytes
<1>8. QED
  BY <1>6, <1>7 DEF FramingInv

LEMMA DecodeStep ==
  ASSUME FramingInv, Decode
  PROVE  FramingInv'
<1>1. Len(buffer) >= HeaderBytes /\ UNCHANGED << frames, wire >>
  BY DEF Decode
<1>2. PICK length \in Declared :
        /\ Whole(length)
        /\ buffer' = SubSeq(buffer, HeaderBytes + length + 1, Len(buffer))
  BY DEF Decode
<1>3. length \in Nat /\ buffer \in Seq(ByteOf(Len(frames)))
  BY <1>1, <1>2, DeclaredType DEF FramingInv, FramingType
<1>4. buffer' \in Seq(ByteOf(Len(frames))) /\ Len(buffer') <= Len(buffer)
  BY <1>2, <1>3 DEF Whole, HeaderBytes
<1>5. FramingType'
  BY <1>1, <1>4 DEF FramingInv, FramingType
<1>6. BufferBounded'
  BY <1>3, <1>4, FramingAssumption DEF FramingInv, BufferBounded, HeaderBytes
<1>7. QED
  BY <1>5, <1>6 DEF FramingInv

LEMMA EncodeStep ==
  ASSUME FramingInv, NEW size \in Size, NEW valid \in BOOLEAN, Encode(size, valid)
  PROVE  FramingInv'
<1> DEFINE count == Len(frames)
<1>1. size \in Nat /\ count \in Nat /\ frames \in Seq([size : Nat, valid : BOOLEAN])
  BY FramingAssumption DEF FramingInv, FramingType
<1>2. /\ frames' = Append(frames, [size |-> size, valid |-> valid])
      /\ wire' = wire \o FrameBytes(count + 1, size) /\ buffer' = buffer
  BY DEF Encode
<1>3. frames' \in Seq([size : Nat, valid : BOOLEAN]) /\ Len(frames') = count + 1
  BY <1>1, <1>2
<1>4. FrameBytes(count + 1, size) \in Seq(ByteOf(count + 1))
  BY <1>1 DEF FrameBytes, ByteOf, HeaderBytes
<1>5. wire \in Seq(ByteOf(count + 1)) /\ buffer \in Seq(ByteOf(count + 1))
  BY <1>1, MoreBytes DEF FramingInv, FramingType
<1>6. FramingType'
  BY <1>2, <1>3, <1>4, <1>5 DEF FramingType
<1>7. QED
  BY <1>2, <1>6 DEF FramingInv, BufferBounded

LEMMA FramingStep == FramingInv /\ [FramingNext]_framingVars => FramingInv'
<1> SUFFICES ASSUME FramingInv, [FramingNext]_framingVars PROVE FramingInv'
  OBVIOUS
<1>1. CASE \E size \in Size, valid \in BOOLEAN : Encode(size, valid)
  BY <1>1, EncodeStep
<1>2. CASE Decode
  BY <1>2, DecodeStep
<1>3. CASE \E n \in 1..ReadCapacity : Read(n)
  BY <1>3, ReadStep
<1>4. ASSUME NEW kept \in 0..Len(wire), CloseStream(kept) PROVE FramingInv'
  <2>1. wire' = SubSeq(wire, 1, kept) /\ UNCHANGED << frames, buffer >>
    BY <1>4 DEF CloseStream
  <2>2. wire' \in Seq(ByteOf(Len(frames)))
    BY <2>1 DEF FramingInv, FramingType
  <2> QED BY <2>1, <2>2 DEF FramingInv, FramingType, BufferBounded
<1>5. CASE FrameTooLarge \/ EndOfStream
  BY <1>5 DEF FrameTooLarge, EndOfStream, FramingInv, FramingType, BufferBounded
<1>6. CASE UNCHANGED framingVars
  BY <1>6 DEF framingVars, FramingInv, FramingType, BufferBounded
<1>7. QED
  BY <1>1, <1>2, <1>3, <1>4, <1>5, <1>6 DEF FramingNext

-----------------------------------------------------------------------------

\* However the stream is cut and whatever it says, the decoder never holds more
\* than a frame within the limit and one read (codec.rs:13-15, 58-68).
THEOREM BufferStaysBounded == FramingSpec => []BufferBounded
<1>1. FramingInit => FramingInv
  BY FramingAssumption DEF FramingInit, FramingInv, FramingType, BufferBounded, HeaderBytes
<1>2. FramingInv /\ [FramingNext]_framingVars => FramingInv'
  BY FramingStep
<1>3. FramingInv => BufferBounded
  BY DEF FramingInv
<1>4. QED
  BY <1>1, <1>2, <1>3, PTL DEF FramingSpec

-----------------------------------------------------------------------------
(***************************************************************************)
(* The order of the bytes. What is pending begins with the frame after the *)
(* last one decoded; from a byte on, the rest of its frame stands in its   *)
(* order, and the first byte of the next frame after it.                   *)
(***************************************************************************)

Frame == [size : Nat, valid : BOOLEAN]

Span(fs, i) == HeaderBytes + fs[i].size

Runs(fs, s) ==
  /\ \A j \in 1..Len(s) : s[j][2] \in 1..Span(fs, s[j][1])
  /\ \A j \in 1..Len(s), m \in 0..Len(s) : j + m <= Len(s) =>
       /\ s[j][2] + m <= Span(fs, s[j][1]) => s[j + m] = << s[j][1], s[j][2] + m >>
       /\ s[j][2] + m = Span(fs, s[j][1]) + 1 => s[j + m] = << s[j][1] + 1, 1 >>

Begins(d, s) == s # << >> => s[1] = << d + 1, 1 >>

Ends(fs, d, s) ==
  IF s = << >> THEN d = Len(fs) ELSE s[Len(s)] = << Len(fs), Span(fs, Len(fs)) >>

LEMMA SpanType ==
  ASSUME NEW fs \in Seq(Frame), NEW i \in 1..Len(fs)
  PROVE  fs[i].size \in Nat /\ Span(fs, i) \in Nat /\ Span(fs, i) >= HeaderBytes
<1>1. fs[i] \in Frame
  BY ElementOfSeq, Zenon
<1>2. QED
  BY <1>1 DEF Frame, Span, HeaderBytes

LEMMA ByteType ==
  ASSUME NEW n \in Nat, NEW s \in Seq(ByteOf(n)), NEW j \in 1..Len(s)
  PROVE  s[j][1] \in 1..n /\ s[j][2] \in Nat /\ s[j] = << s[j][1], s[j][2] >>
<1>1. s[j] \in ByteOf(n)
  BY ElementOfSeq, Zenon
<1>2. QED
  BY <1>1 DEF ByteOf

LEMMA CutRuns ==
  ASSUME NEW fs \in Seq(Frame), NEW s \in Seq(ByteOf(Len(fs))), NEW n \in 0..Len(s),
         NEW d \in Nat, Runs(fs, s), Begins(d, s)
  PROVE  Runs(fs, SubSeq(s, 1, n)) /\ Begins(d, SubSeq(s, 1, n))
<1> DEFINE t == SubSeq(s, 1, n)
<1>1. /\ n \in Nat /\ Len(s) \in Nat /\ n <= Len(s) /\ Len(t) = n
      /\ (n = 0 => t = << >>) /\ (n # 0 => s # << >>)
  OBVIOUS
<1>2. \A j \in 1..n : t[j] = s[j]
  OBVIOUS
<1> HIDE DEF t
<1>3. \A j \in 1..n : j \in 1..Len(s)
  BY <1>1
<1>4. Begins(d, t)
  BY <1>1, <1>2 DEF Begins
<1>5. ASSUME NEW j \in 1..n, NEW m \in 0..n, j + m <= n
      PROVE  j \in 1..Len(s) /\ m \in 0..Len(s) /\ j + m <= Len(s) /\ t[j + m] = s[j + m]
  BY <1>1, <1>2, <1>5
<1>6. Runs(fs, t)
  <2>1. \A j \in 1..Len(t) : t[j] = s[j] /\ j \in 1..Len(s)
    BY <1>1, <1>2, <1>3
  <2>2. \A j \in 1..Len(t), m \in 0..Len(t) : j + m <= Len(t) =>
          m \in 0..Len(s) /\ j + m <= Len(s) /\ t[j + m] = s[j + m]
    BY <1>1, <1>5
  <2>3. \A j \in 1..Len(t) : t[j][2] \in 1..Span(fs, t[j][1])
    BY <2>1 DEF Runs
  <2>4. ASSUME NEW j \in 1..Len(t), NEW m \in 0..Len(t), j + m <= Len(t)
        PROVE  /\ t[j][2] + m <= Span(fs, t[j][1]) => t[j + m] = << t[j][1], t[j][2] + m >>
               /\ t[j][2] + m = Span(fs, t[j][1]) + 1 => t[j + m] = << t[j][1] + 1, 1 >>
    <3>1. t[j] = s[j] /\ j \in 1..Len(s)
      BY <2>1
    <3>2. m \in 0..Len(s) /\ j + m <= Len(s) /\ t[j + m] = s[j + m]
      BY <2>2, <2>4
    <3> QED BY <3>1, <3>2 DEF Runs
  <2> QED BY <2>3, <2>4 DEF Runs
<1>7. QED
  BY <1>4, <1>6 DEF t

\* t is what is left of s without its first w elements.
RestOf(s, t, w) ==
  /\ \A j \in 1..Len(t) : w + j \in 1..Len(s) /\ t[j] = s[w + j]
  /\ \A j \in 1..Len(t), m \in 0..Len(t) : j + m <= Len(t) =>
       m \in 0..Len(s) /\ (w + j) + m <= Len(s) /\ t[j + m] = s[(w + j) + m]

LEMMA RunsRest ==
  ASSUME NEW fs, NEW s, NEW t, NEW w \in Nat, Runs(fs, s), RestOf(s, t, w)
  PROVE  Runs(fs, t)
<1>1. ASSUME NEW j \in 1..Len(t)
      PROVE  t[j][2] \in 1..Span(fs, t[j][1])
  BY DEF Runs, RestOf
<1>2. ASSUME NEW j \in 1..Len(t), NEW m \in 0..Len(t), j + m <= Len(t)
      PROVE  /\ t[j][2] + m <= Span(fs, t[j][1]) => t[j + m] = << t[j][1], t[j][2] + m >>
             /\ t[j][2] + m = Span(fs, t[j][1]) + 1 => t[j + m] = << t[j][1] + 1, 1 >>
  <2>1. w + j \in 1..Len(s) /\ t[j] = s[w + j]
    BY DEF RestOf
  <2>2. m \in 0..Len(s) /\ (w + j) + m <= Len(s) /\ t[j + m] = s[(w + j) + m]
    BY <1>2 DEF RestOf
  <2> QED BY <2>1, <2>2 DEF Runs
<1>3. QED
  BY <1>1, <1>2 DEF Runs

LEMMA MiddlePart ==
  ASSUME NEW S, NEW s \in Seq(S), NEW a \in Nat, NEW b \in Nat, a + b <= Len(s)
  PROVE  /\ SubSeq(s, a + 1, a + b) \in Seq(S) /\ Len(SubSeq(s, a + 1, a + b)) = b
         /\ \A k \in 1..b : SubSeq(s, a + 1, a + b)[k] = s[a + k]
OBVIOUS

LEMMA TailPart ==
  ASSUME NEW S, NEW s \in Seq(S), NEW w \in 0..Len(s)
  PROVE  /\ SubSeq(s, w + 1, Len(s)) \in Seq(S)
         /\ Len(SubSeq(s, w + 1, Len(s))) = Len(s) - w
         /\ \A j \in 1..(Len(s) - w) : SubSeq(s, w + 1, Len(s))[j] = s[w + j]
OBVIOUS

LEMMA FirstFrame ==
  ASSUME NEW fs, NEW n \in Nat, NEW s \in Seq(ByteOf(n)), NEW d \in Nat,
         Runs(fs, s), Begins(d, s), NEW k \in 1..Len(s), k <= Span(fs, d + 1)
  PROVE  s[k] = << d + 1, k >>
<1>1. k - 1 \in 0..Len(s) /\ 1 + (k - 1) = k /\ 1 \in 1..Len(s) /\ s # << >>
  OBVIOUS
<1>2. s[1] = << d + 1, 1 >>
  BY <1>1 DEF Begins
<1>3. s[1][1] = d + 1 /\ s[1][2] = 1
  BY <1>2
<1> DEFINE m == k - 1
<1> HIDE DEF m
<1>4. m \in 0..Len(s) /\ 1 + m = k /\ 1 + m <= Len(s)
  BY <1>1 DEF m
<1>5. s[1][2] + m <= Span(fs, s[1][1]) => s[1 + m] = << s[1][1], s[1][2] + m >>
  BY <1>1, <1>4 DEF Runs
<1>6. QED
  BY <1>3, <1>4, <1>5

LEMMA DecodedRuns ==
  ASSUME NEW fs \in Seq(Frame), NEW s \in Seq(ByteOf(Len(fs))), NEW d \in Nat,
         Runs(fs, s), Begins(d, s), d + 1 \in 1..Len(fs), Span(fs, d + 1) <= Len(s),
         NEW t, Len(t) = Len(s) - Span(fs, d + 1), Len(t) = 0 <=> t = << >>,
         \A j \in 1..Len(t) : t[j] = s[Span(fs, d + 1) + j]
  PROVE  /\ \A k \in 1..Span(fs, d + 1) : s[k] = << d + 1, k >>
         /\ Runs(fs, t) /\ Begins(d + 1, t)
         /\ Ends(fs, d, s) => Ends(fs, d + 1, t)
<1> DEFINE w == Span(fs, d + 1)  n == Len(s)
<1>1. w \in Nat /\ w > 0 /\ w <= n /\ n \in Nat
  BY SpanType DEF HeaderBytes
<1>2. /\ Len(t) = n - w /\ \A j \in 1..Len(t) : t[j] = s[w + j]
      /\ (n = w => t = << >>) /\ (n > w => t # << >>)
  BY <1>1
<1>3. s[1] = << d + 1, 1 >> /\ 1 \in 1..n
  BY <1>1 DEF Begins
<1> HIDE DEF w, n
<1>4. ASSUME NEW k \in 1..w PROVE s[k] = << d + 1, k >>
  <2>1. k \in 1..Len(s) /\ k <= Span(fs, d + 1) /\ Len(fs) \in Nat
    BY <1>1 DEF n, w
  <2> QED BY <2>1, FirstFrame
<1>5. n > w => s[w + 1] = << d + 2, 1 >>
  <2> SUFFICES ASSUME n > w PROVE s[w + 1] = << d + 2, 1 >>
    OBVIOUS
  <2>1. w \in 0..n /\ 1 + w <= n /\ 1 + w = w + 1 /\ (d + 1) + 1 = d + 2
    BY <1>1
  <2>2. s[1][1] = d + 1 /\ s[1][2] = 1
    BY <1>3
  <2>3. s[1][2] + w = Span(fs, s[1][1]) + 1 => s[1 + w] = << s[1][1] + 1, 1 >>
    BY <1>3, <2>1 DEF Runs, n
  <2> QED BY <2>1, <2>2, <2>3 DEF w
<1>6. Begins(d + 1, t)
  <2>1. t # << >> => n > w /\ t[1] = s[w + 1]
    BY <1>1, <1>2
  <2> QED BY <1>5, <2>1 DEF Begins
<1>7. Runs(fs, t)
  <2>1. \A j \in 1..Len(t) : w + j \in 1..n /\ t[j] = s[w + j]
    BY <1>1, <1>2
  <2>2. ASSUME NEW j \in 1..Len(t), NEW m \in 0..Len(t), j + m <= Len(t)
        PROVE  m \in 0..n /\ (w + j) + m <= n /\ t[j + m] = s[(w + j) + m]
    <3>1. j + m \in 1..Len(t) /\ (w + j) + m = w + (j + m)
      BY <1>1, <1>2, <2>2
    <3> QED BY <1>1, <1>2, <3>1
  <2>3. RestOf(s, t, w)
    BY <2>1, <2>2 DEF RestOf, n
  <2> QED BY <1>1, <2>3, RunsRest
<1>8. ASSUME Ends(fs, d, s) PROVE Ends(fs, d + 1, t)
  <2>1. s # << >> /\ s[n] = << Len(fs), Span(fs, Len(fs)) >>
    BY <1>3, <1>8 DEF Ends, n
  <2>2. CASE n = w
    <3>1. s[n] = << d + 1, w >> /\ t = << >>
      BY <1>1, <1>2, <1>4, <2>2
    <3> QED BY <2>1, <3>1 DEF Ends
  <2>3. CASE n > w
    <3>1. t # << >> /\ t[Len(t)] = s[n]
      BY <1>1, <1>2, <2>3
    <3> QED BY <2>1, <3>1 DEF Ends
  <2> QED BY <1>1, <2>2, <2>3
<1>9. QED
  BY <1>4, <1>6, <1>7, <1>8 DEF w

LEMMA ConcatAssociates ==
  ASSUME NEW S, NEW a \in Seq(S), NEW b \in Seq(S), NEW c \in Seq(S)
  PROVE  a \o (b \o c) = (a \o b) \o c
OBVIOUS

LEMMA CutConcat ==
  ASSUME NEW S, NEW a \in Seq(S), NEW b \in Seq(S), NEW n \in 0..Len(b)
  PROVE  a \o SubSeq(b, 1, n) = SubSeq(a \o b, 1, Len(a) + n)
OBVIOUS

LEMMA ConcatParts ==
  ASSUME NEW S, NEW s \in Seq(S), NEW u \in Seq(S)
  PROVE  /\ Len(s \o u) = Len(s) + Len(u)
         /\ \A j \in 1..Len(s) : (s \o u)[j] = s[j]
         /\ \A k \in 1..Len(u) : (s \o u)[Len(s) + k] = u[k]
OBVIOUS

LEMMA SplitSequence ==
  ASSUME NEW S, NEW s \in Seq(S), NEW n \in 0..Len(s)
  PROVE  /\ SubSeq(s, 1, n) \in Seq(S) /\ SubSeq(s, n + 1, Len(s)) \in Seq(S)
         /\ SubSeq(s, 1, n) \o SubSeq(s, n + 1, Len(s)) = s
<1> DEFINE x == SubSeq(s, 1, n)  y == SubSeq(s, n + 1, Len(s))
<1>1. /\ Len(s) \in Nat /\ n \in Nat /\ n <= Len(s) /\ x \in Seq(S) /\ Len(x) = n
      /\ \A j \in 1..n : x[j] = s[j]
  OBVIOUS
<1>2. y \in Seq(S) /\ Len(y) = Len(s) - n /\ \A j \in 1..(Len(s) - n) : y[j] = s[n + j]
  BY TailPart
<1> HIDE DEF x, y
<1> DEFINE t == x \o y
<1>3. /\ t \in Seq(S) /\ Len(t) = Len(s) /\ \A j \in 1..n : t[j] = x[j]
      /\ \A k \in 1..(Len(s) - n) : t[n + k] = y[k]
  <2>1. x \o y \in Seq(S)
    BY <1>1, <1>2
  <2>2. /\ Len(x \o y) = Len(x) + Len(y)
        /\ \A j \in 1..Len(x) : (x \o y)[j] = x[j]
        /\ \A k \in 1..Len(y) : (x \o y)[Len(x) + k] = y[k]
    <3>1. x \in Seq(S) /\ y \in Seq(S)
      BY <1>1, <1>2
    <3> QED BY <3>1, ConcatParts
  <2> QED BY <1>1, <1>2, <2>1, <2>2
<1> HIDE DEF t
<1>4. ASSUME NEW j \in 1..Len(s) PROVE t[j] = s[j]
  <2>1. CASE j <= n
    BY <1>1, <1>3, <2>1
  <2>2. CASE j > n
    <3>1. j - n \in 1..(Len(s) - n) /\ n + (j - n) = j
      BY <1>1, <2>2
    <3> QED BY <1>2, <1>3, <3>1
  <2> QED BY <1>1, <2>1, <2>2
<1>5. t = s
  BY <1>3, <1>4
<1>6. QED
  BY <1>1, <1>2, <1>5 DEF t, x, y

LEMMA Beyond ==
  ASSUME NEW p \in Nat, NEW w \in Nat, NEW j \in Nat, NEW m \in Nat, j > p, j + m <= p + w
  PROVE  j - p \in 1..w /\ p + (j - p) = j /\ (j - p) + m \in 1..w /\ p + ((j - p) + m) = j + m
OBVIOUS

\* A frame more, and its bytes.
Grown(fs, gs, s, t, w) ==
  /\ Len(gs) = Len(fs) + 1 /\ Span(gs, Len(fs) + 1) = w
  /\ \A i \in 1..Len(fs) : Span(gs, i) = Span(fs, i)
  /\ Len(t) = Len(s) + w
  /\ \A j \in 1..Len(s) : t[j] = s[j]
  /\ \A k \in 1..w : t[Len(s) + k] = << Len(fs) + 1, k >>

\* The bytes of a frame appended to a run that ends where a frame does.
LEMMA AppendedRuns ==
  ASSUME NEW fs \in Seq(Frame), NEW gs, NEW s \in Seq(ByteOf(Len(fs))), NEW t, NEW d \in Nat,
         NEW w \in Nat \ {0}, Grown(fs, gs, s, t, w),
         Runs(fs, s), Begins(d, s), Ends(fs, d, s)
  PROVE  Runs(gs, t) /\ Begins(d, t) /\ Ends(gs, d, t)
<1> DEFINE p == Len(s)  n == Len(fs)
<1>a. /\ p = Len(s) /\ n = Len(fs)
      /\ Len(gs) = n + 1 /\ Span(gs, n + 1) = w
      /\ \A i \in 1..n : Span(gs, i) = Span(fs, i)
      /\ Len(t) = p + w /\ \A j \in 1..p : t[j] = s[j]
      /\ \A k \in 1..w : t[p + k] = << n + 1, k >>
  BY DEF Grown
<1>b. p \in Nat /\ n \in Nat /\ w \in Nat /\ w > 0 /\ (p = 0 <=> s = << >>)
  OBVIOUS
<1> HIDE DEF p, n
<1> USE <1>a, <1>b
<1>1. /\ p \in Nat /\ n \in Nat /\ (p = 0 <=> s = << >>)
      /\ \A j \in 1..p : s[j][1] \in 1..n /\ s[j][2] \in Nat /\ Span(fs, s[j][1]) \in Nat
  <2>2. \A j \in 1..p : s[j][1] \in 1..n /\ s[j][2] \in Nat
    BY ByteType
  <2>3. \A i \in 1..n : Span(fs, i) \in Nat
    BY SpanType
  <2> QED BY <2>2, <2>3
<1>2. t # << >> /\ Len(t) \in Nat
  <2>1. Len(<< >>) = 0 /\ p + w # 0
    BY <1>1
  <2> QED BY <1>1, <2>1
<1>3. Begins(d, t)
  <2>1. CASE p = 0
    <3>1. t[1] = << n + 1, 1 >>
      BY <1>1, <2>1
    <3> QED BY <1>1, <2>1, <3>1 DEF Ends, Begins
  <2>2. CASE p # 0
    <3>1. t[1] = s[1] /\ s # << >>
      BY <1>1, <2>2
    <3> QED BY <3>1 DEF Begins
  <2> QED BY <2>1, <2>2
<1>4. Ends(gs, d, t)
  <2>1. t[p + w] = << n + 1, w >>
    BY <1>1
  <2> QED BY <1>2, <2>1 DEF Ends
<1>5. ASSUME NEW j \in 1..Len(t) PROVE t[j][2] \in 1..Span(gs, t[j][1])
  <2>1. CASE j \in 1..p
    <3>1. t[j] = s[j] /\ s[j][1] \in 1..n /\ s[j][2] \in 1..Span(fs, s[j][1])
      BY <1>1, <2>1 DEF Runs
    <3> QED BY <3>1
  <2>2. CASE j \notin 1..p
    <3>1. j - p \in 1..w /\ p + (j - p) = j
      BY <1>1, <2>2
    <3>2. t[j] = << n + 1, j - p >>
      BY <3>1
    <3> QED BY <3>1, <3>2
  <2> QED BY <2>1, <2>2
<1>6. ASSUME NEW j \in 1..Len(t), NEW m \in 0..Len(t), j + m <= Len(t)
      PROVE  /\ t[j][2] + m <= Span(gs, t[j][1]) => t[j + m] = << t[j][1], t[j][2] + m >>
             /\ t[j][2] + m = Span(gs, t[j][1]) + 1 => t[j + m] = << t[j][1] + 1, 1 >>
  <2>1. CASE j + m <= p
    <3>1. j \in 1..p /\ m \in 0..p /\ j + m \in 1..p
      BY <1>1, <2>1
    <3>2. t[j] = s[j] /\ t[j + m] = s[j + m] /\ Span(gs, s[j][1]) = Span(fs, s[j][1])
      BY <1>1, <3>1
    <3>3. /\ s[j][2] + m <= Span(fs, s[j][1]) => s[j + m] = << s[j][1], s[j][2] + m >>
          /\ s[j][2] + m = Span(fs, s[j][1]) + 1 => s[j + m] = << s[j][1] + 1, 1 >>
      BY <2>1, <3>1 DEF Runs
    <3> QED BY <3>2, <3>3
  <2>2. CASE j <= p /\ j + m > p
    <3> DEFINE i == s[j][1]  a == s[j][2]  span == Span(fs, i)
    <3>1. /\ j \in 1..p /\ p - j \in 0..p /\ j + (p - j) = p /\ p # 0 /\ m \in Nat
          /\ i \in 1..n /\ a \in Nat /\ span \in Nat
      BY <1>1, <2>2
    <3>2. t[j] = << i, a >> /\ Span(gs, i) = span
      BY <3>1, ByteType
    <3>3. a + (p - j) <= span => s[p] = << i, a + (p - j) >>
      <4> DEFINE q == p - j
      <4> HIDE DEF q
      <4>1. j \in 1..Len(s) /\ q \in 0..Len(s) /\ j + q = p /\ j + q <= Len(s)
        BY <1>1, <3>1 DEF q
      <4>2. s[j][2] + q <= Span(fs, s[j][1]) => s[j + q] = << s[j][1], s[j][2] + q >>
        BY <4>1 DEF Runs
      <4> QED BY <4>1, <4>2 DEF q
    <3>4. s[p] = << n, Span(fs, n) >>
      BY <1>1, <3>1 DEF Ends
    <3> HIDE DEF i, a, span
    <3>5. a + (p - j) <= span => i = n /\ a + (p - j) = Span(fs, n)
      BY <3>3, <3>4
    <3>6. a + m <= span + 1 => i = n /\ a + (p - j) = span
      <4>1. a + m <= span + 1 => a + (p - j) <= span
        BY <1>1, <2>2, <3>1
      <4> QED BY <3>5, <4>1 DEF span
    <3>7. ~(a + m <= span)
      BY <1>1, <2>2, <3>1, <3>6
    <3>8. a + m = span + 1 => j + m = p + 1
      <4> SUFFICES ASSUME a + m = span + 1 PROVE j + m = p + 1
        OBVIOUS
      <4> DEFINE q == p - j
      <4>1. q \in Nat /\ j + q = p /\ j \in Nat /\ a \in Nat /\ m \in Nat
        BY <1>1, <3>1
      <4>2. a + q = span
        BY <3>1, <3>6
      <4> HIDE DEF q
      <4> HIDE <1>a, <1>b
      <4>3. a + m = (a + q) + 1
        BY <4>2
      <4>4. m = q + 1
        BY <4>1, <4>3
      <4> QED BY <4>1, <4>4
    <3>9. t[p + 1] = << n + 1, 1 >>
      BY <1>1
    <3>10. a + m = span + 1 => t[j + m] = << i + 1, 1 >>
      BY <3>1, <3>6, <3>8, <3>9
    <3> QED BY <3>2, <3>7, <3>10
  <2>3. CASE j > p
    <3> DEFINE k == j - p
    <3>1. k \in 1..w /\ p + k = j /\ k + m \in 1..w /\ p + (k + m) = j + m
      <4>1. j \in Nat /\ m \in Nat /\ j + m <= p + w
        BY <1>2, <1>6
      <4> QED BY <2>3, <4>1, Beyond
    <3>2. t[j] = << n + 1, k >> /\ t[j + m] = << n + 1, k + m >>
      BY <3>1
    <3>3. k + m # w + 1
      BY <3>1
    <3> HIDE DEF k
    <3>4. t[j][1] = n + 1 /\ t[j][2] = k
      BY <3>2
    <3> QED BY <3>2, <3>3, <3>4
  <2>4. j + m <= p \/ (j <= p /\ j + m > p) \/ j > p
    BY <1>1, <1>2
  <2> QED BY <2>1, <2>2, <2>3, <2>4
<1>7. Runs(gs, t)
  BY <1>5, <1>6 DEF Runs
<1>8. QED
  BY <1>3, <1>4, <1>7

-----------------------------------------------------------------------------

DecodedFirst ==
  \A i \in 1..Len(decoded) :
    /\ decoded[i] = i
    /\ i \in 1..Len(frames)
    /\ frames[i].valid /\ frames[i].size <= MaxFrameBytes

InStep ==
  /\ Begins(Len(decoded), Pending)
  /\ Runs(frames, Pending)
  /\ writer = "open" => Ends(frames, Len(decoded), Pending)

PrefixInv ==
  Faithful =>
    /\ decoded \in Seq(Nat) /\ DecodedFirst
    /\ reader = "reading" => InStep

LEMMA SmallRemainder ==
  ASSUME NEW a \in Nat, NEW b \in Nat \ {0}, a < b
  PROVE  a % b = a
OBVIOUS

\* A reader in step reads the length of the next frame, and its payload.
LEMMA NextFrame ==
  ASSUME FramingInv, Faithful, decoded \in Seq(Nat), InStep, Len(buffer) >= HeaderBytes,
         NEW i, i = Len(decoded) + 1
  PROVE  /\ i \in 1..Len(frames) /\ Declared = {frames[i].size}
         /\ Whole(frames[i].size) =>
              FrameOf(SubSeq(buffer, HeaderBytes + 1, HeaderBytes + frames[i].size)) = i
<1> DEFINE n == Len(frames)  s == Pending  size == frames[i].size  d == Len(decoded)
<1>1. /\ n \in Nat /\ buffer \in Seq(ByteOf(n)) /\ wire \in Seq(ByteOf(n))
      /\ frames \in Seq(Frame) /\ i \in Nat
  BY DEF FramingInv, FramingType, Frame
<1>2. /\ s \in Seq(ByteOf(n)) /\ Len(s) \in Nat /\ Len(buffer) \in Nat /\ Len(buffer) <= Len(s)
      /\ \A k \in 1..Len(buffer) : s[k] = buffer[k]
  BY <1>1 DEF Pending
<1>a. Begins(d, s) /\ Runs(frames, s) /\ d \in Nat /\ i = d + 1
  BY DEF InStep
<1> HIDE DEF n, s, d
<1>3. buffer[1] = << i, 1 >> /\ i \in 1..n
  <2>1. 1 \in 1..Len(buffer) /\ s # << >>
    BY <1>1, <1>2 DEF HeaderBytes
  <2>2. buffer[1] = << i, 1 >>
    BY <1>2, <1>a, <2>1 DEF Begins
  <2>3. buffer[1][1] \in 1..n
    BY <1>1, <2>1, ByteType
  <2> QED BY <2>2, <2>3
<1>4. size \in Nat /\ Span(frames, i) = HeaderBytes + size
  BY <1>1, <1>3, SpanType DEF Span, n
<1>5. ASSUME NEW k \in 1..Len(buffer), k <= HeaderBytes + size PROVE buffer[k] = << i, k >>
  <2>1. k \in 1..Len(s) /\ s[k] = buffer[k]
    BY <1>2
  <2>2. k <= Span(frames, d + 1)
    BY <1>4, <1>5, <1>a
  <2>3. s[k] = << d + 1, k >>
    BY <1>1, <1>2, <1>a, <2>1, <2>2, FirstFrame
  <2> QED BY <1>a, <2>1, <2>3
<1>6. Declared = {size}
  <2>1. \A k \in 1..HeaderBytes : buffer[k] = << i, k >>
    <3> TAKE k \in 1..HeaderBytes
    <3>1. k \in 1..Len(buffer) /\ k <= HeaderBytes + size
      BY <1>1, <1>4 DEF HeaderBytes
    <3> QED BY <1>5, <3>1
  <2>2. buffer[1][1] = i
    BY <1>3
  <2>3. size < LengthModulus /\ LengthModulus \in Nat \ {0}
    BY <1>1, <1>3, FramingAssumption DEF Faithful, n
  <2>4. size % LengthModulus = size
    BY <1>4, <2>3, SmallRemainder
  <2> QED BY <2>1, <2>2, <2>4 DEF Declared
<1>7. ASSUME Whole(size)
      PROVE  FrameOf(SubSeq(buffer, HeaderBytes + 1, HeaderBytes + size)) = i
  <2> DEFINE bytes == SubSeq(buffer, HeaderBytes + 1, HeaderBytes + size)
  <2>1. /\ bytes \in Seq(ByteOf(n)) /\ Len(bytes) = size
        /\ \A k \in 1..size : bytes[k] = buffer[HeaderBytes + k]
    <3>1. HeaderBytes \in Nat /\ HeaderBytes + size <= Len(buffer)
      BY <1>2, <1>4, <1>7 DEF Whole, HeaderBytes
    <3>2. \A a, b \in Nat : a + b <= Len(buffer) =>
            /\ SubSeq(buffer, a + 1, a + b) \in Seq(ByteOf(n))
            /\ Len(SubSeq(buffer, a + 1, a + b)) = b
            /\ \A k \in 1..b : SubSeq(buffer, a + 1, a + b)[k] = buffer[a + k]
      BY <1>1, MiddlePart
    <3> QED BY <1>4, <3>1, <3>2
  <2> HIDE DEF bytes
  <2>2. \A k \in 1..size : bytes[k] = << i, HeaderBytes + k >>
    <3> TAKE k \in 1..size
    <3>1. HeaderBytes + k \in 1..Len(buffer) /\ HeaderBytes + k <= HeaderBytes + size
      BY <1>1, <1>4, <1>7 DEF Whole, HeaderBytes
    <3> QED BY <1>5, <2>1, <3>1
  <2>3. bytes = Payload(i)
    <3>1. bytes = [k \in 1..size |-> bytes[k]]
      BY <2>1
    <3> QED BY <2>2, <3>1 DEF Payload
  <2>4. (IF bytes = << >> THEN buffer[1][1] ELSE bytes[1][1]) = i
    <3>1. buffer[1][1] = i
      BY <1>3
    <3>2. ASSUME bytes # << >> PROVE bytes[1][1] = i
      <4>1. 1 \in 1..size
        BY <1>4, <2>1, <3>2
      <4>2. bytes[1] = << i, HeaderBytes + 1 >>
        BY <2>2, <4>1
      <4> QED BY <4>2
    <3> QED BY <3>1, <3>2
  <2>5. FrameOf(bytes) = i
    BY <2>3, <2>4 DEF FrameOf
  <2> QED BY <2>5 DEF bytes
<1>8. QED
  BY <1>3, <1>6, <1>7 DEF n

LEMMA EncodeKeepsPrefix ==
  ASSUME FramingInv, PrefixInv, NEW size \in Size, NEW valid \in BOOLEAN, Encode(size, valid)
  PROVE  PrefixInv'
<1> SUFFICES ASSUME Faithful' PROVE PrefixInv'
  BY DEF PrefixInv
<1> DEFINE n == Len(frames)  f == [size |-> size, valid |-> valid]
<1>1. /\ n \in Nat /\ frames \in Seq(Frame) /\ size \in Nat /\ f \in Frame
      /\ buffer \in Seq(ByteOf(n)) /\ wire \in Seq(ByteOf(n))
  BY FramingAssumption DEF FramingInv, FramingType, Frame
<1>2. /\ frames' = Append(frames, f) /\ wire' = wire \o FrameBytes(n + 1, size)
      /\ UNCHANGED << buffer, decoded, reader, writer >> /\ writer = "open"
  BY DEF Encode
<1> HIDE DEF f, n
<1>3. Len(frames) = n /\ Len(frames') = n + 1 /\ frames'[n + 1] = f /\ \A i \in 1..n : frames'[i] = frames[i]
  BY <1>1, <1>2 DEF n
<1>4. Faithful
  <2>1. \A i \in 1..n : i \in DOMAIN frames' /\ frames'[i] = frames[i]
    BY <1>1, <1>2, <1>3
  <2> QED BY <1>1, <1>3, <2>1 DEF Faithful
<1>5. decoded \in Seq(Nat) /\ DecodedFirst'
  BY <1>1, <1>2, <1>3, <1>4 DEF PrefixInv, DecodedFirst
<1>6. ASSUME reader = "reading" PROVE InStep'
  <2> DEFINE s == Pending  t == Pending'  p == Len(s)  w == HeaderBytes + size  d == Len(decoded)
  <2>1. s \in Seq(ByteOf(n)) /\ p \in Nat /\ w \in Nat /\ w > 0 /\ d \in Nat
    BY <1>1, <1>5 DEF Pending, HeaderBytes
  <2>2. /\ Len(t) = p + w /\ \A j \in 1..p : t[j] = s[j]
        /\ \A k \in 1..w : t[p + k] = << n + 1, k >>
    <3> DEFINE u == FrameBytes(n + 1, size)
    <3>1. u \in Seq((1..(n + 1)) \X Nat) /\ Len(u) = w /\ \A k \in 1..w : u[k] = << n + 1, k >>
      BY <1>1 DEF FrameBytes, HeaderBytes
    <3> HIDE DEF u
    <3>2. /\ u \in Seq(ByteOf(n + 1)) /\ s \in Seq(ByteOf(n + 1))
          /\ buffer \in Seq(ByteOf(n + 1)) /\ wire \in Seq(ByteOf(n + 1))
      <4>1. u \in Seq(ByteOf(n + 1))
        BY <3>1 DEF ByteOf
      <4>2. \A x \in Seq(ByteOf(n)) : x \in Seq(ByteOf(n + 1))
        <5>1. n + 1 \in Nat /\ n <= n + 1
          BY <1>1
        <5> QED BY <1>1, <5>1, MoreBytes
      <4> QED BY <1>1, <2>1, <4>1, <4>2
    <3>3. t = buffer \o (wire \o u) /\ s = buffer \o wire
      BY <1>2 DEF Pending, u
    <3> HIDE DEF s, t
    <3>4. t = s \o u
      BY <3>2, <3>3, ConcatAssociates
    <3>5. Len(s) = p
      BY DEF p
    <3> HIDE DEF p, w
    <3>6. /\ Len(t) = p + Len(u) /\ \A j \in 1..p : t[j] = s[j]
          /\ \A k \in 1..Len(u) : t[p + k] = u[k]
      <4>1. /\ Len(s \o u) = Len(s) + Len(u)
            /\ \A j \in 1..Len(s) : (s \o u)[j] = s[j]
            /\ \A k \in 1..Len(u) : (s \o u)[Len(s) + k] = u[k]
        BY <3>2, ConcatParts
      <4> QED BY <3>4, <3>5, <4>1
    <3> QED BY <3>1, <3>6
  <2>3. /\ Span(frames', n + 1) = w
        /\ \A i \in 1..n : Span(frames', i) = Span(frames, i)
    BY <1>1, <1>3 DEF Span, f
  <2>4. Runs(frames, s) /\ Begins(d, s) /\ Ends(frames, d, s)
    BY <1>2, <1>4, <1>6 DEF PrefixInv, InStep
  <2>5. p = Len(s) /\ n = Len(frames) /\ s \in Seq(ByteOf(Len(frames)))
    BY <1>3, <2>1
  <2> HIDE DEF s, t, p, w, d
  <2>6. Runs(frames', t) /\ Begins(d, t) /\ Ends(frames', d, t)
    <3> DEFINE gs == frames'
    <3>1. /\ gs = frames' /\ Len(gs) = n + 1 /\ Span(gs, n + 1) = w
          /\ \A i \in 1..n : Span(gs, i) = Span(frames, i)
      BY <1>3, <2>3
    <3> HIDE DEF gs
    <3>2. Runs(gs, t) /\ Begins(d, t) /\ Ends(gs, d, t)
      <4>1. Grown(frames, gs, s, t, w)
        BY <2>2, <2>5, <3>1 DEF Grown
      <4> QED BY <1>1, <2>1, <2>4, <2>5, <4>1, AppendedRuns
    <3> QED BY <3>1, <3>2
  <2> QED BY <1>2, <2>6 DEF InStep, t, d
<1>7. QED
  BY <1>2, <1>5, <1>6 DEF PrefixInv

LEMMA DecodeKeepsPrefix ==
  ASSUME FramingInv, PrefixInv, Decode
  PROVE  PrefixInv'
<1> SUFFICES ASSUME Faithful PROVE PrefixInv'
  BY DEF Decode, PrefixInv, Faithful
<1> DEFINE i == Len(decoded) + 1
<1>1. /\ reader = "reading" /\ Len(buffer) >= HeaderBytes
      /\ UNCHANGED << frames, wire, writer >>
      /\ decoded \in Seq(Nat) /\ DecodedFirst /\ InStep
  BY DEF Decode, PrefixInv
<1>2. i \in 1..Len(frames) /\ Declared = {frames[i].size}
  BY <1>1, NextFrame
<1>3. /\ ~TooLarge(frames[i].size) /\ Whole(frames[i].size)
      /\ buffer' = SubSeq(buffer, HeaderBytes + frames[i].size + 1, Len(buffer))
      /\ LET k == FrameOf(SubSeq(buffer, HeaderBytes + 1, HeaderBytes + frames[i].size))
         IN  \/ /\ k > 0 => frames[k].valid
                /\ decoded' = Append(decoded, k)
                /\ UNCHANGED reader
             \/ reader' = "failed" /\ UNCHANGED decoded
  BY <1>2 DEF Decode
<1>4. FrameOf(SubSeq(buffer, HeaderBytes + 1, HeaderBytes + frames[i].size)) = i
  BY <1>1, <1>3, NextFrame
<1>5. CASE reader' = "failed" /\ UNCHANGED decoded
  BY <1>1, <1>5 DEF PrefixInv, DecodedFirst
<1>6. CASE decoded' = Append(decoded, i) /\ UNCHANGED reader /\ frames[i].valid
  <2> DEFINE n == Len(frames)  s == Pending  w == Span(frames, i)  t == Pending'  d == Len(decoded)
  <2>1. /\ n \in Nat /\ buffer \in Seq(ByteOf(n)) /\ wire \in Seq(ByteOf(n))
        /\ frames \in Seq(Frame) /\ d \in Nat /\ i = d + 1
    BY <1>1 DEF FramingInv, FramingType, Frame
  <2>2. frames[i].size \in Nat /\ w = HeaderBytes + frames[i].size /\ w \in Nat
    BY <1>2, <2>1, SpanType DEF Span, HeaderBytes
  <2>3. w \in 0..Len(buffer) /\ buffer' = SubSeq(buffer, w + 1, Len(buffer))
    <3>1. Len(buffer) >= w /\ buffer' = SubSeq(buffer, w + 1, Len(buffer))
      BY <1>3, <2>2 DEF Whole
    <3> HIDE DEF w
    <3> QED BY <2>1, <2>2, <3>1
  <2>4. DecodedFirst' /\ decoded' \in Seq(Nat) /\ Len(decoded') = d + 1
    <3>1. /\ decoded' \in Seq(Nat) /\ Len(decoded') = d + 1 /\ decoded'[i] = i
          /\ \A j \in 1..d : decoded'[j] = decoded[j]
      BY <1>1, <1>6, <2>1
    <3>2. frames[i].size <= MaxFrameBytes
      BY <1>3, <2>2, FramingAssumption DEF TooLarge
    <3>3. \A j \in 1..Len(decoded') : j \in 1..d \/ j = i
      BY <2>1, <3>1
    <3> QED BY <1>1, <1>2, <1>6, <3>1, <3>2, <3>3 DEF DecodedFirst
  <2>5. /\ s \in Seq(ByteOf(n)) /\ w <= Len(s) /\ Len(t) = Len(s) - w
        /\ (Len(t) = 0 <=> t = << >>) /\ \A j \in 1..Len(t) : t[j] = s[w + j]
    <3>1. /\ buffer' \in Seq(ByteOf(n)) /\ Len(buffer') = Len(buffer) - w
          /\ \A j \in 1..(Len(buffer) - w) : buffer'[j] = buffer[w + j]
      BY <2>1, <2>3, TailPart
    <3>2. t = buffer' \o wire /\ s = buffer \o wire
      BY <1>1 DEF Pending
    <3> HIDE DEF s, t, w, n
    <3> DEFINE b == buffer'
    <3> HIDE DEF b
    <3>a. b = buffer' /\ t = b \o wire /\ b \in Seq(ByteOf(n))
      BY <3>1, <3>2 DEF b
    <3>b. b \o wire \in Seq(ByteOf(n)) /\ buffer \o wire \in Seq(ByteOf(n))
      BY <2>1, <3>a
    <3>3. /\ s \in Seq(ByteOf(n)) /\ t \in Seq(ByteOf(n))
          /\ Len(s) = Len(buffer) + Len(wire) /\ Len(t) = Len(buffer') + Len(wire)
          /\ \A j \in 1..Len(buffer) : s[j] = buffer[j]
          /\ \A j \in 1..Len(wire) : s[Len(buffer) + j] = wire[j]
          /\ \A j \in 1..Len(buffer') : t[j] = buffer'[j]
          /\ \A j \in 1..Len(wire) : t[Len(buffer') + j] = wire[j]
      BY <2>1, <3>2, <3>a, <3>b, ConcatParts
    <3>4. Len(buffer) \in Nat /\ Len(wire) \in Nat /\ w \in Nat /\ w <= Len(buffer)
      BY <2>1, <2>2, <2>3
    <3>5. w <= Len(s) /\ Len(t) = Len(s) - w
      BY <3>1, <3>3, <3>4
    <3>6. ASSUME NEW j \in 1..Len(t) PROVE t[j] = s[w + j]
      <4>1. CASE j <= Len(buffer')
        <5>1. j \in 1..Len(buffer') /\ j \in 1..(Len(buffer) - w) /\ w + j \in 1..Len(buffer)
          BY <3>1, <3>3, <3>4, <4>1
        <5> QED BY <3>1, <3>3, <5>1
      <4>2. CASE j > Len(buffer')
        <5>1. j - Len(buffer') \in 1..Len(wire) /\ Len(buffer') + (j - Len(buffer')) = j
              /\ Len(buffer) + (j - Len(buffer')) = w + j
          BY <3>1, <3>3, <3>4, <4>2
        <5> QED BY <3>3, <5>1
      <4> QED BY <3>1, <3>3, <3>4, <4>1, <4>2
    <3>7. Len(t) = 0 <=> t = << >>
      BY <3>3
    <3> QED BY <3>3, <3>5, <3>6, <3>7
  <2>6. Runs(frames, s) /\ Begins(d, s) /\ (writer = "open" => Ends(frames, d, s))
    BY <1>1 DEF InStep
  <2> HIDE DEF s, t
  <2>7. Runs(frames, t) /\ Begins(d + 1, t) /\ (writer = "open" => Ends(frames, d + 1, t))
    BY <1>2, <2>1, <2>5, <2>6, DecodedRuns
  <2>8. InStep'
    BY <1>1, <2>4, <2>7 DEF InStep, t
  <2> QED BY <2>4, <2>8 DEF PrefixInv
<1>7. QED
  BY <1>2, <1>3, <1>4, <1>5, <1>6

LEMMA PrefixStep == FramingInv /\ PrefixInv /\ [FramingNext]_framingVars => PrefixInv'
<1> SUFFICES ASSUME FramingInv, PrefixInv, [FramingNext]_framingVars PROVE PrefixInv'
  OBVIOUS
<1>1. CASE \E size \in Size, valid \in BOOLEAN : Encode(size, valid)
  BY <1>1, EncodeKeepsPrefix
<1>2. CASE Decode
  BY <1>2, DecodeKeepsPrefix
<1>3. ASSUME NEW n \in 1..ReadCapacity, Read(n) PROVE PrefixInv'
  <2>1. /\ buffer \in Seq(ByteOf(Len(frames))) /\ wire \in Seq(ByteOf(Len(frames)))
        /\ n \in 0..Len(wire)
    BY <1>3, FramingAssumption DEF FramingInv, FramingType, Read
  <2>2. /\ buffer' = buffer \o SubSeq(wire, 1, n) /\ wire' = SubSeq(wire, n + 1, Len(wire))
        /\ UNCHANGED << frames, decoded, reader, writer >>
    BY <1>3 DEF Read
  <2>3. Pending' = Pending
    <3>1. /\ SubSeq(wire, 1, n) \in Seq(ByteOf(Len(frames)))
          /\ SubSeq(wire, n + 1, Len(wire)) \in Seq(ByteOf(Len(frames)))
          /\ SubSeq(wire, 1, n) \o SubSeq(wire, n + 1, Len(wire)) = wire
      BY <2>1, SplitSequence
    <3> DEFINE x == SubSeq(wire, 1, n)  y == SubSeq(wire, n + 1, Len(wire))
    <3> HIDE DEF x, y
    <3>2. buffer \o (x \o y) = (buffer \o x) \o y
      <4>1. x \in Seq(ByteOf(Len(frames))) /\ y \in Seq(ByteOf(Len(frames)))
        BY <3>1 DEF x, y
      <4> QED BY <2>1, <4>1, ConcatAssociates
    <3>3. Pending' = (buffer \o x) \o y /\ x \o y = wire
      BY <2>2, <3>1 DEF Pending, x, y
    <3> QED BY <3>2, <3>3 DEF Pending
  <2> QED BY <2>2, <2>3 DEF PrefixInv, Faithful, DecodedFirst, InStep
<1>4. ASSUME NEW kept \in 0..Len(wire), CloseStream(kept) PROVE PrefixInv'
  <2> SUFFICES ASSUME Faithful PROVE PrefixInv'
    BY <1>4 DEF CloseStream, PrefixInv, Faithful
  <2> DEFINE s == Pending  n == Len(frames)  d == Len(decoded)
  <2>1. /\ buffer \in Seq(ByteOf(n)) /\ wire \in Seq(ByteOf(n)) /\ frames \in Seq(Frame)
        /\ decoded \in Seq(Nat) /\ d \in Nat /\ n \in Nat
    BY DEF FramingInv, FramingType, Frame, PrefixInv
  <2>2. /\ wire' = SubSeq(wire, 1, kept) /\ writer' = "closed"
        /\ UNCHANGED << frames, buffer, decoded, reader >>
    BY <1>4 DEF CloseStream
  <2>3. ASSUME reader = "reading" PROVE InStep'
    <3>1. s \in Seq(ByteOf(n)) /\ Len(buffer) + kept \in 0..Len(s)
      BY <2>1 DEF Pending
    <3>2. Pending' = SubSeq(s, 1, Len(buffer) + kept)
      BY <2>1, <2>2, CutConcat DEF Pending
    <3>3. Begins(d, s) /\ Runs(frames, s)
      BY <2>3 DEF PrefixInv, InStep
    <3> HIDE DEF s
    <3>4. /\ Runs(frames, SubSeq(s, 1, Len(buffer) + kept))
          /\ Begins(d, SubSeq(s, 1, Len(buffer) + kept))
      BY <2>1, <3>1, <3>3, CutRuns
    <3> QED BY <2>2, <3>2, <3>4 DEF InStep
  <2> QED BY <2>2, <2>3 DEF PrefixInv, DecodedFirst
<1>5. CASE FrameTooLarge \/ EndOfStream
  BY <1>5 DEF FrameTooLarge, EndOfStream, PrefixInv, Faithful, DecodedFirst, InStep, Pending
<1>6. CASE UNCHANGED framingVars
  BY <1>6 DEF framingVars, PrefixInv, Faithful, DecodedFirst, InStep, Pending
<1>7. QED
  BY <1>1, <1>2, <1>3, <1>4, <1>5, <1>6 DEF FramingNext

LEMMA PrefixIsTheProperty == FramingInv /\ PrefixInv => DecodedArePrefix
<1> SUFFICES ASSUME FramingInv, PrefixInv, Faithful PROVE DecodedArePrefix
  BY DEF DecodedArePrefix
<1> DEFINE s == Pending  n == Len(frames)
<1>1. /\ s \in Seq(ByteOf(n)) /\ frames \in Seq(Frame) /\ n \in Nat
      /\ decoded \in Seq(Nat) /\ DOMAIN frames = 1..n /\ DOMAIN decoded = 1..Len(decoded)
  BY DEF FramingInv, FramingType, Frame, PrefixInv, Pending
<1>2. \A i \in DOMAIN decoded :
        /\ decoded[i] = i /\ i \in DOMAIN frames
        /\ frames[i].valid /\ frames[i].size <= MaxFrameBytes
  BY <1>1 DEF PrefixInv, DecodedFirst
<1>3. ASSUME reader = "reading"
      PROVE  /\ s # << >> => s[1] = << Len(decoded) + 1, 1 >>
             /\ writer = "open" =>
                  IF s = << >> THEN Len(decoded) = n ELSE s[Len(s)] = << n, Width(n) >>
  BY <1>3 DEF PrefixInv, InStep, Begins, Ends, Span, Width
<1>4. ASSUME reader = "reading", NEW j \in 1..(Len(s) - 1) PROVE s[j + 1] = After(s[j])
  <2> DEFINE i == s[j][1]  k == s[j][2]  span == Span(frames, i)
  <2>1. j \in 1..Len(s) /\ 1 \in 0..Len(s) /\ j + 1 <= Len(s)
    BY <1>1
  <2>2. i \in 1..n /\ k \in Nat
    BY <1>1, <2>1, ByteType
  <2>3. span \in Nat /\ Width(i) = span
    BY <1>1, <2>2, SpanType DEF Span, Width
  <2>4. /\ k \in 1..span
        /\ k + 1 <= span => s[j + 1] = << i, k + 1 >>
        /\ k + 1 = span + 1 => s[j + 1] = << i + 1, 1 >>
    BY <1>4, <2>1 DEF PrefixInv, InStep, Runs
  <2> HIDE DEF span
  <2>5. CASE k < Width(i)
    BY <2>2, <2>3, <2>4, <2>5 DEF After
  <2>6. CASE ~(k < Width(i))
    <3>1. k + 1 = span + 1
      BY <2>2, <2>3, <2>4, <2>6
    <3> QED BY <2>4, <2>6, <3>1 DEF After
  <2> QED BY <2>5, <2>6
<1>5. QED
  BY <1>2, <1>3, <1>4 DEF DecodedArePrefix

-----------------------------------------------------------------------------

\* However the stream is cut, for every limit, width of the length field and size
\* of the reads: the frames decoded are the first ones encoded, in order, and the
\* reader stays in step with the bytes that are left (codec.rs:26, 38, 49-76).
THEOREM DecodesInOrder == FramingSpec => []DecodedArePrefix
<1>1. FramingInit => FramingInv /\ PrefixInv
  <2> SUFFICES ASSUME FramingInit PROVE FramingInv /\ PrefixInv
    OBVIOUS
  <2>1. FramingInv
    BY FramingAssumption DEF FramingInit, FramingInv, FramingType, BufferBounded, HeaderBytes
  <2>2. Pending = << >> /\ Len(Pending) = 0 /\ decoded \in Seq(Nat) /\ Len(decoded) = 0 /\ Len(frames) = 0
    BY DEF FramingInit, Pending
  <2>3. PrefixInv
    BY <2>2 DEF PrefixInv, DecodedFirst, InStep, Begins, Runs, Ends
  <2> QED BY <2>1, <2>3
<1>2. FramingInv /\ PrefixInv /\ [FramingNext]_framingVars => FramingInv' /\ PrefixInv'
  BY FramingStep, PrefixStep
<1>3. FramingInv /\ PrefixInv => DecodedArePrefix
  BY PrefixIsTheProperty
<1>4. QED
  BY <1>1, <1>2, <1>3, PTL DEF FramingSpec

=============================================================================
