----------------------------- MODULE Configuration -----------------------------
(***************************************************************************)
(* The settings of peat-sapient-bridge: config.rs, what main.rs makes of   *)
(* them, and the TLS configurations of peat-sapient/src/connection.rs.     *)
(*                                                                         *)
(* The command line and the file are functions on the settings they give,  *)
(* by the names of the flags. A certificate is its issuer and its name, a  *)
(* CA its name; what a path leads to may be unreadable. What may fail      *)
(* returns a set of at most one result.                                    *)
(***************************************************************************)
Setting(config, key, default) == IF key \in DOMAIN config THEN config[key] ELSE default

Given(config, key) == IF key \in DOMAIN config THEN {config[key]} ELSE {}

\* A slip used by the configurations: --sapient-listen only names an address.
RoleAsInFile(file, cli) ==
  IF "sapient_remote" \in DOMAIN cli THEN {"dlmm"}
  ELSE IF "role" \in DOMAIN file THEN {file["role"]}
  ELSE IF "sapient_listen" \in DOMAIN cli THEN {"hldmm"} ELSE {}

\* A flag that names an end says what role the bridge plays; --sapient-remote
\* is looked at last.
RoleOf(file, cli) ==
  IF "sapient_remote" \in DOMAIN cli THEN {"dlmm"}
  ELSE IF "sapient_listen" \in DOMAIN cli THEN {"hldmm"}
  ELSE Given(file, "role")

\* The settings a Config has: peers and tak_peer_id always, the others when the
\* file or a flag gives them.
Keys(file, cli) ==
  {"peers", "tak_peer_id"} \union { "role" : r \in RoleOf(file, cli) } \union DOMAIN file \union DOMAIN cli

\* Config::load: a flag overrides the file, but --peer adds to it, and
\* --tak-peer-id, which always has a value, only fills it in.
Load(file, cli) ==
  [key \in Keys(file, cli) |->
     CASE key = "peers" -> Setting(file, key, {}) \union Setting(cli, key, {})
       [] key = "role" -> CHOOSE r \in RoleOf(file, cli) : TRUE
       [] key = "tak_peer_id" -> Setting(file, key, Setting(cli, key, "tak-server-0"))
       [] OTHER -> IF key \in DOMAIN cli THEN cli[key] ELSE file[key]]

\* parse_peer: the id of a peer, if there is an @, thirty-two bytes in hex
\* before it and an address behind it.
ParsePeer(spec) ==
  IF spec.separator /\ spec.hex /\ spec.bytes = 32 /\ spec.address THEN {spec.id} ELSE {}

\* resolve_sapient_role.
ResolveSapientRole(config) ==
  LET role == Setting(config, "role", "hldmm")
  IN  CASE role = "hldmm" ->
             {[role |-> "hldmm", address |-> Setting(config, "sapient_listen", "0.0.0.0:12000")]}
        [] role = "dlmm" ->
             { [role |-> "dlmm", address |-> a, peer |-> Setting(config, "sapient_peer_id", "hldmm-0")]
               : a \in Given(config, "sapient_remote") }
        [] OTHER -> {}

UseTls(config) == Setting(config, "sapient_tls", FALSE)

\* A slip used by the configurations: clients are not asked for a certificate.
TlsServerForAnyone(cert, key, cas) ==
  IF cert.readable /\ key.readable /\ \A ca \in cas : ca.readable
    THEN {[cert |-> cert, cas |-> {}]} ELSE {}

\* SapientTlsConfig::server: with a CA, clients have to show a certificate.
TlsServer(cert, key, cas) ==
  IF cert.readable /\ key.readable /\ \A ca \in cas : ca.readable
    THEN {[cert |-> cert, cas |-> cas]} ELSE {}

\* SapientTlsConfig::client, with an identity.
TlsClient(ca, cert, key) ==
  IF ca.readable /\ cert.readable /\ key.readable THEN {[ca |-> ca, cert |-> cert]} ELSE {}

\* build_sapient_tls.
BuildSapientTls(config, role) ==
  UNION { CASE role = "hldmm" -> TlsServer(cert, key, Given(config, "sapient_ca_cert"))
            [] role = "dlmm" ->
                 UNION { TlsClient(ca, cert, key) : ca \in Given(config, "sapient_ca_cert") }
          : cert \in Given(config, "sapient_cert"), key \in Given(config, "sapient_key") }

\* The part of main that readies TAK: without a server there is none of it.
TakReady(config) ==
  "tak_server" \in DOMAIN config =>
    /\ Setting(config, "tak_tls", FALSE) => {"tak_cert", "tak_key"} \subseteq DOMAIN config
    /\ Setting(config, "tak_protocol", "protobuf-v1") \in {"raw-xml", "xml-tcp", "protobuf-v1"}

\* The library (external): the client accepts the server it meant to talk to ...
ServerVerified(client, serverName, server) ==
  /\ server.cert.issuer = client.ca.name
  /\ server.cert.name = serverName

\* ... and the server a client with a certificate of its CA.
ClientVerified(client, server) == \A ca \in server.cas : client.cert.issuer = ca.name

=============================================================================
