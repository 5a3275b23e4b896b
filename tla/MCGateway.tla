------------------------------- MODULE MCGateway -------------------------------
(***************************************************************************)
(* Two bridges: field dials and hq listens. Each is started with one of a  *)
(* few files and command lines: with TLS, with certificates of both sides  *)
(* or one, with the wrong CA, the wrong name or something missing, without *)
(* TLS, with a role that is unknown, or with TAK.                          *)
(***************************************************************************)
EXTENDS Gateway, TLC

CONSTANTS hq, field, relay, depot

Ca(n) == [readable |-> TRUE, name |-> n]
Cert(i, n) == [readable |-> TRUE, issuer |-> i, name |-> n]
Key == [readable |-> TRUE]
NoKey == [readable |-> FALSE]

Peer(n) == [separator |-> TRUE, hex |-> TRUE, bytes |-> 32, address |-> TRUE, id |-> n]
ShortPeer(n) == [separator |-> TRUE, hex |-> TRUE, bytes |-> 16, address |-> TRUE, id |-> n]

None == << >>

HqTls == "sapient_listen" :> "hq" @@ "sapient_cert" :> Cert("root", "hq") @@ "sapient_key" :> Key

\* TAK comes up, or its certificate was forgotten.
Tak == "tak_server" :> "tak" @@ "tak_protocol" :> "raw-xml"
TakWithoutCert == "tak_server" :> "tak" @@ "tak_tls" :> TRUE

MCHq ==
  { [file |-> "role" :> "dlmm" @@ "sapient_remote" :> "depot"
                @@ "peers" :> {ShortPeer(relay), Peer(relay), Peer(depot)},
     cli |-> "sapient_listen" :> "hq"],
    [file |-> HqTls @@ "sapient_tls" :> TRUE, cli |-> None],
    [file |-> HqTls @@ "sapient_tls" :> TRUE @@ "sapient_ca_cert" :> Ca("root"), cli |-> Tak],
    [file |-> "sapient_tls" :> TRUE @@ HqTls, cli |-> "sapient_tls" :> FALSE],
    [file |-> HqTls @@ "sapient_tls" :> TRUE, cli |-> "sapient_key" :> NoKey],
    [file |-> None, cli |-> TakWithoutCert] }

FieldTls == "sapient_cert" :> Cert("root", "field") @@ "sapient_key" :> Key

MCField ==
  { [file |-> "role" :> "hldmm" @@ "peers" :> {ShortPeer(depot)},
     cli |-> "sapient_remote" :> "hq" @@ "peers" :> {Peer(relay)}],
    [file |-> FieldTls @@ "sapient_ca_cert" :> Ca("other"),
     cli |-> "sapient_remote" :> "hq" @@ "sapient_tls" :> TRUE @@ "sapient_ca_cert" :> Ca("root")],
    [file |-> "sapient_cert" :> Cert("other", "field") @@ FieldTls @@ "sapient_ca_cert" :> Ca("root"),
     cli |-> "sapient_remote" :> "hq" @@ "sapient_tls" :> TRUE],
    [file |-> FieldTls @@ "sapient_ca_cert" :> Ca("other"),
     cli |-> "sapient_remote" :> "hq" @@ "sapient_tls" :> TRUE],
    [file |-> FieldTls @@ "sapient_ca_cert" :> Ca("root") @@ "sapient_server_name" :> "depot",
     cli |-> "sapient_remote" :> "hq" @@ "sapient_tls" :> TRUE],
    [file |-> FieldTls, cli |-> "sapient_remote" :> "hq" @@ "sapient_tls" :> TRUE],
    [file |-> "role" :> "manager", cli |-> None],
    [file |-> "role" :> "manager",
     cli |-> "sapient_listen" :> "field" @@ "sapient_remote" :> "hq"] }

MCSettings == hq :> MCHq @@ field :> MCField

=============================================================================
