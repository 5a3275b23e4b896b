------------------------------- MODULE MeshFields -------------------------------
(***************************************************************************)
(* What becomes of a track or a platform on the mesh                       *)
(* (peat-sapient/src/mesh_fields.rs): documents of flat fields, which the  *)
(* mesh (external) merges field by field, the last writer of a field       *)
(* winning. A document is a set of pairs, a name and its value, with one   *)
(* pair for a name.                                                        *)
(***************************************************************************)
NoFields == {}

\* What a document has under a name, at most one value.
Field(document, name) == { p[2] : p \in { q \in document : q[1] = name } }

\* A field that is written only when the condition holds.
When(condition, name, value) == IF condition THEN {<< name, value >>} ELSE {}

\* The merge of peat-mesh.
Merge(document, fields) == fields \union { p \in document : Field(fields, p[1]) = {} }

\* A slip used by the configurations: what is on the ground has no position.
PositionFieldsAloft(p) ==
  When(p.z # "zero", "lat", << p.at, p.latitude >>)
    \union When(p.z # "zero", "lon", << p.at, p.longitude >>)
    \union When(p.z # "zero", "hae", << p.z, p.altitude >>)

\* A height of zero is absent.
PositionFields(p) ==
  {<< "lat", << p.at, p.latitude >> >>, << "lon", << p.at, p.longitude >> >>}
    \union When(p.z # "zero", "hae", << p.z, p.altitude >>)

\* track_to_fields; last_seen is never set by the transform.
TrackToFields(track) ==
  PositionFields(track.position)
    \union When(track.class # "", "sapient_classification", track.class)
    \union When(track.source # "", "sapient_source_node_id", track.source)

\* The fields of the states a platform has said of itself, at most one.
StateFields(states) ==
  { << "health", s.health >> : s \in states }
    \union UNION { PositionFields(p) : p \in UNION { s.positions : s \in states } }

\* A slip used by the configurations: the status is written whatever it is.
PlatformToFieldsAlways(advertisement, states) ==
  When(advertisement.capabilities # {}, "capabilities", advertisement.capabilities)
    \union {<< "operational_status", advertisement.status >>} \union StateFields(states)

\* platform_to_fields: what is empty or unspecified is absent; the health and
\* the phase (which never changes) are not.
PlatformToFields(advertisement, states) ==
  When(advertisement.capabilities # {}, "capabilities", advertisement.capabilities)
    \union When(advertisement.status # "unspecified", "operational_status", advertisement.status)
    \union StateFields(states)

\* The document a status report is published as: what it does not change of
\* the capabilities is empty.
StatusToFields(node, report) ==
  LET advertisement == IF report.delta = {}
                         THEN [node |-> node, capabilities |-> {}, status |-> "unspecified"]
                         ELSE CHOOSE d \in report.delta : TRUE
  IN  PlatformToFields(advertisement, {report.state})

=============================================================================
