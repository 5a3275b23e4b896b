------------------------------- MODULE Translator -------------------------------
(***************************************************************************)
(* SapientTranslator (peat-mesh-sapient/src/translator.rs): SAPIENT        *)
(* messages to documents of the mesh and back. A document here comes with  *)
(* its id. Its cache of sensor positions is the transport's variable.      *)
(***************************************************************************)
EXTENDS Conversion, MeshFields

\* collection_for of transport.rs.
CollectionFor(m) ==
  CASE m.content = "DetectionReport" -> "tracks"
    [] m.content \in {"Registration", "StatusReport"} -> "platforms"
    [] OTHER -> "none"

\* The position a message leaves in the cache, if any.
CachedFrom(m) ==
  IF m.content = "StatusReport" THEN FromStatusReport(m).state.positions ELSE {}

\* decode_inbound: sensors is what the cache holds for the node of the message.
DecodeInbound(m, sensors) ==
  CASE m.content = "Registration" ->
         {[id |-> m.node, fields |-> PlatformToFields(FromRegistration(m), {})]}
    [] m.content = "StatusReport" ->
         {[id |-> m.node, fields |-> StatusToFields(m.node, FromStatusReport(m))]}
    [] m.content = "DetectionReport" ->
         { [id |-> t.track_id, fields |-> TrackToFields(t)] : t \in FromDetectionReport(m, sensors) }
    [] OTHER -> {}

OrElse(value, default) == IF value = {} THEN {default} ELSE value

\* The heights a document has, at most one.
Heights(fields) == { hae[1] : hae \in Field(fields, "hae") }

\* The class of a detection that has none.
Unclassified == ""

\* The detection that passes a track on.
Detection(id, wireId, class, at, z) ==
  [content |-> "DetectionReport", node |-> wireId, object |-> id, fix |-> "location", class |-> class,
   location |-> [at |-> at, x |-> TRUE, y |-> TRUE, z |-> z, cs |-> 1, zone |-> "none"]]

\* A slip used by the configurations: a document without a height is left out.
EncodeAloft(id, fields, wireId) ==
  { Detection(id, wireId, class, lat[1], hae[1])
    : lat \in Field(fields, "lat"), lon \in Field(fields, "lon"), hae \in Field(fields, "hae"),
      class \in OrElse(Field(fields, "sapient_classification"), Unclassified) }

\* encode_outbound, for a document of tracks: a height that is missing is zero,
\* and the message is from whoever sends it on.
EncodeOutbound(id, fields, wireId) ==
  { Detection(id, wireId, class, lat[1], z)
    : lat \in Field(fields, "lat"), lon \in Field(fields, "lon"),
      z \in OrElse(Heights(fields), "zero"),
      class \in OrElse(Field(fields, "sapient_classification"), Unclassified) }

=============================================================================
