------------------------------- MODULE Conversion -------------------------------
(***************************************************************************)
(* From SAPIENT messages to what Peat keeps of them: the pure functions of *)
(* peat-sapient/src/transform, and route_message of bridge.rs.             *)
(*                                                                         *)
(* A message is a record whose fields may be missing where the protocol    *)
(* lets them. A measure is the unit its number is in, so that a conversion *)
(* is right or wrong; where things are is a Place. What may fail returns a *)
(* set of at most one result. The bytes of the messages, the texts and the *)
(* JSON bags are left out.                                                 *)
(***************************************************************************)
EXTENDS Integers

\* What the number of a coordinate means to its sender, by the values of
\* LocationCoordinateSystem and the two withdrawn ones.
AngleUnit == << "deg", "rad", "deg", "rad", "m" >>
HeightUnit == << "m", "m", "ft", "ft", "m" >>

\* ... and by those of RangeBearingCoordinateSystem.
BearingUnit == << "deg", "rad", "deg", "rad", "deg", "rad" >>
RangeUnit == << "m", "m", "km", "km", "ft", "ft" >>

ToDegrees(unit) == IF unit = "rad" THEN "deg" ELSE "wrong"
FeetToMetres(unit) == IF unit = "ft" THEN "m" ELSE "wrong"
KmToMetres(unit) == IF unit = "km" THEN "m" ELSE "wrong"

\* location_errors_to_m: an error in the unit of the coordinates.
ErrorsToMetres(unit, cs) ==
  CASE cs \in {1, 3} -> IF unit = "deg" THEN "m" ELSE "wrong"
    [] cs \in {2, 4} -> IF unit = "rad" THEN "m" ELSE "wrong"
    [] cs = 5 -> unit

\* location_to_track_position: y is the latitude and x the longitude, except
\* in UTM, where both take both and the zone.
LocationToTrackPosition(loc) ==
  LET cs == loc.cs
      angle == CASE cs \in {1, 3} -> AngleUnit[cs]
                 [] cs \in {2, 4} -> ToDegrees(AngleUnit[cs])
                 [] cs = 5 -> IF AngleUnit[cs] = "m" THEN "deg" ELSE "wrong"
      height == IF cs \in {3, 4} THEN FeetToMetres(HeightUnit[cs]) ELSE HeightUnit[cs]
  IN  IF loc.x /\ loc.y /\ cs \in 1..5 /\ (cs = 5 => loc.zone = "valid")
        THEN {[at |-> loc.at, latitude |-> angle, longitude |-> angle, altitude |-> height,
               z |-> loc.z, cep_m |-> ErrorsToMetres(AngleUnit[cs], cs)]}
        ELSE {}

\* normalize_rb: the range in metres, the angles in degrees. An elevation that is
\* missing is level.
NormalizeRb(rb) ==
  LET cs == rb.cs
      angle == IF cs \in {2, 4, 6} THEN ToDegrees(BearingUnit[cs]) ELSE BearingUnit[cs]
  IN  IF rb.range /\ rb.azimuth /\ cs \in 1..6
        THEN {[range |-> CASE cs \in {1, 2} -> RangeUnit[cs]
                           [] cs \in {3, 4} -> KmToMetres(RangeUnit[cs])
                           [] cs \in {5, 6} -> FeetToMetres(RangeUnit[cs]),
               azimuth |-> angle, elevation |-> IF rb.elevation THEN angle ELSE "level"]}
        ELSE {}

\* range_bearing_to_track_position: an offset in metres from the sensor, and from
\* its height if the bearing is not level.
RangeBearingToTrackPosition(rb, sensor) ==
  LET Along(r) == r.range = "m" /\ r.elevation \in {"deg", "level"}
      Offset(r, axis) == IF Along(r) /\ r.azimuth = "deg" THEN axis ELSE "wrong"
  IN  { [at |-> sensor.at,
         latitude |-> Offset(r, sensor.latitude), longitude |-> Offset(r, sensor.longitude),
         altitude |-> IF Along(r) THEN sensor.altitude ELSE "wrong",
         z |-> IF r.elevation = "level" THEN sensor.z ELSE "raised", cep_m |-> r.range]
        : r \in NormalizeRb(rb) }

\* from_detection_report: sensors is the position of the sensor, if known.
FromDetectionReport(msg, sensors) ==
  LET positions ==
        CASE msg.fix = "location" -> LocationToTrackPosition(msg.location)
          [] msg.fix = "bearing" -> UNION { RangeBearingToTrackPosition(msg.bearing, s) : s \in sensors }
          [] msg.fix = "none" -> {}
  IN  { [track_id |-> msg.object, position |-> p, class |-> msg.class, source |-> msg.node]
        : p \in positions }

Health == [Ok |-> "nominal", Warning |-> "degraded", Error |-> "critical",
           Goodbye |-> "failed", Unspecified |-> "unspecified"]

Operational == [Ok |-> "ready", Warning |-> "degraded", Error |-> "offline",
                Goodbye |-> "offline", Unspecified |-> "unspecified"]

Clamp(level) == IF level < 0 THEN 0 ELSE IF level > 100 THEN 100 ELSE level

\* location_to_position: fewer systems than a detection may use.
LocationToPosition(loc) ==
  IF loc.x /\ loc.y /\ loc.cs \in {1, 2}
    THEN LET angle == IF loc.cs = 2 THEN ToDegrees(AngleUnit[2]) ELSE AngleUnit[1]
         IN  {[at |-> loc.at, latitude |-> angle, longitude |-> angle, altitude |-> HeightUnit[loc.cs],
               z |-> loc.z]}
    ELSE {}

\* from_status_report: the state, and the change of capabilities it may carry.
FromStatusReport(msg) ==
  [state |-> [positions |-> UNION { LocationToPosition(loc) : loc \in msg.locations },
              fuel_minutes |-> Clamp(msg.level), health |-> Health[msg.system]],
   delta |-> IF msg.mode
               THEN {[node |-> msg.node, capabilities |-> {}, status |-> Operational[msg.system]]}
               ELSE {}]

\* from_registration: a node type this build does not know is left out.
FromRegistration(msg) ==
  [node |-> msg.node, capabilities |-> msg.types \ {"unknown"}, status |-> "ready"]

\* from_alert: a position that cannot be had is no error.
FromAlert(msg) ==
  [alert |-> msg.alert,
   positions |-> IF msg.fix = "location" THEN LocationToTrackPosition(msg.location) ELSE {}]

\* route_message, once the limiter has been asked about a detection.
RouteMessage(msg, sensors, allowed) ==
  CASE msg.content = "Registration" ->
         {[kind |-> "Registered", node |-> msg.node, advertisement |-> FromRegistration(msg)]}
    [] msg.content = "StatusReport" ->
         {[kind |-> "StatusUpdated", node |-> msg.node, report |-> FromStatusReport(msg)]}
    [] msg.content = "DetectionReport" /\ allowed ->
         { [kind |-> "Detected", node |-> msg.node, track |-> t] : t \in FromDetectionReport(msg, sensors) }
    [] msg.content = "Alert" ->
         {[kind |-> "Alerted", node |-> msg.node, event |-> FromAlert(msg)]}
    [] msg.content = "TaskAck" -> {[kind |-> "TaskAcknowledged", node |-> msg.node]}
    [] msg.content = "AlertAck" -> {[kind |-> "AlertAcknowledged", node |-> msg.node]}
    [] OTHER -> {[kind |-> "Ignored", node |-> msg.node]}

=============================================================================
