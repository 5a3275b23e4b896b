------------------------------- MODULE MCIngest -------------------------------
(* Instances of Ingest for TLC: two sensors, one of which may be claimed by   *)
(* both connections, and one object that is in the air or on the ground.      *)
EXTENDS Ingest

CONSTANTS a, b, drone

Blank ==
  [content |-> "", node |-> a, object |-> drone, class |-> "", fix |-> "none",
   location |-> [at |-> "here", x |-> TRUE, y |-> TRUE, z |-> "high", cs |-> 1, zone |-> "none"],
   bearing |-> [range |-> TRUE, azimuth |-> TRUE, elevation |-> FALSE, cs |-> 1],
   locations |-> {}, system |-> "Ok", level |-> 50, mode |-> FALSE,
   types |-> {"Radar", "unknown"}, alert |-> "intruder"]

At(place, z, cs) == [Blank.location EXCEPT !.at = place, !.z = z, !.cs = cs]

Registers(n) == [Blank EXCEPT !.content = "Registration", !.node = n]
Reports(system, mode, locations) ==
  [Blank EXCEPT !.content = "StatusReport", !.system = system, !.mode = mode,
                !.locations = locations]
Detects(location) ==
  [Blank EXCEPT !.content = "DetectionReport", !.class = "uav", !.fix = "location",
                !.location = location]
DetectsByBearing == [Blank EXCEPT !.content = "DetectionReport", !.fix = "bearing"]

MCMessage ==
  { Registers(a), Registers(b),
    Reports("Error", TRUE, {At("here", "high", 2)}), Reports("Warning", FALSE, {}),
    Detects(At("here", "high", 4)), Detects(At("there", "zero", 1)), Detects(At("here", "high", 5)) }

\* A sensor that says where it is and then what it sees, by its bearing.
BearingMessage == { Reports("Ok", FALSE, {At("here", "high", 1)}), DetectsByBearing }

=============================================================================
