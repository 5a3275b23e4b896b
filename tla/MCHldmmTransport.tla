---------------------------- MODULE MCHldmmTransport ----------------------------
(* The messages of a sensor that moves.                                       *)
EXTENDS HldmmTransport

CONSTANTS radar, drone

Blank ==
  [content |-> "", node |-> radar, object |-> drone, class |-> "", fix |-> "none",
   location |-> [at |-> "here", x |-> TRUE, y |-> TRUE, z |-> "high", cs |-> 1, zone |-> "none"],
   bearing |-> [range |-> TRUE, azimuth |-> TRUE, elevation |-> TRUE, cs |-> 6],
   locations |-> {}, system |-> "Ok", level |-> 50, mode |-> FALSE, types |-> {"Radar"}]

At(place, z, cs) == [Blank.location EXCEPT !.at = place, !.z = z, !.cs = cs]

ReportsFrom(location) == [Blank EXCEPT !.content = "StatusReport", !.locations = {location}]

MCMessage ==
  { [Blank EXCEPT !.content = "Task"],
    ReportsFrom(At("here", "high", 1)), ReportsFrom(At("there", "high", 2)),
    [Blank EXCEPT !.content = "DetectionReport", !.fix = "bearing"],
    [Blank EXCEPT !.content = "DetectionReport", !.fix = "location", !.class = "uav",
                  !.location = At("ground", "zero", 1)] }

=============================================================================
