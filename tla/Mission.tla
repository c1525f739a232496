------------------------------- MODULE Mission -------------------------------
(***************************************************************************)
(* What the driver does about the mission: the Recorder of recorder.go,    *)
(* which turns switch events into a list of points and a state, and the    *)
(* WaypointController of waypoint.go, which drives along the points while  *)
(* the state is Run.  Positions are abstract: the rover is within          *)
(* TargetSize of a point when it stands at the same position.              *)
(***************************************************************************)
EXTENDS Integers, Sequences

CONSTANTS
    Positions,  \* where the rover may be
    NoFix,      \* the position before the first RMC sentence
    NoTarget    \* the demand that leaves every channel missing

ASSUME PositionAssumption == NoTarget \notin Positions \cup {NoFix}

VARIABLES
    state,      \* Recorder.State
    points,     \* Recorder.Points
    here,       \* Recorder.position
    fix,        \* Status.GPS.Latitude and Longitude
    waypoint,   \* WaypointController.waypoint
    demand      \* the point the last demand sent steers for, or NoTarget

mission == <<state, points, here, fix, waypoint, demand>>

Places == Positions \cup {NoFix}

MissionType ==
    /\ state \in {"Record", "Run"}
    /\ points \in Seq(Places)
    /\ here \in Places /\ fix \in Places
    /\ waypoint \in Nat \cup {-1}
    /\ demand \in Places \cup {NoTarget}

MissionInit ==
    /\ state = "Record"
    /\ points = <<>>
    /\ here = NoFix
    /\ fix = NoFix
    /\ waypoint = 0
    /\ demand = NoTarget

(* Recorder.Switch: the next state, and the points.                        *)
Clears(e) == e.code = "Hold" /\ e.position = 0
Marks(e) == ~Clears(e) /\ e.code = "Short" /\ e.position = 0 /\ state = "Record"
Starts(e) == e.code = "Down" /\ e.position = 2 /\ state = "Record"
(* Mutant of Pauses: pausing is left to a short release of position 2.     *)
Pauses_OnRelease(e) == e.code = "Short" /\ e.position = 2 /\ state = "Run"

Pauses(e) == e.code = "Down" /\ e.position = 1 /\ state = "Run"

NextState(e) ==
    IF Clears(e) \/ Pauses(e) THEN "Record" ELSE IF Starts(e) THEN "Run" ELSE state

NextPoints(e) ==
    IF Clears(e) THEN <<>> ELSE IF Marks(e) THEN Append(points, here) ELSE points

(* WaypointController.Event: a mission that ran to its end starts over.    *)
Restarted == IF waypoint < 0 THEN 0 ELSE waypoint

(* Driver.button(): the controller hears of a change of state only.        *)
SwitchEvent(e) ==
    /\ state' = NextState(e)
    /\ points' = NextPoints(e)
    /\ waypoint' = IF state' = "Run" /\ state # "Run" THEN Restarted ELSE waypoint
    /\ UNCHANGED <<here, fix, demand>>

(* Driver.rmc()                                                            *)
Locate(p) ==
    /\ fix' = p
    /\ UNCHANGED <<state, points, here, waypoint, demand>>

Ahead == waypoint >= 0 /\ waypoint < Len(points)
Target == points[waypoint + 1]
Arrived == fix = Target

(* Mutant of NextWaypoint: the mission goes round for ever.                *)
NextWaypoint_Loops ==
    IF ~Ahead THEN 0 ELSE IF Arrived THEN waypoint + 1 ELSE waypoint

NextWaypoint ==
    IF ~Ahead THEN -1 ELSE IF Arrived THEN waypoint + 1 ELSE waypoint

(* Mutant of Step: the demand does not ask for the state.                  *)
Step_Anyway ==
    /\ here' = fix
    /\ demand' = IF Ahead THEN Target ELSE NoTarget
    /\ waypoint' = IF state = "Run" THEN NextWaypoint ELSE waypoint
    /\ UNCHANGED <<state, points, fix>>

(* Driver.step() with WaypointController.Step                              *)
Step ==
    /\ here' = fix
    /\ demand' = IF state = "Run" /\ Ahead THEN Target ELSE NoTarget
    /\ waypoint' = IF state = "Run" THEN NextWaypoint ELSE waypoint
    /\ UNCHANGED <<state, points, fix>>
=============================================================================
