---------------------------- MODULE MCRoverLoop ----------------------------
(* RoverLoop.tla for TLC.  The switch has its three positions; the unset   *)
(* fix and one place besides are enough for the rover to be short of a     *)
(* point or at it, and two points for a mission to start, advance, end and *)
(* start over.                                                             *)
EXTENDS RoverLoop
=============================================================================
