----------------------------- MODULE MCGpsLink -----------------------------
(* GpsLink.tla for TLC: a course of which a field is empty, a whole one, a *)
(* fix, and a position with pairs of equal digits and the checksum 5C.     *)
EXTENDS GpsLink

(* "GPVTG,,T,,M,0,N,0,K,N" *)
NoCourse ==
    VTG \o
    <<44, 44, 84, 44, 44, 77, 44, 48, 44, 78, 44, 48, 44, 75, 44, 78>>

(* "GPVTG,9,T,,M,5,N,9,K,A" *)
Course ==
    VTG \o
    <<44, 57, 44, 84, 44, 44, 77, 44, 53, 44, 78, 44, 57, 44, 75, 44,
    65>>

(* "GPGGA,1,2,N,3,W,1,9,1,4" *)
Fix ==
    GGA \o
    <<44, 49, 44, 50, 44, 78, 44, 51, 44, 87, 44, 49, 44, 57, 44, 49,
    44, 52>>

(* "GPRMC,14,A,33,N,44,W,28,6,7,,,A" *)
Place ==
    RMC \o
    <<44, 49, 52, 44, 65, 44, 51, 51, 44, 78, 44, 52, 52, 44, 87, 44,
    50, 56, 44, 54, 44, 55, 44, 44, 44, 65>>

MCTexts == {NoCourse, Course, Fix, Place}
=============================================================================
