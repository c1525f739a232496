---------------------------- MODULE MCBoardLink ----------------------------
(* BoardLink.tla for TLC.  Up go a Pong, a State, and a Counters report    *)
(* whose last byte needs an escape; without it, 10 reads as 42 and the sum *)
(* matches.  Down come a Request, and a Demand of which two bytes need an  *)
(* escape (steering 10, throttle 10); two Demands without the mark between *)
(* them overflow the buffer.                                               *)
EXTENDS BoardLink

MCFrames == {<<112>>, <<115, 5>>, <<99, 7, 9, 5, 10>>}

MCOrders == {<<82, 112>>, <<100, 1, 10, 128, 10, 128, 128, 128>>}
=============================================================================
