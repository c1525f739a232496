--------------------------- MODULE MCPassthrough ---------------------------
(* Passthrough.tla for TLC: channel 0 has a servo, channel 5 has none but  *)
(* shares the interrupt.  The pulses are of 0.85 and 2.13 ms.  The         *)
(* overflow is served at once, or as late as a full deflection leaves time *)
(* for.                                                                    *)
EXTENDS Passthrough

MCLateness == {0, 51}
=============================================================================
