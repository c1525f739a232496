---------------------------- MODULE MCSupervisor ----------------------------
(* Supervisor.tla for TLC: a steering channel and the throttle; PWM widths *)
(* for a missing, an idle and a high channel; demands that leave a channel *)
(* out, hold it at Mid or move it.                                         *)
EXTENDS Supervisor

MCWidths == {-128, -70, 10}
MCDemands == {-128, 0, 40}
=============================================================================
