---------------------------- MODULE MCCountdown ----------------------------
(* Countdown.tla for TLC: the periods main.cc and supervisor.cc use, and   *)
(* the rates that init()'s assertions admit.                               *)
EXTENDS Countdown

(* TicksPerSecond >= 100 and TicksPerSecond <= 256*2                       *)
AssertedRates == 100 .. 512

BoardPeriods == {50, 1000 \div 7, 500}
=============================================================================
