----------------------------- MODULE MCRoverIf -----------------------------
(* RoverIf.tla for TLC, with short periods and a counter of a few bits.    *)
EXTENDS RoverIf

(* Boards of 8, 12, 16 and 20 MHz, and the slowest and the fastest at      *)
(* which every period fits.                                                *)
FittingRates == {100, 122, 183, 244, 305, 506}

BoardPeriods == {50, 1000 \div 7, 500}

(* At these rates each period of the board's timers is a count that runs,  *)
(* within half a tick of the milliseconds asked for.                       *)
ASSUME PeriodsFit ==
    \A rate \in FittingRates, ms \in BoardPeriods :
        LET count == ToTicks(rate, ms)
        IN  /\ Running(count)
            /\ 1000 * count - ms * rate \in -500 .. 500
=============================================================================
