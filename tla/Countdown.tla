----------------------------- MODULE Countdown -----------------------------
(***************************************************************************)
(* One single-shot timer of lib/timer.h, started and then ticked at the    *)
(* rate of the board's clock: start() converts milliseconds to ticks and   *)
(* keeps the low byte, which has to hold two special values as well.       *)
(***************************************************************************)
EXTENDS Timer

CONSTANTS
    Rates,      \* the values of HAL::TicksPerSecond
    Periods     \* the milliseconds timers are started with

VARIABLES
    rate,       \* HAL::TicksPerSecond of this build
    ms,         \* what the timer was started with
    remain,     \* Timer::_remain
    passed,     \* ticks since the start
    fired       \* tick() has returned true

vars == <<rate, ms, remain, passed, fired>>

Start(r, m) ==
    /\ rate = r /\ ms = m
    /\ remain = ToTicks(r, m)
    /\ passed = 0
    /\ fired = FALSE

Init == \E r \in Rates, m \in Periods : Start(r, m)

TickTimer ==
    /\ Running(remain)
    /\ fired' = Fires(remain)
    /\ remain' = Ticked(remain, Stopped)
    /\ passed' = passed + 1
    /\ UNCHANGED <<rate, ms>>

Spec == Init /\ [][TickTimer]_vars

(* A started timer runs until it fires, and it fires one tick after the    *)
(* time asked for, to the nearest tick.  "Need to count to at least half a *)
(* second" (roverif/main.cc:329) asks this of every rate that the          *)
(* assertion below that comment admits.                                    *)
Punctual ==
    /\ fired \/ Running(remain)
    /\ fired => LET late == (passed - 1) * 1000 - ms * rate
                IN  -500 <= late /\ late <= 500
=============================================================================
