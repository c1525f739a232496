------------------------------- MODULE Timer -------------------------------
(***************************************************************************)
(* The countdown timer of lib/timer.h and lib/timer.cc.  A timer is one    *)
(* unsigned byte: the ticks that remain, or Stopped.  Time passes only     *)
(* when the owner ticks the timer, so a timer is a value and these are the *)
(* operations on it.                                                       *)
(***************************************************************************)
EXTENDS Integers

Stopped == 255
Reserved == 254

TimerValues == 0 .. 255

Running(remain) == remain < Reserved

(* What tick() returns: only the tick that finds a zero fires.             *)
Fires(remain) == remain = 0

(* Mutant of Ticked: a zero is counted down like any other value.          *)
Ticked_PastZero(remain, reload) ==
    IF remain >= Reserved THEN remain ELSE remain - 1

(* What tick() leaves behind; a single-shot timer has reload = Stopped.    *)
Ticked(remain, reload) ==
    CASE remain >= Reserved -> remain
      [] remain = 0         -> reload
      [] OTHER              -> remain - 1

(* Milliseconds to ticks, rounded to nearest and cut to the byte it is     *)
(* stored in.                                                              *)
ToTicks(ticksPerSecond, ms) == ((ticksPerSecond * ms + 500) \div 1000) % 256
=============================================================================
