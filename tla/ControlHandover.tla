--------------------------- MODULE ControlHandover ---------------------------
(***************************************************************************)
(* What the board promises about control, without timers, frames or        *)
(* servos: the goals at the head of roverif/supervisor.cc.                 *)
(*                                                                         *)
(* Somebody drives or nobody does, and the throttle is armed or not.  A    *)
(* throttle that is not armed stands at neutral.  The pilot only ever      *)
(* takes over from a remote with an armed throttle, and the throttle is    *)
(* disarmed only by a hand-over, never while a driver keeps driving.       *)
(***************************************************************************)

VARIABLES
    driver,     \* "nobody", "remote" or "pilot"
    armed,      \* the throttle may leave neutral
    throttle    \* "neutral" or "open"

vars == <<driver, armed, throttle>>

(* Where the throttle may stand after a step that leaves `armed` so.       *)
Standing == throttle' \in (IF armed' THEN {"neutral", "open"} ELSE {"neutral"})

(* Throttle shutdown on start.                                             *)
Init == driver = "nobody" /\ ~armed /\ throttle = "neutral"

(* The remote is seen, with its throttle idle or not.                      *)
Appear ==
    /\ driver = "nobody" /\ driver' = "remote"
    /\ armed' \in BOOLEAN
    /\ Standing

(* Clear throttle shutdown by going to idle.                               *)
Arm ==
    /\ driver = "remote" /\ ~armed
    /\ armed' /\ UNCHANGED driver
    /\ Standing

(* Enter pilot mode immediately without shutdowns.                         *)
Engage ==
    /\ driver = "remote" /\ armed
    /\ driver' = "pilot" /\ UNCHANGED armed
    /\ Standing

(* Throttle shutdown when returning to remote, until it is idle.           *)
Release ==
    /\ driver = "pilot" /\ driver' = "remote"
    /\ armed' \in BOOLEAN
    /\ Standing

Drive ==
    /\ driver # "nobody" /\ armed
    /\ UNCHANGED <<driver, armed>>
    /\ Standing

Vanish ==
    /\ driver # "nobody" /\ driver' = "nobody"
    /\ ~armed'
    /\ Standing

Next == Appear \/ Arm \/ Engage \/ Release \/ Drive \/ Vanish

Spec == Init /\ [][Next]_vars
=============================================================================
