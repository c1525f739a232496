---------------------------- MODULE Controllers ----------------------------
(***************************************************************************)
(* The PID of pid.go and the controllers built on one: speed.go, rot.go,   *)
(* heading.go, and sysident.go, which has none.  (WaypointController is in *)
(* Mission.tla.)  The floats are whole numbers of 1/Unit, angles included, *)
(* and products are rounded down to one.                                   *)
(***************************************************************************)
EXTENDS Integers

CONSTANTS
    Unit,       \* 1.0: a full deflection, a radian, a metre per second
    Pi,
    Gains       \* the PID of each controller that has one, from rover.go

(* 375 of them make both input scales whole: see Scale in Driving.tla.     *)
ASSUME UnitAssumption ==
    /\ Unit \in Nat \ {0} /\ Unit % 375 = 0
    /\ Pi \in Nat /\ Pi > 3 * Unit
(* Below -10 a demand counts as missing; an offset may come to an output.  *)
ASSUME GainAssumption ==
    /\ {"speed", "rot", "heading"} \subseteq DOMAIN Gains
    /\ \A name \in DOMAIN Gains :
          /\ Gains[name] \in [Kp : Nat, Ki : Nat, Kd : Nat, Deadband : Nat,
                              UMin : Int, UMax : Int, TiLimit : Nat]
          /\ -9 * Unit <= Gains[name].UMin /\ Gains[name].UMin <= Gains[name].UMax

Missing == -128 * Unit          \* what a float32 makes of rover.Missing
Engaged == 2                    \* the switch position for the heading

Times(a, b) == (a * b) \div Unit

(* Go rounds towards zero.                                                 *)
Quotient(a, b) == IF a >= 0 THEN a \div b ELSE -((-a) \div b)

Clip(v, low, high) == IF v < low THEN low ELSE IF v > high THEN high ELSE v

-----------------------------------------------------------------------------
(* The PID keeps its integral and the last error.                          *)
NewPid == [Ti |-> 0, errLast |-> 0]
Reset(pid) == [pid EXCEPT !.Ti = 0]

(* Both gains have the time step folded in.                                *)
Integrated(pid, g, err) == Clip(pid.Ti + Times(g.Ki, err), -g.TiLimit, g.TiLimit)

Widened(u, g) ==
    IF 10 * u > g.Deadband THEN u + g.Deadband
    ELSE IF 10 * u < -g.Deadband THEN u - g.Deadband
    ELSE u

Advance(pid, g, err) ==
    [Ti |-> Integrated(pid, g, err), errLast |-> err]

Control(pid, g, err) ==
    Clip(Widened(Times(g.Kp, err) + Integrated(pid, g, err)
                 + Times(g.Kd, err - pid.errLast), g),
         g.UMin, g.UMax)

(* Mutant of Jogged: the gain may turn negative.                           *)
Jogged_NoFloor(k, dial) == k + Times(k, 3 * Clip(dial, -Unit, Unit))

(* NewJogger, with the offset and scale of rot.go.                         *)
Jogged(k, dial) ==
    LET v == k + Times(k, 3 * Clip(dial, -Unit, Unit))
    IN  IF v < 0 THEN 0 ELSE v

-----------------------------------------------------------------------------
(* Step of each controller: what it demands and its PID afterwards.        *)
Demands(steering, throttle) == [steering |-> steering, throttle |-> throttle]
Released == Demands(Missing, Missing)

SysIdentDemand(input) ==
    CASE input.switch = 1 -> Demands(Missing, 0)
      [] input.switch = 2 -> Demands(Missing, Quotient(input.dial + Unit, 2))
      [] OTHER            -> Released

SpeedGains(input) ==
    [Gains["speed"] EXCEPT !.Ki = Times(@, input.dial + Unit)]
(* 17.5 km/h, or standing still                                            *)
SpeedError(input, speed) == (IF input.switch = 2 THEN (Unit * 175) \div 36 ELSE 0) - speed

SpeedDemand(pid, input, speed) ==
    IF input.switch <= 0 THEN Released
    ELSE Demands(Missing, Control(pid, SpeedGains(input), SpeedError(input, speed)))

SpeedPid(pid, input, speed) ==
    IF input.switch <= 0 THEN Reset(pid)
    ELSE Advance(pid, SpeedGains(input), SpeedError(input, speed))

RotGains(input) == [Gains["rot"] EXCEPT !.Ki = Jogged(@, input.dial)]
RotError(input, rate) == Quotient(3 * input.steering, Unit) * Unit - rate

RotDemand(pid, input, rate) ==
    IF input.switch <= 0 THEN Released
    ELSE Demands(Control(pid, RotGains(input), RotError(input, rate)), Missing)

RotPid(pid, input, rate) ==
    IF input.switch <= 0 THEN Reset(pid)
    ELSE Advance(pid, RotGains(input), RotError(input, rate))

(* The heading is controlled as the position comes in; Step only repeats   *)
(* what was computed then.                                                 *)
HeadingDemand(u, input) ==
    IF input.switch = Engaged THEN Demands(u, Missing) ELSE Released

(* Mutant of Wrapped: an angle is left as it is.                           *)
Wrapped_Not(angle) == angle

(* An angle within a turn of -Pi .. Pi, brought there.                     *)
Wrapped(angle) ==
    IF angle > Pi THEN angle - 2 * Pi ELSE IF angle < -Pi THEN angle + 2 * Pi ELSE angle

(* The stick asks for a turn of an eighth or a quarter.                    *)
Turn(steering) ==
    CASE 2 * steering < -Unit                            -> -(Pi \div 2)
      [] 2 * steering >= -Unit /\ 4 * steering < -Unit -> -(Pi \div 4)
      [] 2 * steering > Unit                             -> Pi \div 2
      [] 2 * steering <= Unit /\ 4 * steering > Unit   -> Pi \div 4
      [] OTHER                                           -> 0

HeadingError(sp, input, track) == Wrapped(Wrapped(sp + Turn(input.steering)) - track)
HeadingGains(input) ==
    [Gains["heading"] EXCEPT !.Kd = Times(@, 5 * (input.dial + Unit))]

(* HeadingController.GPS: the new output, PID and set point.               *)
HeadingOutput(pid, sp, input, track) ==
    Control(pid, HeadingGains(input), HeadingError(sp, input, track))

HeadingPid(pid, sp, input, track) ==
    LET next == Advance(pid, HeadingGains(input), HeadingError(sp, input, track))
    IN  IF input.switch = Engaged THEN next ELSE Reset(next)

HeadingSetPoint(sp, input, track) == IF input.switch = Engaged THEN sp ELSE track
=============================================================================
