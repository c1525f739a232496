------------------------------ MODULE Driving ------------------------------
(***************************************************************************)
(* What the driver of driver.go does with its messages and with time: the  *)
(* handlers of the GPS sentences and of the frames of the I/O board, the   *)
(* scaling of inputs and demands, the timeouts of timeout.go, the          *)
(* watchdogs of watchdog.go, and the controllers.  RoverLoop.tla has the   *)
(* goroutines and the waypoint mission; here every tick is served before   *)
(* the next is due.                                                        *)
(*                                                                         *)
(* A unit of time is the period of the step ticker.  Messages come at any  *)
(* moment between, in any number.                                          *)
(***************************************************************************)
EXTENDS Controllers

CONSTANTS
    Second,     \* ticks in a second: 20
    Trips       \* the controllers to choose from, and the messages of each

ASSUME SecondAssumption == Second \in Nat \ {0}

Absent == -128                  \* rover.Missing, and a missing channel
Sources == {"RMC", "GGA", "VTG", "Input", "Heartbeat", "Pong", "IMU"}

(* The messages, with the fields that are read.                            *)
Channel == Absent .. 127
InputFrames == [source : {"Input"}, reference : 0 .. 255,
                steering : Channel, dial : Channel, switch : Channel]
Messages ==
    [source : {"RMC"}, knots : Nat, degrees : 0 .. 360]
    \cup [source : {"GGA"}, satellites : Nat]
    \cup [source : {"VTG", "Heartbeat", "Pong"}]
    \cup [source : {"IMU"}, rate : Int]
    \cup InputFrames

ASSUME TripAssumption ==
    \A t \in DOMAIN Trips :
        /\ Trips[t].controller \in {"sysident", "speed", "rot", "heading"}
        /\ \A msg \in Trips[t].messages : msg \in Messages

Watchdogs == [gps       |-> {"RMC", "VTG"},
              gpsLock   |-> {},
              heartbeat |-> {"Heartbeat"},
              pong      |-> {"Pong"},
              input     |-> {"Input"},
              imu       |-> {"IMU"}]

VARIABLES
    trip,       \* fixes options.Controller and what the ports deliver
    phase,      \* ticks since the heartbeat ticker last fired
    due,        \* the tickers whose tick is to be served
    timeouts,   \* rmcSeen, ggaSeen, inputSeen: ticks left, -1 when stopped
    fed,        \* Watchdog.last: ticks ago, up to Long
    seen,       \* the Watchdogs with seen set
    gps,        \* Status.GPS
    rate,       \* Status.IMU.RateOfTurn
    input,      \* Status.Input
    scale,      \* inputScale
    pid,        \* the PID of the controller
    u, sp,      \* HeadingController
    demand,     \* the two channels last sent
    quiet,      \* history: ticks since a message of each source, up to Long
    raw         \* history: the last Input frame

controller == Trips[trip].controller

timing == <<phase, due>>
status == <<gps, rate, input, scale>>
control == <<pid, u, sp>>
vars == <<trip, phase, due, timeouts, fed, seen, gps, rate, input, scale,
          pid, u, sp, demand, quiet, raw>>

Long == 2 * Second + 1
Older(age) == IF age = Long THEN Long ELSE age + 1

-----------------------------------------------------------------------------
(* timeout.go and watchdog.go                                              *)

Start(name) == timeouts' = [timeouts EXCEPT ![name] = Second]
Running(name) == timeouts[name] >= 0

(* Mutant of Feed: only the first message counts.                          *)
Feed_Once(w) ==
    /\ fed' = [fed EXCEPT ![w] = IF w \in seen THEN @ ELSE 0]
    /\ seen' = seen \cup {w}

Feed(w) ==
    /\ fed' = [fed EXCEPT ![w] = 0]
    /\ seen' = seen \cup {w}

(* A watchdog that was never fed is not seen either.                       *)
CheckWatchdogs == seen' = {w \in seen : fed[w] <= Second}

-----------------------------------------------------------------------------
(* The messages.  Heard is part of every handler: the history.             *)
Heard(source) == quiet' = [quiet EXCEPT ![source] = 0]

(* KnotsToMs, and degrees to radians                                       *)
Speed(knots) == (knots * Unit * 51444) \div 100000
HeadingToRad(degrees) ==
    LET angle == (degrees * Pi) \div 180
    IN  IF angle > Pi THEN angle - 2 * Pi ELSE angle

SteersByGps == controller = "heading"

(* The heading controller reads the input as the last frame and the last   *)
(* tick left it.                                                           *)
HandleRMC(msg) ==
    /\ Start("rmc") /\ Feed("gps")
    /\ gps' = [gps EXCEPT !.speed = Speed(msg.knots), !.track = HeadingToRad(msg.degrees)]
    /\ IF SteersByGps
       THEN /\ pid' = HeadingPid(pid, sp, input, gps'.track)
            /\ u' = HeadingOutput(pid, sp, input, gps'.track)
            /\ sp' = HeadingSetPoint(sp, input, gps'.track)
       ELSE UNCHANGED control
    /\ UNCHANGED <<rate, input, scale, raw>>

HandleGGA(msg) ==
    /\ Start("gga")
    /\ gps' = [gps EXCEPT !.satellites = msg.satellites]
    /\ UNCHANGED <<fed, seen, rate, input, scale, control, raw>>

HandleVTG ==
    /\ Feed("gps")
    /\ UNCHANGED <<timeouts, status, control, raw>>

(* Prescaler * 1000 * 2 / fcpu: 1/93.75 at 12 MHz and 1/62.5 at 8 MHz      *)
Scale(reference) == (Unit * 128) \div (IF reference = 2 THEN 12000 ELSE 8000)

Scaled(channel, factor) == IF channel <= Absent THEN Missing ELSE channel * factor

SwitchAt(v) == IF 2 * v < -Unit THEN 0 ELSE IF 2 * v < Unit THEN 1 ELSE 2

(* The level goes to the switch watcher as well: see RoverLoop.tla.        *)
HandleInput(msg) ==
    /\ Start("input") /\ Feed("input")
    /\ scale' = Scale(msg.reference)
    /\ input' = [input EXCEPT !.steering = Scaled(msg.steering, scale'),
                              !.dial = Scaled(msg.dial, scale'),
                              !.switch = SwitchAt(Scaled(msg.switch, scale'))]
    /\ raw' = msg
    /\ UNCHANGED <<gps, rate, control>>

(* The least reading, which an int16 cannot negate, is left out.           *)
HandleIMU(msg) ==
    /\ Feed("imu")
    /\ rate' = -msg.rate
    /\ UNCHANGED <<timeouts, gps, input, scale, control, raw>>

(* A Heartbeat or a Pong.                                                  *)
HandleSign(w) ==
    /\ Feed(w)
    /\ UNCHANGED <<timeouts, status, control, raw>>

(* sentence() and frame()                                                  *)
Handle(msg) ==
    /\ CASE msg.source = "RMC"       -> HandleRMC(msg)
         [] msg.source = "GGA"       -> HandleGGA(msg)
         [] msg.source = "VTG"       -> HandleVTG
         [] msg.source = "Input"     -> HandleInput(msg)
         [] msg.source = "Heartbeat" -> HandleSign("heartbeat")
         [] msg.source = "Pong"      -> HandleSign("pong")
         [] msg.source = "IMU"       -> HandleIMU(msg)
    /\ Heard(msg.source)
    /\ UNCHANGED <<trip, timing, demand>>

-----------------------------------------------------------------------------
(* The tickers.                                                            *)

Satellites == IF Running("gga") THEN gps.satellites ELSE -1

(* checkAll(), which looks at the satellites before it forgets them.       *)
CheckedGps ==
    [gps EXCEPT !.ok = Running("rmc") /\ Running("gga") /\ gps.satellites >= 6,
                !.satellites = Satellites]

(* Mutant of CheckedInput: the switch keeps its position.                  *)
CheckedInput_Keeps == [input EXCEPT !.ok = Running("input")]

CheckedInput ==
    [input EXCEPT !.ok = Running("input"),
                  !.switch = IF Running("input") THEN @ ELSE -1]

(* Mutant of ToDemand: the value is not clipped.                           *)
ToDemand_Unclipped(v) ==
    IF scale <= 0 \/ v < -10 * Unit THEN Absent
    ELSE ((Quotient(v, scale) + 128) % 256) - 128

ToDemand(v) ==
    IF scale <= 0 \/ v < -10 * Unit THEN Absent ELSE Quotient(Clip(v, -Unit, Unit), scale)

(* Controller.Step                                                         *)
Demanded(in) ==
    CASE controller = "sysident" -> SysIdentDemand(in)
      [] controller = "speed"    -> SpeedDemand(pid, in, gps.speed)
      [] controller = "rot"      -> RotDemand(pid, in, rate)
      [] controller = "heading"  -> HeadingDemand(u, in)

SteppedPid(in) ==
    CASE controller = "speed" -> SpeedPid(pid, in, gps.speed)
      [] controller = "rot"   -> RotPid(pid, in, rate)
      [] OTHER                     -> pid

(* SteeringOffset: -0.06                                                   *)
Offset == -((6 * Unit) \div 100)

(* checkAll() and step(); the other four channels are always missing.      *)
StepTick ==
    /\ "step" \in due /\ due' = due \ {"step"}
    /\ gps' = CheckedGps
    /\ input' = CheckedInput
    /\ demand' = [steering |-> ToDemand(Demanded(input').steering + Offset),
                  throttle |-> ToDemand(Demanded(input').throttle)]
    /\ pid' = SteppedPid(input')
    /\ UNCHANGED <<trip, phase, timeouts, fed, seen, rate, scale, u, sp, quiet, raw>>

(* localHeartbeat()                                                        *)
HeartbeatTick ==
    /\ "heartbeat" \in due /\ due' = due \ {"heartbeat"}
    /\ CheckWatchdogs
    /\ UNCHANGED <<trip, phase, timeouts, fed, status, control, demand, quiet, raw>>

(* The clocks; time waits for a tick that is due.                          *)
TimePasses ==
    /\ due = {}
    /\ phase' = (phase + 1) % Second
    /\ due' = IF phase' = 0 THEN {"step", "heartbeat"} ELSE {"step"}
    /\ timeouts' = [t \in DOMAIN timeouts |->
                       IF timeouts[t] < 0 THEN -1 ELSE timeouts[t] - 1]
    /\ fed' = [w \in DOMAIN fed |-> Older(fed[w])]
    /\ quiet' = [s \in Sources |-> Older(quiet[s])]
    /\ UNCHANGED <<trip, seen, status, control, demand, raw>>

NoInput == [source |-> "Input", reference |-> 0,
            steering |-> Absent, dial |-> Absent, switch |-> Absent]

Init ==
    /\ trip \in DOMAIN Trips
    /\ phase = 0 /\ due = {}
    /\ timeouts = [rmc |-> -1, gga |-> -1, input |-> -1]
    /\ fed = [w \in DOMAIN Watchdogs |-> Long] /\ seen = {}
    /\ gps = [ok |-> FALSE, satellites |-> 0, speed |-> 0, track |-> 0]
    /\ rate = 0
    /\ input = [ok |-> FALSE, switch |-> 0, steering |-> 0, dial |-> 0]
    /\ scale = 0
    /\ pid = NewPid /\ u = 0 /\ sp = 0
    /\ demand = [steering |-> Absent, throttle |-> Absent]
    /\ quiet = [s \in Sources |-> Long] /\ raw = NoInput

Arrivals == \E msg \in Trips[trip].messages : Handle(msg)

Next == Arrivals \/ StepTick \/ HeartbeatTick \/ TimePasses

Spec == Init /\ [][Next]_vars

-----------------------------------------------------------------------------
(* Properties.                                                             *)

Angles == -Pi .. Pi

TypeOK ==
    /\ trip \in DOMAIN Trips
    /\ phase \in 0 .. Second - 1 /\ due \subseteq {"step", "heartbeat"}
    /\ timeouts \in [{"rmc", "gga", "input"} -> -1 .. Second]
    /\ fed \in [DOMAIN Watchdogs -> 0 .. Long] /\ seen \subseteq DOMAIN Watchdogs
    /\ gps \in [ok : BOOLEAN, satellites : Nat \cup {-1}, speed : Int, track : Angles]
    /\ rate \in Int
    /\ input \in [ok : BOOLEAN, switch : -1 .. 2, steering : Int, dial : Int]
    /\ scale \in Nat
    /\ pid \in [Ti : Int, errLast : Int] /\ u \in Int /\ sp \in Angles
    /\ demand \in [steering : Int, throttle : Int]
    /\ quiet \in [Sources -> 0 .. Long] /\ raw \in InputFrames

Silent == demand'.steering = Absent /\ demand'.throttle = Absent

(* The controllers drive only on the operator's word: a demand that moves  *)
(* a servo is sent only with an Input frame not older than a second, and   *)
(* with the switch heard, by the last of them, in a position that engages  *)
(* the controller.  When the frames stop, the demands do.                  *)
DrivesOnlyEngaged ==
    [][(StepTick /\ ~Silent) =>
          /\ quiet["Input"] <= Second
          /\ raw.switch # Absent
          /\ SwitchAt(Scaled(raw.switch, Scale(raw.reference)))
                >= IF controller = "heading" THEN 2 ELSE 1]_vars

(* Whatever the dial, the trim and the error make of it, a demand is       *)
(* missing or within a full deflection as the I/O board measures it with   *)
(* its present clock; it never wraps to the other side.                    *)
DemandInRange ==
    [][StepTick => LET full == Unit \div Scale(raw.reference)
                   IN  {demand'.steering, demand'.throttle} \subseteq
                           {Absent} \cup (-full .. full)]_vars

(* The integral only moves the way the error points, or back to zero when  *)
(* the controller is released, and a controller that steps with the ticker *)
(* keeps none while it is.  This is asked of the speed controller only     *)
(* while its dial is heard and not below -1: else the gain is negative.    *)
IntegralFollowsError ==
    [][/\ pid' # pid /\ (controller = "speed" => input.dial >= -Unit)
          => \/ (pid'.Ti - pid.Ti) * pid'.errLast >= 0
             \/ pid'.Ti = 0 /\ input'.switch < Engaged
       /\ StepTick /\ Silent /\ controller \in {"speed", "rot"}
          => pid'.Ti = 0]_vars

(* The heading controller turns the short way round: the error it acts on  *)
(* is the angle from the track to the set point and the stick's turn, less *)
(* than half a turn, wherever either lies.                                 *)
TurnsTheShortWay ==
    [][(SteersByGps /\ pid' # pid) =>
          /\ pid'.errLast \in -Pi .. Pi
          /\ (sp + Turn(input.steering) - gps'.track - pid'.errLast) % (2 * Pi) = 0]_vars

(* What the driver believes of its sources is never far from the truth: a  *)
(* source heard within a second is seen by its watchdog, one that is seen  *)
(* was heard within two; the GPS and the input are called Ok at most a     *)
(* tick longer than a second.                                              *)
SilenceNoticed ==
    /\ \A w \in DOMAIN Watchdogs :
          /\ (\E s \in Watchdogs[w] : quiet[s] <= Second) => w \in seen
          /\ w \in seen => \E s \in Watchdogs[w] : quiet[s] <= 2 * Second
    /\ gps.ok => quiet["RMC"] <= Second + 1 /\ quiet["GGA"] <= Second + 1
    /\ input.ok => quiet["Input"] <= Second + 1
=============================================================================
