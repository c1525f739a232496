--------------------------- MODULE DrivingProofs ---------------------------
(***************************************************************************)
(* What Driving.tla guarantees for every unit, every gain, every set of    *)
(* messages of the right types and every number of ticks in a second.      *)
(***************************************************************************)
EXTENDS Driving, Arithmetic, TLAPS

-----------------------------------------------------------------------------
(* The inductive invariant.                                                *)

(* A timeout that runs has run since its message was heard.                *)
Starters == [rmc |-> "RMC", gga |-> "GGA", input |-> "Input"]

TimeoutsAgree ==
    \A t \in DOMAIN Starters :
        timeouts[t] >= 0 => quiet[Starters[t]] = Second - timeouts[t]

(* Ok is refreshed by each step, so it is a tick late at most.             *)
OkAge == IF "step" \in due THEN Second + 1 ELSE Second

OkAgrees ==
    /\ gps.ok => quiet["RMC"] <= OkAge /\ quiet["GGA"] <= OkAge
    /\ input.ok => quiet["Input"] <= OkAge

(* A watchdog was fed when the last of its sources was heard; one that is  *)
(* seen was fed within a second when the heartbeat last looked.            *)
SeenAge == IF "heartbeat" \in due THEN 2 * Second ELSE Second + phase

WatchdogsAgree ==
    /\ "heartbeat" \in due => phase = 0
    /\ \A w \in DOMAIN Watchdogs :
          /\ \A s \in Watchdogs[w] : fed[w] <= quiet[s]
          /\ fed[w] = Long \/ \E s \in Watchdogs[w] : fed[w] = quiet[s]
          /\ w \in seen => fed[w] <= SeenAge
          /\ fed[w] <= Second => w \in seen

(* The scale is that of the last Input frame, and a switch that engages    *)
(* was set by it.                                                          *)
InputAgrees ==
    /\ scale \in {0, Scale(raw.reference)}
    /\ input.switch >= 1 =>
          /\ scale = Scale(raw.reference)
          /\ raw.switch # Absent
          /\ input.switch = SwitchAt(Scaled(raw.switch, Scale(raw.reference)))

(* The integral is within its limits.                                      *)
Limit == IF controller \in DOMAIN Gains THEN Gains[controller].TiLimit ELSE 0
PidAgrees == pid.Ti \in -Limit .. Limit

Timely == TimeoutsAgree /\ OkAgrees /\ WatchdogsAgree

IInv == TypeOK /\ Timely /\ InputAgrees /\ PidAgrees

-----------------------------------------------------------------------------
(* The arithmetic of the controllers.                                      *)

LEMMA UnitType == Unit \in Nat \ {0} /\ Unit >= 375 /\ Pi \in Nat \ {0}
BY UnitAssumption

(* A product in fixed point has the sign of its factors.                   *)
LEMMA TimesResult ==
    ASSUME NEW a \in Int, NEW b \in Int
    PROVE  /\ Times(a, b) \in Int
           /\ (a >= 0 /\ b >= 0) \/ (a <= 0 /\ b <= 0) => Times(a, b) >= 0
           /\ a >= 0 /\ b <= 0 => Times(a, b) <= 0
<1>1. a * b \in Int  BY ProductSign
<1>2. Times(a, b) \in Int  BY <1>1, UnitType, Division DEF Times
<1>3. ASSUME a * b >= 0 PROVE Times(a, b) >= 0
  <2>1. 0 \div Unit = 0  BY UnitType, QuotientRange, 0 \in 0 .. 0, Unit * 0 = 0
  <2> QED  BY <1>1, <1>3, <2>1, UnitType, QuotientGrows DEF Times
<1>4. ASSUME a * b <= 0 PROVE Times(a, b) <= 0
  <2>1. 0 \div Unit = 0  BY UnitType, QuotientRange, 0 \in 0 .. 0, Unit * 0 = 0
  <2> QED  BY <1>1, <1>4, <2>1, UnitType, QuotientGrows DEF Times
<1> QED  BY <1>2, <1>3, <1>4, ProductSign

(* Clip keeps to its limits, and so moves no further than its argument.    *)
LEMMA ClipResult ==
    ASSUME NEW v \in Int, NEW low \in Int, NEW high \in Int, low <= high
    PROVE  /\ Clip(v, low, high) \in low .. high
           /\ \A a \in low .. high :
                 /\ v >= a => Clip(v, low, high) >= a
                 /\ v <= a => Clip(v, low, high) <= a
BY DEF Clip

Gain == [Kp : Int, Ki : Int, Kd : Int, Deadband : Nat,
         UMin : Int, UMax : Int, TiLimit : Nat]
Pids(limit) == [Ti : -limit .. limit, errLast : Int]

(* The integral stays within its limit and moves towards the error.        *)
LEMMA IntegratedResult ==
    ASSUME NEW g \in Gain, NEW p \in Pids(g.TiLimit), NEW err \in Int
    PROVE  /\ Integrated(p, g, err) \in -g.TiLimit .. g.TiLimit
           /\ g.Ki >= 0 => (Integrated(p, g, err) - p.Ti) * err >= 0
<1> DEFINE t == Times(g.Ki, err)
           n == Integrated(p, g, err)
<1>1. /\ g.TiLimit \in Nat /\ g.Ki \in Int
      /\ p.Ti \in -g.TiLimit .. g.TiLimit
  BY DEF Gain, Pids
<1>2. t \in Int  BY <1>1, TimesResult
<1>3. n = Clip(p.Ti + t, -g.TiLimit, g.TiLimit)  BY DEF Integrated
<1>4. g.Ki >= 0 => (err >= 0 => t >= 0) /\ (err <= 0 => t <= 0)  BY <1>1, TimesResult
<1> HIDE DEF t, n
<1> DEFINE low == -g.TiLimit
           high == g.TiLimit
           v == p.Ti + t
<1>7. v \in Int /\ low \in Int /\ high \in Int /\ low <= high  BY <1>1, <1>2
<1>8. p.Ti \in low .. high /\ n = Clip(v, low, high)  BY <1>1, <1>3
<1>9. n \in low .. high /\ (v >= p.Ti => n >= p.Ti) /\ (v <= p.Ti => n <= p.Ti)
  <2> HIDE DEF v, low, high
  <2> QED  BY <1>7, <1>8, ClipResult
<1>5. /\ n \in -g.TiLimit .. g.TiLimit
      /\ t >= 0 => n >= p.Ti
      /\ t <= 0 => n <= p.Ti
  BY <1>1, <1>2, <1>9
<1>6. ASSUME g.Ki >= 0 PROVE (n - p.Ti) * err >= 0
  <2>1. n - p.Ti \in Int  BY <1>1, <1>5
  <2>2. CASE err >= 0  BY <1>1, <1>4, <1>5, <1>6, <2>1, <2>2, ProductSign
  <2>3. CASE err <= 0  BY <1>1, <1>4, <1>5, <1>6, <2>1, <2>3, ProductSign
  <2> QED  BY <2>2, <2>3
<1> QED  BY <1>5, <1>6 DEF n

(* A controller's output is within the limits of its PID.                  *)
LEMMA ControlResult ==
    ASSUME NEW g \in Gain, g.UMin <= g.UMax,
           NEW p \in Pids(g.TiLimit), NEW err \in Int
    PROVE  Control(p, g, err) \in g.UMin .. g.UMax
<1>1. /\ g.Kp \in Int /\ g.Kd \in Int /\ g.Deadband \in Nat
      /\ g.UMin \in Int /\ g.UMax \in Int /\ g.TiLimit \in Nat
      /\ p.errLast \in Int
  BY DEF Gain, Pids
<1>2. Times(g.Kp, err) \in Int /\ Times(g.Kd, err - p.errLast) \in Int
  <2>1. err - p.errLast \in Int  BY <1>1
  <2> QED  BY <1>1, <2>1, TimesResult
<1>3. Integrated(p, g, err) \in Int  BY <1>1, IntegratedResult
<1>4. ASSUME NEW n \in Int PROVE Widened(n, g) \in Int
  BY <1>1 DEF Widened
<1> DEFINE sum == Times(g.Kp, err) + Integrated(p, g, err) + Times(g.Kd, err - p.errLast)
<1>5. sum \in Int  BY <1>2, <1>3
<1>6. Widened(sum, g) \in Int  BY <1>4, <1>5
<1>7. Control(p, g, err) = Clip(Widened(sum, g), g.UMin, g.UMax)  BY DEF Control
<1> HIDE DEF sum
<1> QED  BY <1>1, <1>6, <1>7, ClipResult

(* The PID after a step.                                                   *)
LEMMA AdvanceResult ==
    ASSUME NEW g \in Gain, NEW p \in Pids(g.TiLimit), NEW err \in Int
    PROVE  /\ Advance(p, g, err) \in Pids(g.TiLimit)
           /\ Advance(p, g, err).errLast = err
           /\ g.Ki >= 0 => (Advance(p, g, err).Ti - p.Ti) * err >= 0
<1>1. Integrated(p, g, err) \in -g.TiLimit .. g.TiLimit  BY IntegratedResult
<1>2. g.Ki >= 0 => (Integrated(p, g, err) - p.Ti) * err >= 0  BY IntegratedResult
<1>3. /\ Advance(p, g, err).Ti = Integrated(p, g, err)
      /\ Advance(p, g, err).errLast = err
  BY DEF Advance
<1>4. Advance(p, g, err) \in Pids(g.TiLimit)  BY <1>1 DEF Advance, Pids
<1> QED  BY <1>2, <1>3, <1>4

LEMMA ResetResult ==
    ASSUME NEW limit \in Nat, NEW p \in Pids(limit)
    PROVE  Reset(p) \in Pids(limit) /\ Reset(p).Ti = 0
BY DEF Reset, Pids

(* The gains each controller works with: the dial touches one of them, and *)
(* only that of the speed controller may turn negative.                    *)
Inputs == [ok : BOOLEAN, switch : -1 .. 2, steering : Int, dial : Int]

LEMMA GainsResult ==
    ASSUME NEW name \in {"speed", "rot", "heading"}
    PROVE  /\ Gains[name] \in [Kp : Nat, Ki : Nat, Kd : Nat, Deadband : Nat,
                               UMin : Int, UMax : Int, TiLimit : Nat]
           /\ Gains[name] \in Gain
           /\ -9 * Unit <= Gains[name].UMin /\ Gains[name].UMin <= Gains[name].UMax
<1>1. name \in DOMAIN Gains  BY GainAssumption
<1> QED  BY <1>1, GainAssumption DEF Gain

LEMMA SpeedGainsResult ==
    ASSUME NEW in \in Inputs
    PROVE  /\ SpeedGains(in) \in Gain
           /\ SpeedGains(in).TiLimit = Gains["speed"].TiLimit
           /\ SpeedGains(in).UMin = Gains["speed"].UMin
           /\ SpeedGains(in).UMax = Gains["speed"].UMax
           /\ in.dial >= -Unit => SpeedGains(in).Ki >= 0
<1> DEFINE k == Gains["speed"].Ki
           factor == in.dial + Unit
<1>1. factor \in Int /\ k \in Nat /\ (in.dial >= -Unit => factor >= 0)
  BY UnitType, GainsResult DEF Inputs
<1>2. SpeedGains(in) = [Gains["speed"] EXCEPT !.Ki = Times(k, factor)]  BY DEF SpeedGains
<1> HIDE DEF k, factor
<1>3. Times(k, factor) \in Int /\ (in.dial >= -Unit => Times(k, factor) >= 0)
  BY <1>1, TimesResult
<1> QED  BY <1>2, <1>3, GainsResult DEF Gain

LEMMA RotGainsResult ==
    ASSUME NEW in \in Inputs
    PROVE  /\ RotGains(in) \in Gain
           /\ RotGains(in).TiLimit = Gains["rot"].TiLimit
           /\ RotGains(in).UMin = Gains["rot"].UMin
           /\ RotGains(in).UMax = Gains["rot"].UMax
           /\ RotGains(in).Ki >= 0
<1> DEFINE k == Gains["rot"].Ki
<1>1. in.dial \in Int /\ k \in Int  BY GainsResult DEF Inputs
<1> HIDE DEF k
<1>2. 3 * Clip(in.dial, -Unit, Unit) \in Int  BY <1>1, UnitType DEF Clip
<1>3. Times(k, 3 * Clip(in.dial, -Unit, Unit)) \in Int  BY <1>1, <1>2, TimesResult
<1>4. Jogged(k, in.dial) \in Int /\ Jogged(k, in.dial) >= 0  BY <1>1, <1>3 DEF Jogged
<1> QED  BY <1>4, GainsResult DEF RotGains, Gain, k

LEMMA HeadingGainsResult ==
    ASSUME NEW in \in Inputs
    PROVE  /\ HeadingGains(in) \in Gain
           /\ HeadingGains(in).TiLimit = Gains["heading"].TiLimit
           /\ HeadingGains(in).UMin = Gains["heading"].UMin
           /\ HeadingGains(in).UMax = Gains["heading"].UMax
           /\ HeadingGains(in).Ki >= 0
<1>1. 5 * (in.dial + Unit) \in Int /\ Gains["heading"].Kd \in Int
  BY UnitType, GainsResult DEF Inputs
<1>2. Times(Gains["heading"].Kd, 5 * (in.dial + Unit)) \in Int  BY <1>1, TimesResult
<1> QED  BY <1>2, GainsResult DEF HeadingGains, Gain

(* What each controller works against.                                     *)
LEMMA ErrorsResult ==
    ASSUME NEW in \in Inputs, NEW value \in Int
    PROVE  SpeedError(in, value) \in Int /\ RotError(in, value) \in Int
<1>1. (Unit * 175) \div 36 \in Int  BY UnitType, Division
<1>2. ASSUME NEW a \in Int PROVE Quotient(a, Unit) \in Int
  <2>1. a \div Unit \in Int /\ (-a) \div Unit \in Int  BY UnitType, Division
  <2> QED  BY <2>1 DEF Quotient
<1>3. Quotient(3 * in.steering, Unit) * Unit \in Int
  <2>1. Quotient(3 * in.steering, Unit) \in Int  BY <1>2 DEF Inputs
  <2> QED  BY <2>1, UnitType, ProductSign
<1> QED  BY <1>1, <1>3 DEF SpeedError, RotError

-----------------------------------------------------------------------------
(* Angles.                                                                 *)

(* The error of the heading controller is the short way round.             *)
LEMMA HeadingErrorResult ==
    ASSUME NEW s \in Angles, NEW in \in Inputs, NEW track \in Angles
    PROVE  /\ HeadingError(s, in, track) \in Angles
           /\ (s + Turn(in.steering) - track - HeadingError(s, in, track)) % (2 * Pi) = 0
<1> DEFINE turn == Turn(in.steering)
           goal == Wrapped(s + turn)
           err == Wrapped(goal - track)
<1>1. Pi \in Nat \ {0} /\ Pi \div 2 \in 0 .. Pi /\ Pi \div 4 \in 0 .. Pi  BY UnitType
<1>2. turn \in Angles  BY <1>1 DEF Turn, Angles
<1> HIDE DEF turn
<1>3. goal \in Angles /\ \E j \in -1 .. 1 : s + turn = goal + 2 * Pi * j
  <2>1. s + turn \in Int  BY <1>1, <1>2 DEF Angles
  <2>2. CASE s + turn > Pi  BY <1>1, <1>2, <2>2, s + turn = goal + 2 * Pi * 1 DEF Wrapped, Angles
  <2>3. CASE s + turn < -Pi
    BY <1>1, <1>2, <2>3, s + turn = goal + 2 * Pi * (-1) DEF Wrapped, Angles
  <2>4. CASE s + turn \in -Pi .. Pi
    BY <1>1, <1>2, <2>4, s + turn = goal + 2 * Pi * 0 DEF Wrapped, Angles
  <2> QED  BY <1>1, <2>1, <2>2, <2>3, <2>4
<1> HIDE DEF goal
<1>4. err \in Angles /\ \E k \in -1 .. 1 : goal - track = err + 2 * Pi * k
  <2>1. goal - track \in Int  BY <1>3 DEF Angles
  <2>2. CASE goal - track > Pi
    BY <1>1, <1>3, <2>2, goal - track = err + 2 * Pi * 1 DEF Wrapped, Angles
  <2>3. CASE goal - track < -Pi
    BY <1>1, <1>3, <2>3, goal - track = err + 2 * Pi * (-1) DEF Wrapped, Angles
  <2>4. CASE goal - track \in -Pi .. Pi
    BY <1>1, <1>3, <2>4, goal - track = err + 2 * Pi * 0 DEF Wrapped, Angles
  <2> QED  BY <1>1, <2>1, <2>2, <2>3, <2>4
<1> HIDE DEF err
<1>5. PICK j \in -1 .. 1, k \in -1 .. 1 :
          s + turn = goal + 2 * Pi * j /\ goal - track = err + 2 * Pi * k
  BY <1>3, <1>4
<1>6. s + turn - track - err = (2 * Pi) * (j + k) + 0
  BY <1>1, <1>2, <1>3, <1>4, <1>5 DEF Angles
<1>7. (s + turn - track - err) % (2 * Pi) = 0
  <2> DEFINE m == s + turn - track - err
             P == 2 * Pi
             q == j + k
  <2>1. P \in Nat \ {0} /\ 0 \in 0 .. (P - 1) /\ q \in Int  BY <1>1
  <2>2. m \in Int  BY <1>1, <1>2, <1>4 DEF Angles
  <2>3. m = P * q + 0  BY <1>6
  <2> HIDE DEF m, P, q
  <2>4. m % P = 0  BY <2>1, <2>2, <2>3, RemainderUnique
  <2> QED  BY <2>4 DEF m, P
<1> QED  BY <1>4, <1>7 DEF HeadingError, err, goal, turn

(* A course in degrees becomes an angle.                                   *)
LEMMA HeadingToRadResult ==
    ASSUME NEW degrees \in 0 .. 360
    PROVE  HeadingToRad(degrees) \in Angles
<1> DEFINE n == degrees * Pi
<1>1. n \in 0 .. 360 * Pi
  <2>1. Pi * 0 <= Pi * degrees /\ Pi * degrees <= Pi * 360  BY UnitType, ProductGrows
  <2>2. Pi * degrees \in Int /\ degrees * Pi = Pi * degrees  BY UnitType, ProductSign
  <2> QED  BY <2>1, <2>2, UnitType
<1> HIDE DEF n
<1>2. n \div 180 \in 0 .. 2 * Pi  BY <1>1, UnitType
<1> QED  BY <1>2, UnitType DEF HeadingToRad, Angles, n

-----------------------------------------------------------------------------
(* Inputs and demands.                                                     *)

(* An input is scaled by a whole number, of which a full deflection is     *)
(* less than a byte can hold.                                              *)
LEMMA ScaleResult ==
    ASSUME NEW reference \in Int
    PROVE  /\ Scale(reference) \in Nat \ {0}
           /\ Unit \div Scale(reference) \in 0 .. 93
<1> DEFINE k == Unit \div 375
           P == Scale(reference)
<1>1. k \in Nat \ {0} /\ Unit = 375 * k  BY UnitAssumption
<1> HIDE DEF k
<1>2. P = 4 * k \/ P = 6 * k
  <2>1. (375 * k * 128) \div 12000 = 4 * k /\ (375 * k * 128) \div 8000 = 6 * k  BY <1>1
  <2> QED  BY <1>1, <2>1 DEF Scale
<1> HIDE DEF P
<1>3. P \in Nat \ {0}  BY <1>1, <1>2
<1>4. P * 0 <= Unit /\ Unit < P * 93 + P /\ Unit \in Int  BY <1>1, <1>2
<1>5. Unit \div P \in 0 .. 93  BY <1>3, <1>4, QuotientRange
<1> QED  BY <1>3, <1>5 DEF P

LEMMA ScaledResult ==
    ASSUME NEW channel \in Int, NEW factor \in Int
    PROVE  Scaled(channel, factor) \in Int
<1>1. channel * factor \in Int  BY ProductSign
<1> QED  BY <1>1, UnitType DEF Scaled, Missing

LEMMA SwitchResult ==
    ASSUME NEW v \in Int
    PROVE  SwitchAt(v) \in 0 .. 2
BY DEF SwitchAt

(* A demand sent is missing when there is no scale, or nothing to demand,  *)
(* and otherwise what is left of it after the clip, in the board's units.  *)
LEMMA ToDemandResult ==
    ASSUME NEW P \in Nat \ {0}, Unit \div P \in 0 .. 93, scale \in {0, P},
           NEW v \in Int
    PROVE  /\ ToDemand(v) \in {Absent} \cup (-(Unit \div P) .. Unit \div P)
           /\ v < -10 * Unit => ToDemand(v) = Absent
           /\ scale = P /\ v >= -10 * Unit => ToDemand(v) # Absent
<1> DEFINE full == Unit \div P
           w == Clip(v, -Unit, Unit)
<1>1. w \in -Unit .. Unit  BY UnitType DEF Clip
<1>2. ToDemand(v) = IF scale <= 0 \/ v < -10 * Unit THEN Absent ELSE Quotient(w, scale)
  BY DEF ToDemand
<1> HIDE DEF w
<1>3. Quotient(w, P) \in -full .. full
  <2>1. 0 \div P = 0  BY QuotientRange, 0 \in 0 .. 0, P * 0 = 0
  <2>2. ASSUME NEW a \in 0 .. Unit PROVE a \div P \in 0 .. full
    BY <2>1, UnitType, QuotientGrows, Division
  <2>3. CASE w >= 0  BY <1>1, <2>2, <2>3, UnitType DEF Quotient
  <2>4. CASE w < 0
    <3>1. -w \in 0 .. Unit  BY <1>1, <2>4, UnitType
    <3> DEFINE q == (-w) \div P
    <3>2. q \in 0 .. full  BY <2>2, <3>1
    <3>3. Quotient(w, P) = -q
      <4>1. ~(w >= 0)  BY <1>1, <2>4, UnitType
      <4> QED  BY <4>1 DEF Quotient
    <3>4. full \in Int  OBVIOUS
    <3> HIDE DEF full, q
    <3> QED  BY <3>2, <3>3, <3>4
  <2> QED  BY <1>1, <2>3, <2>4
<1>4. full \in 0 .. 93  OBVIOUS
<1> HIDE DEF full
<1>5. Quotient(w, P) # Absent  BY <1>3, <1>4 DEF Absent
<1>6. scale <= 0 <=> scale = 0  OBVIOUS
<1>7. scale # 0 => scale = P  OBVIOUS
<1>8. ToDemand(v) \in {Absent} \cup (-full .. full)  BY <1>2, <1>3, <1>6, <1>7
<1>9. v < -10 * Unit => ToDemand(v) = Absent  BY <1>2
<1>10. scale = P /\ v >= -10 * Unit => ToDemand(v) # Absent
  BY <1>2, <1>5, <1>6, UnitType
<1> QED  BY <1>8, <1>9, <1>10 DEF full

-----------------------------------------------------------------------------
(* The controllers.                                                        *)

Names == {"sysident", "speed", "rot", "heading"}

LEMMA ControllerResult ==
    ASSUME TypeOK, PidAgrees
    PROVE  /\ controller \in Names
           /\ Limit \in Nat
           /\ controller # "sysident" => Limit = Gains[controller].TiLimit
           /\ pid \in Pids(Limit)
<1>1. controller \in Names  BY TripAssumption DEF TypeOK, controller, Names
<1>2. controller # "sysident" => controller \in DOMAIN Gains
  BY <1>1, GainAssumption DEF Names
<1>3. Limit \in Nat  BY <1>2, GainAssumption DEF Limit
<1>4. controller # "sysident" => Limit = Gains[controller].TiLimit  BY <1>2 DEF Limit
<1>5. pid \in Pids(Limit)  BY DEF TypeOK, PidAgrees, Pids
<1> QED  BY <1>1, <1>3, <1>4, <1>5

(* The least position of the switch that engages a controller.             *)
Engages == IF controller = "heading" THEN 2 ELSE 1

(* A controller that is not engaged demands nothing; one that is demands   *)
(* what is not mistaken for missing.                                       *)
LEMMA DemandedResult ==
    ASSUME TypeOK, PidAgrees, NEW in \in Inputs
    PROVE  /\ Demanded(in) \in [steering : Int, throttle : Int]
           /\ in.switch < Engages => Demanded(in) = Released
           /\ controller \in {"speed", "rot"} /\ in.switch >= 1 =>
                 Demanded(in).steering >= -9 * Unit \/ Demanded(in).throttle >= -9 * Unit
<1> DEFINE Goal == /\ Demanded(in) \in [steering : Int, throttle : Int]
                   /\ in.switch < Engages => Demanded(in) = Released
                   /\ controller \in {"speed", "rot"} /\ in.switch >= 1 =>
                         Demanded(in).steering >= -9 * Unit \/ Demanded(in).throttle >= -9 * Unit
<1>1. /\ Missing \in Int /\ in.switch \in -1 .. 2 /\ in.dial \in Int
      /\ gps.speed \in Int /\ rate \in Int /\ u \in Int
  BY UnitType DEF Missing, Inputs, TypeOK
<1>2. Released \in [steering : Int, throttle : Int]  BY <1>1 DEF Released, Demands
<1>3. CASE controller = "sysident"
  <2>1. Demanded(in) = SysIdentDemand(in)  BY <1>3 DEF Demanded
  <2>2. Quotient(in.dial + Unit, 2) \in Int  BY <1>1, UnitType DEF Quotient
  <2> QED  BY <1>1, <1>2, <1>3, <2>1, <2>2 DEF SysIdentDemand, Engages, Demands
<1>4. CASE controller = "speed"
  <2> DEFINE out == Control(pid, SpeedGains(in), SpeedError(in, gps.speed))
  <2>1. Demanded(in) = IF in.switch <= 0 THEN Released ELSE Demands(Missing, out)
    BY <1>4 DEF Demanded, SpeedDemand
  <2>2. SpeedError(in, gps.speed) \in Int  BY <1>1, ErrorsResult
  <2>3. pid \in Pids(SpeedGains(in).TiLimit)  BY <1>4, ControllerResult, SpeedGainsResult
  <2>4. SpeedGains(in) \in Gain /\ SpeedGains(in).UMin <= SpeedGains(in).UMax
    BY SpeedGainsResult, GainsResult
  <2>5. out \in SpeedGains(in).UMin .. SpeedGains(in).UMax
    BY <2>2, <2>3, <2>4, ControlResult
  <2>6. SpeedGains(in).UMin >= -9 * Unit /\ SpeedGains(in).UMin \in Int
    BY SpeedGainsResult, GainsResult, UnitType DEF Gain
  <2>7. out \in Int /\ out >= -9 * Unit  BY <2>4, <2>5, <2>6, UnitType DEF Gain
  <2> HIDE DEF out
  <2> QED  BY <1>1, <1>2, <1>4, <2>1, <2>7 DEF Engages, Demands
<1>5. CASE controller = "rot"
  <2> DEFINE out == Control(pid, RotGains(in), RotError(in, rate))
  <2>1. Demanded(in) = IF in.switch <= 0 THEN Released ELSE Demands(out, Missing)
    BY <1>5 DEF Demanded, RotDemand
  <2>2. RotError(in, rate) \in Int  BY <1>1, ErrorsResult
  <2>3. pid \in Pids(RotGains(in).TiLimit)  BY <1>5, ControllerResult, RotGainsResult
  <2>4. RotGains(in) \in Gain /\ RotGains(in).UMin <= RotGains(in).UMax
    BY RotGainsResult, GainsResult
  <2>5. out \in RotGains(in).UMin .. RotGains(in).UMax  BY <2>2, <2>3, <2>4, ControlResult
  <2>6. RotGains(in).UMin >= -9 * Unit /\ RotGains(in).UMin \in Int
    BY RotGainsResult, GainsResult, UnitType DEF Gain
  <2>7. out \in Int /\ out >= -9 * Unit  BY <2>4, <2>5, <2>6, UnitType DEF Gain
  <2> HIDE DEF out
  <2> QED  BY <1>1, <1>2, <1>5, <2>1, <2>7 DEF Engages, Demands
<1>6. CASE controller = "heading"
  <2>1. Demanded(in) = HeadingDemand(u, in)  BY <1>6 DEF Demanded
  <2> QED  BY <1>1, <1>2, <1>6, <2>1 DEF HeadingDemand, Engages, Engaged, Demands
<1> QED  BY <1>3, <1>4, <1>5, <1>6, ControllerResult DEF Names

(* The PID after Controller.Step: nothing is integrated while released.    *)
LEMMA SteppedPidResult ==
    ASSUME TypeOK, PidAgrees, NEW in \in Inputs
    PROVE  /\ SteppedPid(in) \in Pids(Limit)
           /\ controller \in {"speed", "rot"} /\ in.switch <= 0 => SteppedPid(in).Ti = 0
           /\ controller \in {"speed", "rot"} /\ in.switch >= 1
                 /\ (controller = "speed" => in.dial >= -Unit) =>
                 (SteppedPid(in).Ti - pid.Ti) * SteppedPid(in).errLast >= 0
           /\ controller \notin {"speed", "rot"} => SteppedPid(in) = pid
<1>1. /\ in.switch \in -1 .. 2 /\ in.dial \in Int
      /\ gps.speed \in Int /\ rate \in Int
  BY DEF Inputs, TypeOK
<1>2. Reset(pid) \in Pids(Limit) /\ Reset(pid).Ti = 0  BY ControllerResult, ResetResult
<1>3. CASE controller = "speed"
  <2> DEFINE next == Advance(pid, SpeedGains(in), SpeedError(in, gps.speed))
  <2>1. SteppedPid(in) = IF in.switch <= 0 THEN Reset(pid) ELSE next
    BY <1>3 DEF SteppedPid, SpeedPid
  <2>2. SpeedError(in, gps.speed) \in Int  BY <1>1, ErrorsResult
  <2>3. /\ SpeedGains(in) \in Gain /\ SpeedGains(in).TiLimit = Limit
        /\ pid \in Pids(SpeedGains(in).TiLimit)
    BY <1>3, ControllerResult, SpeedGainsResult
  <2>4. /\ next \in Pids(Limit) /\ next.errLast = SpeedError(in, gps.speed)
        /\ SpeedGains(in).Ki >= 0 => (next.Ti - pid.Ti) * next.errLast >= 0
    <3>1. next \in Pids(SpeedGains(in).TiLimit)  BY <2>2, <2>3, AdvanceResult
    <3>2. next.errLast = SpeedError(in, gps.speed)  BY DEF Advance
    <3>3. SpeedGains(in).Ki >= 0 => (next.Ti - pid.Ti) * SpeedError(in, gps.speed) >= 0
      BY <2>2, <2>3, AdvanceResult
    <3> HIDE DEF next
    <3> QED  BY <2>3, <3>1, <3>2, <3>3
  <2>5. in.dial >= -Unit => SpeedGains(in).Ki >= 0  BY SpeedGainsResult
  <2> HIDE DEF next
  <2> QED  BY <1>1, <1>2, <1>3, <2>1, <2>4, <2>5
<1>4. CASE controller = "rot"
  <2> DEFINE next == Advance(pid, RotGains(in), RotError(in, rate))
  <2>1. SteppedPid(in) = IF in.switch <= 0 THEN Reset(pid) ELSE next
    BY <1>4 DEF SteppedPid, RotPid
  <2>2. RotError(in, rate) \in Int  BY <1>1, ErrorsResult
  <2>3. /\ RotGains(in) \in Gain /\ RotGains(in).TiLimit = Limit
        /\ pid \in Pids(RotGains(in).TiLimit) /\ RotGains(in).Ki >= 0
    BY <1>4, ControllerResult, RotGainsResult
  <2>4. next \in Pids(Limit) /\ (next.Ti - pid.Ti) * next.errLast >= 0
    <3>1. next \in Pids(RotGains(in).TiLimit)  BY <2>2, <2>3, AdvanceResult
    <3>2. next.errLast = RotError(in, rate)  BY DEF Advance
    <3>3. (next.Ti - pid.Ti) * RotError(in, rate) >= 0
      BY <2>2, <2>3, AdvanceResult
    <3> HIDE DEF next
    <3> QED  BY <2>3, <3>1, <3>2, <3>3
  <2> HIDE DEF next
  <2> QED  BY <1>1, <1>2, <1>4, <2>1, <2>4
<1>5. CASE controller \notin {"speed", "rot"}
  <2>1. SteppedPid(in) = pid  BY <1>5 DEF SteppedPid
  <2> QED  BY <1>5, <2>1, ControllerResult
<1> QED  BY <1>3, <1>4, <1>5

-----------------------------------------------------------------------------
(* What the messages do to the clocks.                                     *)

(* A message, by what it is from.                                          *)
LEMMA MessageResult ==
    ASSUME NEW msg \in Messages
    PROVE  /\ msg.source \in Sources
           /\ msg.source = "RMC" => msg.knots \in Nat /\ msg.degrees \in 0 .. 360
           /\ msg.source = "GGA" => msg.satellites \in Nat
           /\ msg.source = "IMU" => msg.rate \in Int
           /\ msg.source = "Input" => msg \in InputFrames
BY DEF Messages, InputFrames, Sources

LEMMA ClockTypes ==
    ASSUME TypeOK
    PROVE  /\ Second \in Nat \ {0} /\ Long = 2 * Second + 1
           /\ DOMAIN Watchdogs = {"gps", "gpsLock", "heartbeat", "pong", "input", "imu"}
           /\ \A w \in DOMAIN Watchdogs : Watchdogs[w] \subseteq Sources /\ fed[w] \in 0 .. Long
           /\ \A s \in Sources : quiet[s] \in 0 .. Long
BY SecondAssumption DEF TypeOK, Long, Watchdogs, Sources

LEMMA HeardResult ==
    ASSUME TypeOK, NEW source \in Sources, Heard(source)
    PROVE  /\ quiet' \in [Sources -> 0 .. Long]
           /\ \A s \in Sources : quiet'[s] = IF s = source THEN 0 ELSE quiet[s]
BY ClockTypes DEF TypeOK, Heard

(* A message that starts a timeout is heard as it starts.                  *)
LEMMA StartKeeps ==
    ASSUME TypeOK, TimeoutsAgree, NEW name \in DOMAIN Starters,
           Start(name), Heard(Starters[name])
    PROVE  TimeoutsAgree' /\ timeouts' \in [{"rmc", "gga", "input"} -> -1 .. Second]
<1>1. Starters[name] \in Sources  BY DEF Starters, Sources
<1>2. \A s \in Sources : quiet'[s] = IF s = Starters[name] THEN 0 ELSE quiet[s]
  BY <1>1, HeardResult
<1>3. /\ timeouts' = [timeouts EXCEPT ![name] = Second]
      /\ timeouts \in [{"rmc", "gga", "input"} -> -1 .. Second]
      /\ DOMAIN Starters = {"rmc", "gga", "input"} /\ Second \in Nat
  BY SecondAssumption DEF Start, TypeOK, Starters
<1>4. timeouts' \in [{"rmc", "gga", "input"} -> -1 .. Second]  BY <1>3
<1>5. ASSUME NEW t \in DOMAIN Starters, timeouts'[t] >= 0
      PROVE  quiet'[Starters[t]] = Second - timeouts'[t]
  <2>1. CASE t = name  BY <1>1, <1>2, <1>3, <2>1
  <2>2. CASE t # name
    <3>1. Starters[t] # Starters[name] /\ Starters[t] \in Sources
      BY <2>2 DEF Starters, Sources
    <3> QED  BY <1>2, <1>3, <1>5, <2>2, <3>1 DEF TimeoutsAgree
  <2> QED  BY <2>1, <2>2
<1> QED  BY <1>4, <1>5 DEF TimeoutsAgree

(* Other messages leave the timeouts to run on.                            *)
LEMMA StartlessKeeps ==
    ASSUME TypeOK, TimeoutsAgree, NEW source \in Sources,
           source \notin {"RMC", "GGA", "Input"}, UNCHANGED timeouts, Heard(source)
    PROVE  TimeoutsAgree'
<1>1. \A s \in Sources : quiet'[s] = IF s = source THEN 0 ELSE quiet[s]  BY HeardResult
<1>2. \A t \in DOMAIN Starters : Starters[t] \in Sources /\ Starters[t] # source
  BY DEF Starters, Sources
<1> QED  BY <1>1, <1>2 DEF TimeoutsAgree

(* No message makes the state any older.                                   *)
LEMMA OkKeeps ==
    ASSUME TypeOK, OkAgrees, NEW source \in Sources, Heard(source),
           due' = due, gps'.ok = gps.ok, input'.ok = input.ok
    PROVE  OkAgrees'
<1>1. \A s \in Sources : quiet'[s] = IF s = source THEN 0 ELSE quiet[s]  BY HeardResult
<1>2. OkAge' = OkAge /\ OkAge \in Nat  BY SecondAssumption DEF OkAge
<1>3. \A s \in Sources : quiet[s] <= OkAge => quiet'[s] <= OkAge  BY <1>1, <1>2
<1> QED  BY <1>2, <1>3 DEF OkAgrees, Sources

(* A watchdog is fed by its own sources, and by nothing else.              *)
LEMMA FeedKeeps ==
    ASSUME TypeOK, WatchdogsAgree, NEW w \in DOMAIN Watchdogs, NEW source \in Watchdogs[w],
           Feed(w), Heard(source), UNCHANGED timing
    PROVE  /\ WatchdogsAgree'
           /\ fed' \in [DOMAIN Watchdogs -> 0 .. Long] /\ seen' \subseteq DOMAIN Watchdogs
<1>1. source \in Sources  BY ClockTypes
<1>2. /\ quiet' \in [Sources -> 0 .. Long]
      /\ \A s \in Sources : quiet'[s] = IF s = source THEN 0 ELSE quiet[s]
  BY <1>1, HeardResult
<1>3. \A x \in DOMAIN Watchdogs : x # w => source \notin Watchdogs[x]
  BY DEF Watchdogs
<1>4. SeenAge' = SeenAge /\ SeenAge \in Nat
  BY SecondAssumption DEF SeenAge, timing, TypeOK
<1>5. \A x \in DOMAIN Watchdogs : fed'[x] = IF x = w THEN 0 ELSE fed[x]
  BY DEF Feed, TypeOK
<1>6. fed' \in [DOMAIN Watchdogs -> 0 .. Long] /\ seen' \subseteq DOMAIN Watchdogs
  BY ClockTypes DEF Feed, TypeOK
<1>7. ASSUME NEW x \in DOMAIN Watchdogs
      PROVE  /\ \A s \in Watchdogs[x] : fed'[x] <= quiet'[s]
             /\ fed'[x] = Long \/ \E s \in Watchdogs[x] : fed'[x] = quiet'[s]
             /\ x \in seen' => fed'[x] <= SeenAge'
             /\ fed'[x] <= Second => x \in seen'
  <2>1. Watchdogs[x] \subseteq Sources  BY ClockTypes
  <2>2. CASE x = w
    BY <1>1, <1>2, <1>4, <1>5, <2>1, <2>2 DEF Feed
  <2>3. CASE x # w
    <3>1. \A s \in Watchdogs[x] : quiet'[s] = quiet[s]  BY <1>2, <1>3, <2>1, <2>3
    <3>2. fed'[x] = fed[x] /\ (x \in seen' <=> x \in seen)  BY <1>5, <2>3 DEF Feed
    <3> QED  BY <1>4, <3>1, <3>2 DEF WatchdogsAgree
  <2> QED  BY <2>2, <2>3
<1>8. "heartbeat" \in due' => phase' = 0  BY DEF WatchdogsAgree, timing
<1>9. WatchdogsAgree'  BY <1>7, <1>8 DEF WatchdogsAgree, Long
<1> QED  BY <1>6, <1>9

-----------------------------------------------------------------------------
(* The messages keep the invariant.                                        *)

LEMMA HandleRMCKeeps ==
    ASSUME IInv, NEW msg \in Messages, msg.source = "RMC", HandleRMC(msg),
           Heard("RMC"), UNCHANGED <<trip, timing, demand>>
    PROVE  IInv'
<1>1. TypeOK /\ PidAgrees  BY DEF IInv
<1>2. "RMC" \in Sources /\ msg.knots \in Nat /\ msg.degrees \in 0 .. 360
  BY MessageResult DEF Sources
<1>3. Speed(msg.knots) \in Int /\ HeadingToRad(msg.degrees) \in Angles
  <2>1. msg.knots * Unit * 51444 \in Int  BY <1>2, UnitType
  <2> QED  BY <1>2, <2>1, HeadingToRadResult DEF Speed
<1>4. /\ gps' \in [ok : BOOLEAN, satellites : Nat \cup {-1}, speed : Int, track : Angles]
      /\ gps'.ok = gps.ok /\ gps'.track \in Angles
  BY <1>1, <1>3 DEF HandleRMC, TypeOK
<1>5. /\ pid' \in [Ti : Int, errLast : Int] /\ pid'.Ti \in -Limit .. Limit
      /\ u' \in Int /\ sp' \in Angles
  <2>1. CASE ~SteersByGps
    BY <1>1, <2>1 DEF HandleRMC, control, TypeOK, PidAgrees
  <2>2. CASE SteersByGps
    <3> DEFINE track == gps'.track
               g == HeadingGains(input)
               err == HeadingError(sp, input, track)
               next == Advance(pid, g, err)
    <3>1. /\ pid' = IF input.switch = Engaged THEN next ELSE Reset(next)
          /\ u' = Control(pid, g, err)
          /\ sp' = IF input.switch = Engaged THEN sp ELSE track
      BY <2>2 DEF HandleRMC, HeadingPid, HeadingOutput, HeadingSetPoint
    <3>2. input \in Inputs /\ sp \in Angles /\ track \in Angles
      BY <1>1, <1>4 DEF TypeOK, Inputs
    <3>3. /\ g \in Gain /\ g.TiLimit = Limit /\ g.UMin <= g.UMax
          /\ pid \in Pids(g.TiLimit) /\ Limit \in Nat
      BY <1>1, <2>2, <3>2, HeadingGainsResult, GainsResult, ControllerResult
         DEF SteersByGps
    <3>4. err \in Angles  BY <3>2, HeadingErrorResult
    <3> HIDE DEF track, g, err
    <3>5. err \in Int  BY <3>4, UnitType DEF Angles
    <3>6. next \in Pids(Limit)  BY <3>3, <3>5, AdvanceResult
    <3> HIDE DEF next
    <3>7. pid' \in Pids(Limit)  BY <3>1, <3>3, <3>6, ResetResult
    <3>8. u' \in Int
      <4>1. u' \in g.UMin .. g.UMax  BY <3>1, <3>3, <3>5, ControlResult
      <4> QED  BY <3>3, <4>1 DEF Gain
    <3> QED  BY <3>1, <3>2, <3>3, <3>7, <3>8 DEF Pids
  <2> QED  BY <2>1, <2>2
<1>6. TimeoutsAgree' /\ timeouts' \in [{"rmc", "gga", "input"} -> -1 .. Second]
  <2>1. "rmc" \in DOMAIN Starters /\ Starters["rmc"] = "RMC"  BY DEF Starters
  <2>2. Start("rmc") /\ TimeoutsAgree  BY DEF HandleRMC, IInv, Timely
  <2> QED  BY <1>1, <2>1, <2>2, StartKeeps
<1>7. /\ WatchdogsAgree'
      /\ fed' \in [DOMAIN Watchdogs -> 0 .. Long] /\ seen' \subseteq DOMAIN Watchdogs
  <2>1. "gps" \in DOMAIN Watchdogs /\ "RMC" \in Watchdogs["gps"]  BY DEF Watchdogs
  <2>2. Feed("gps") /\ WatchdogsAgree  BY DEF HandleRMC, IInv, Timely
  <2> QED  BY <1>1, <2>1, <2>2, FeedKeeps
<1>8. OkAgrees'
  <2>1. input'.ok = input.ok /\ due' = due /\ OkAgrees
    BY DEF HandleRMC, timing, IInv, Timely
  <2> QED  BY <1>1, <1>2, <1>4, <2>1, OkKeeps
<1>9. quiet' \in [Sources -> 0 .. Long]  BY <1>1, <1>2, HeardResult
<1>10. TypeOK'
  BY <1>1, <1>4, <1>5, <1>6, <1>7, <1>9 DEF TypeOK, HandleRMC, timing, Long, Angles
<1>11. PidAgrees'  BY <1>5 DEF PidAgrees, Limit, controller
<1>12. InputAgrees'  BY DEF IInv, InputAgrees, HandleRMC
<1> QED  BY <1>6, <1>7, <1>8, <1>10, <1>11, <1>12 DEF IInv, Timely

LEMMA HandleGGAKeeps ==
    ASSUME IInv, NEW msg \in Messages, msg.source = "GGA", HandleGGA(msg),
           Heard("GGA"), UNCHANGED <<trip, timing, demand>>
    PROVE  IInv'
<1>1. TypeOK /\ PidAgrees  BY DEF IInv
<1>2. "GGA" \in Sources /\ msg.satellites \in Nat  BY MessageResult DEF Sources
<1>3. /\ gps' \in [ok : BOOLEAN, satellites : Nat \cup {-1}, speed : Int, track : Angles]
      /\ gps'.ok = gps.ok
  BY <1>1, <1>2 DEF HandleGGA, TypeOK
<1>4. TimeoutsAgree' /\ timeouts' \in [{"rmc", "gga", "input"} -> -1 .. Second]
  <2>1. "gga" \in DOMAIN Starters /\ Starters["gga"] = "GGA"  BY DEF Starters
  <2>2. Start("gga") /\ TimeoutsAgree  BY DEF HandleGGA, IInv, Timely
  <2> QED  BY <1>1, <2>1, <2>2, StartKeeps
<1>5. WatchdogsAgree'
  <2>1. \A s \in Sources : quiet'[s] = IF s = "GGA" THEN 0 ELSE quiet[s]
    BY <1>1, <1>2, HeardResult
  <2>2. \A w \in DOMAIN Watchdogs : "GGA" \notin Watchdogs[w]  BY DEF Watchdogs
  <2>3. \A w \in DOMAIN Watchdogs : \A s \in Watchdogs[w] : quiet'[s] = quiet[s]
    BY <1>1, <2>1, <2>2, ClockTypes
  <2>4. fed' = fed /\ seen' = seen /\ due' = due /\ phase' = phase /\ WatchdogsAgree
    BY DEF HandleGGA, timing, IInv, Timely
  <2> QED  BY <2>3, <2>4 DEF WatchdogsAgree, SeenAge
<1>6. OkAgrees'
  <2>1. input'.ok = input.ok /\ due' = due /\ OkAgrees
    BY DEF HandleGGA, timing, IInv, Timely
  <2> QED  BY <1>1, <1>2, <1>3, <2>1, OkKeeps
<1>7. quiet' \in [Sources -> 0 .. Long]  BY <1>1, <1>2, HeardResult
<1>8. TypeOK'  BY <1>1, <1>3, <1>4, <1>7 DEF TypeOK, HandleGGA, timing, control, Long, Angles
<1>9. PidAgrees'  BY DEF IInv, PidAgrees, Limit, controller, HandleGGA, control
<1>10. InputAgrees'  BY DEF IInv, InputAgrees, HandleGGA
<1> QED  BY <1>4, <1>5, <1>6, <1>8, <1>9, <1>10 DEF IInv, Timely

LEMMA HandleInputKeeps ==
    ASSUME IInv, NEW msg \in Messages, msg.source = "Input", HandleInput(msg),
           Heard("Input"), UNCHANGED <<trip, timing, demand>>
    PROVE  IInv'
<1>1. TypeOK /\ PidAgrees  BY DEF IInv
<1>2. "Input" \in Sources /\ msg \in InputFrames  BY MessageResult DEF Sources
<1>3. /\ msg.reference \in Int /\ msg.steering \in Int
      /\ msg.dial \in Int /\ msg.switch \in Int
  BY <1>2 DEF InputFrames, Channel, Absent
<1> DEFINE factor == Scale(msg.reference)
           level == Scaled(msg.switch, factor)
<1>4. factor \in Nat \ {0}  BY <1>3, ScaleResult
<1>5. scale' = factor /\ raw' = msg  BY DEF HandleInput
<1>6. input' = [input EXCEPT !.steering = Scaled(msg.steering, factor),
                             !.dial = Scaled(msg.dial, factor),
                             !.switch = SwitchAt(level)]
  BY <1>5 DEF HandleInput
<1> HIDE DEF factor
<1>7. /\ Scaled(msg.steering, factor) \in Int /\ Scaled(msg.dial, factor) \in Int
      /\ level \in Int
  <2>1. factor \in Int  BY <1>4
  <2> QED  BY <1>3, <2>1, ScaledResult
<1>8. msg.switch = Absent => SwitchAt(level) = 0
  BY UnitType DEF SwitchAt, Scaled, Missing, Absent
<1> HIDE DEF level
<1>9. SwitchAt(level) \in 0 .. 2  BY <1>7, SwitchResult
<1>10. /\ input' \in [ok : BOOLEAN, switch : -1 .. 2, steering : Int, dial : Int]
       /\ input'.ok = input.ok /\ input'.switch = SwitchAt(level)
  <2> DEFINE steering == Scaled(msg.steering, factor)
             dial == Scaled(msg.dial, factor)
             switch == SwitchAt(level)
  <2>1. input' = [input EXCEPT !.steering = steering, !.dial = dial, !.switch = switch]
    BY <1>6
  <2>2. steering \in Int /\ dial \in Int /\ switch \in -1 .. 2  BY <1>7, <1>9
  <2>3. input \in [ok : BOOLEAN, switch : -1 .. 2, steering : Int, dial : Int]
    BY <1>1 DEF TypeOK
  <2> HIDE DEF steering, dial, switch
  <2> QED  BY <2>1, <2>2, <2>3 DEF switch
<1>11. TimeoutsAgree' /\ timeouts' \in [{"rmc", "gga", "input"} -> -1 .. Second]
  <2>1. "input" \in DOMAIN Starters /\ Starters["input"] = "Input"  BY DEF Starters
  <2>2. Start("input") /\ TimeoutsAgree  BY DEF HandleInput, IInv, Timely
  <2> QED  BY <1>1, <2>1, <2>2, StartKeeps
<1>12. /\ WatchdogsAgree'
       /\ fed' \in [DOMAIN Watchdogs -> 0 .. Long] /\ seen' \subseteq DOMAIN Watchdogs
  <2>1. "input" \in DOMAIN Watchdogs /\ "Input" \in Watchdogs["input"]  BY DEF Watchdogs
  <2>2. Feed("input") /\ WatchdogsAgree  BY DEF HandleInput, IInv, Timely
  <2> QED  BY <1>1, <2>1, <2>2, FeedKeeps
<1>13. OkAgrees'
  <2>1. gps'.ok = gps.ok /\ due' = due /\ OkAgrees
    BY DEF HandleInput, timing, IInv, Timely
  <2> QED  BY <1>1, <1>2, <1>10, <2>1, OkKeeps
<1>14. quiet' \in [Sources -> 0 .. Long]  BY <1>1, <1>2, HeardResult
<1>15. TypeOK'
  BY <1>1, <1>2, <1>4, <1>5, <1>10, <1>11, <1>12, <1>14
     DEF TypeOK, HandleInput, timing, control, Long, Angles
<1>16. PidAgrees'  BY DEF IInv, PidAgrees, Limit, controller, HandleInput, control
<1>17. InputAgrees'  BY <1>5, <1>8, <1>10 DEF InputAgrees, factor, level
<1> QED  BY <1>11, <1>12, <1>13, <1>15, <1>16, <1>17 DEF IInv, Timely

(* The messages that only show that their source is alive, and the rate of *)
(* turn.                                                                   *)
LEMMA SignKeeps ==
    ASSUME IInv, NEW w \in DOMAIN Watchdogs, NEW source \in Watchdogs[w],
           source \notin {"RMC", "GGA", "Input"}, Feed(w), Heard(source), rate' \in Int,
           UNCHANGED <<trip, timing, demand, timeouts, gps, input, scale, control, raw>>
    PROVE  IInv'
<1>1. TypeOK /\ PidAgrees  BY DEF IInv
<1>2. source \in Sources  BY <1>1, ClockTypes
<1>3. TimeoutsAgree'  BY <1>1, <1>2, StartlessKeeps DEF IInv, Timely
<1>4. /\ WatchdogsAgree'
      /\ fed' \in [DOMAIN Watchdogs -> 0 .. Long] /\ seen' \subseteq DOMAIN Watchdogs
  BY <1>1, FeedKeeps DEF IInv, Timely
<1>5. OkAgrees'
  <2>1. gps'.ok = gps.ok /\ input'.ok = input.ok /\ due' = due /\ OkAgrees
    BY DEF timing, IInv, Timely
  <2> QED  BY <1>1, <1>2, <2>1, OkKeeps
<1>6. quiet' \in [Sources -> 0 .. Long]  BY <1>1, <1>2, HeardResult
<1>7. TypeOK'  BY <1>1, <1>4, <1>6 DEF TypeOK, timing, control, Long, Angles
<1>8. PidAgrees'  BY <1>1 DEF PidAgrees, Limit, controller, control
<1>9. InputAgrees'  BY DEF IInv, InputAgrees
<1> QED  BY <1>3, <1>4, <1>5, <1>7, <1>8, <1>9 DEF IInv, Timely

LEMMA HandleKeeps ==
    ASSUME IInv, NEW msg \in Messages, Handle(msg)
    PROVE  IInv'
<1>0. ASSUME NEW w, HandleSign(w)
      PROVE  /\ Feed(w) /\ rate' \in Int
             /\ UNCHANGED <<timeouts, gps, input, scale, control, raw>>
  <2>1. Feed(w) /\ UNCHANGED <<timeouts, status, control, raw>>  BY <1>0 DEF HandleSign
  <2>2. rate \in Int  BY DEF IInv, TypeOK
  <2> QED  BY <2>1, <2>2 DEF status
<1>1. Heard(msg.source) /\ UNCHANGED <<trip, timing, demand>>  BY DEF Handle
<1>2. TypeOK  BY DEF IInv
<1>3. CASE msg.source = "RMC"
  <2>1. HandleRMC(msg) /\ Heard("RMC")  BY <1>1, <1>3 DEF Handle
  <2> QED  BY <1>1, <1>3, <2>1, HandleRMCKeeps
<1>4. CASE msg.source = "GGA"
  <2>1. HandleGGA(msg) /\ Heard("GGA")  BY <1>1, <1>4 DEF Handle
  <2> QED  BY <1>1, <1>4, <2>1, HandleGGAKeeps
<1>5. CASE msg.source = "VTG"
  <2>1. HandleVTG /\ Heard("VTG")  BY <1>1, <1>5 DEF Handle
  <2>2. /\ Feed("gps") /\ rate' \in Int
        /\ UNCHANGED <<timeouts, gps, input, scale, control, raw>>
    BY <1>2, <2>1 DEF HandleVTG, status, TypeOK
  <2>3. "gps" \in DOMAIN Watchdogs /\ "VTG" \in Watchdogs["gps"]  BY DEF Watchdogs
  <2> QED  BY <1>1, <2>1, <2>2, <2>3, SignKeeps
<1>6. CASE msg.source = "Input"
  <2>1. HandleInput(msg) /\ Heard("Input")  BY <1>1, <1>6 DEF Handle
  <2> QED  BY <1>1, <1>6, <2>1, HandleInputKeeps
<1>7. CASE msg.source = "Heartbeat"
  <2>1. HandleSign("heartbeat") /\ Heard("Heartbeat")  BY <1>1, <1>7 DEF Handle
  <2>2. /\ Feed("heartbeat") /\ rate' \in Int
        /\ UNCHANGED <<timeouts, gps, input, scale, control, raw>>
    BY <1>0, <2>1
  <2>3. "heartbeat" \in DOMAIN Watchdogs /\ "Heartbeat" \in Watchdogs["heartbeat"]
    BY DEF Watchdogs
  <2> QED  BY <1>1, <2>1, <2>2, <2>3, SignKeeps
<1>8. CASE msg.source = "Pong"
  <2>1. HandleSign("pong") /\ Heard("Pong")  BY <1>1, <1>8 DEF Handle
  <2>2. /\ Feed("pong") /\ rate' \in Int
        /\ UNCHANGED <<timeouts, gps, input, scale, control, raw>>
    BY <1>0, <2>1
  <2>3. "pong" \in DOMAIN Watchdogs /\ "Pong" \in Watchdogs["pong"]  BY DEF Watchdogs
  <2> QED  BY <1>1, <2>1, <2>2, <2>3, SignKeeps
<1>9. CASE msg.source = "IMU"
  <2>1. HandleIMU(msg) /\ Heard("IMU")  BY <1>1, <1>9 DEF Handle
  <2>2. /\ Feed("imu") /\ rate' \in Int
        /\ UNCHANGED <<timeouts, gps, input, scale, control, raw>>
    BY <1>9, <2>1, MessageResult DEF HandleIMU
  <2>3. "imu" \in DOMAIN Watchdogs /\ "IMU" \in Watchdogs["imu"]  BY DEF Watchdogs
  <2> QED  BY <1>1, <2>1, <2>2, <2>3, SignKeeps
<1> QED  BY <1>3, <1>4, <1>5, <1>6, <1>7, <1>8, <1>9, MessageResult DEF Sources

-----------------------------------------------------------------------------
(* The tickers keep the invariant.                                         *)

(* What checkAll() leaves for the controller.                              *)
LEMMA CheckedResult ==
    ASSUME IInv
    PROVE  /\ CheckedInput \in Inputs
           /\ CheckedInput.ok = Running("input")
           /\ CheckedInput.dial = input.dial
           /\ CheckedInput.switch = IF Running("input") THEN input.switch ELSE -1
           /\ CheckedGps \in [ok : BOOLEAN, satellites : Nat \cup {-1},
                               speed : Int, track : Angles]
           /\ CheckedGps.ok => Running("rmc") /\ Running("gga")
<1>1. input \in Inputs  BY DEF IInv, TypeOK, Inputs
<1>2. gps \in [ok : BOOLEAN, satellites : Nat \cup {-1}, speed : Int, track : Angles]
  BY DEF IInv, TypeOK
<1>3. Running("input") \in BOOLEAN  BY DEF Running
<1> DEFINE ok == Running("rmc") /\ Running("gga") /\ gps.satellites >= 6
<1>4. ok \in BOOLEAN /\ (ok => Running("rmc") /\ Running("gga"))  BY DEF Running
<1>5. Satellites \in Nat \cup {-1}  BY <1>2 DEF Satellites
<1>6. CheckedGps = [gps EXCEPT !.ok = ok, !.satellites = Satellites]  BY DEF CheckedGps
<1> HIDE DEF ok
<1>7. /\ CheckedGps \in [ok : BOOLEAN, satellites : Nat \cup {-1}, speed : Int, track : Angles]
      /\ CheckedGps.ok = ok
  BY <1>2, <1>4, <1>5, <1>6
<1>8. /\ CheckedInput \in Inputs /\ CheckedInput.ok = Running("input")
      /\ CheckedInput.dial = input.dial
      /\ CheckedInput.switch = IF Running("input") THEN input.switch ELSE -1
  <2> DEFINE running == Running("input")
             switch == IF running THEN input.switch ELSE -1
  <2>1. CheckedInput = [input EXCEPT !.ok = running, !.switch = switch]  BY DEF CheckedInput
  <2>2. switch \in -1 .. 2  BY <1>1 DEF Inputs
  <2>3. running \in BOOLEAN  BY <1>3
  <2> HIDE DEF running, switch
  <2>4. CheckedInput \in Inputs  BY <1>1, <2>1, <2>2, <2>3 DEF Inputs
  <2>5. /\ CheckedInput.ok = running /\ CheckedInput.dial = input.dial
        /\ CheckedInput.switch = switch
    BY <1>1, <2>1 DEF Inputs
  <2> QED  BY <2>4, <2>5 DEF running, switch
<1> QED  BY <1>4, <1>7, <1>8

LEMMA RunningResult ==
    ASSUME IInv
    PROVE  \A t \in DOMAIN Starters :
              Running(t) => quiet[Starters[t]] \in 0 .. Second
<1> SUFFICES ASSUME NEW t \in DOMAIN Starters, Running(t)
             PROVE  quiet[Starters[t]] \in 0 .. Second
  OBVIOUS
<1>1. timeouts[t] \in 0 .. Second  BY SecondAssumption DEF IInv, TypeOK, Starters, Running
<1>2. quiet[Starters[t]] = Second - timeouts[t]  BY <1>1 DEF IInv, Timely, TimeoutsAgree
<1> QED  BY <1>1, <1>2, SecondAssumption

(* What is sent with a tick.                                               *)
LEMMA SentResult ==
    ASSUME IInv, StepTick
    PROVE  LET full == Unit \div Scale(raw.reference)
               in   == CheckedInput
           IN  /\ demand' \in [steering : {Absent} \cup (-full .. full),
                                throttle : {Absent} \cup (-full .. full)]
               /\ full \in 0 .. 93
               /\ in.switch < Engages => Silent
               /\ controller \in {"speed", "rot"} /\ in.switch >= 1 => ~Silent
<1> DEFINE P == Scale(raw.reference)
           full == Unit \div P
           in == CheckedInput
           d == Demanded(in)
<1>1. TypeOK /\ PidAgrees /\ InputAgrees  BY DEF IInv
<1>2. raw.reference \in Int  BY <1>1 DEF TypeOK, InputFrames
<1>3. P \in Nat \ {0} /\ full \in 0 .. 93 /\ scale \in {0, P}
  BY <1>1, <1>2, ScaleResult DEF InputAgrees
<1>4. in \in Inputs  BY CheckedResult
<1>5. /\ d \in [steering : Int, throttle : Int]
      /\ in.switch < Engages => d = Released
      /\ controller \in {"speed", "rot"} /\ in.switch >= 1 =>
            d.steering >= -9 * Unit \/ d.throttle >= -9 * Unit
  BY <1>1, <1>4, DemandedResult
<1>6. demand' = [steering |-> ToDemand(d.steering + Offset), throttle |-> ToDemand(d.throttle)]
  BY DEF StepTick
<1>7. in.switch >= 1 => scale = P
  <2>1. in.switch >= 1 => input.switch >= 1  BY CheckedResult
  <2> QED  BY <1>1, <2>1 DEF InputAgrees
<1>8. Offset \in -Unit .. 0  BY UnitType DEF Offset
<1> HIDE DEF d, in
<1> DEFINE v == d.steering + Offset
<1>9. v \in Int /\ d.throttle \in Int  BY <1>5, <1>8, UnitType
<1>10. v <= d.steering /\ v >= d.steering - Unit  BY <1>5, <1>8, UnitType
<1> HIDE DEF v
<1>11. \A w \in {v, d.throttle} :
          /\ ToDemand(w) \in {Absent} \cup (-full .. full)
          /\ w < -10 * Unit => ToDemand(w) = Absent
          /\ scale = P /\ w >= -10 * Unit => ToDemand(w) # Absent
  BY <1>3, <1>9, ToDemandResult
<1>12. demand' = [steering |-> ToDemand(v), throttle |-> ToDemand(d.throttle)]
  BY <1>6 DEF v
<1>13. demand' \in [steering : {Absent} \cup (-full .. full),
                    throttle : {Absent} \cup (-full .. full)]
  BY <1>11, <1>12
<1>14. ASSUME in.switch < Engages PROVE Silent
  <2>1. d.steering = -128 * Unit /\ d.throttle = -128 * Unit
    BY <1>5, <1>14 DEF Released, Demands, Missing
  <2>2. v < -10 * Unit /\ d.throttle < -10 * Unit  BY <1>9, <1>10, <2>1, UnitType
  <2> QED  BY <1>11, <1>12, <2>2 DEF Silent
<1>15. ASSUME controller \in {"speed", "rot"}, in.switch >= 1 PROVE ~Silent
  <2>1. v >= -10 * Unit \/ d.throttle >= -10 * Unit
    BY <1>5, <1>9, <1>10, <1>15, UnitType
  <2> QED  BY <1>7, <1>11, <1>12, <1>15, <2>1 DEF Silent
<1> QED  BY <1>3, <1>13, <1>14, <1>15 DEF in

LEMMA StepTickKeeps ==
    ASSUME IInv, StepTick
    PROVE  IInv'
<1>1. TypeOK /\ PidAgrees /\ InputAgrees  BY DEF IInv
<1>2. /\ input' = CheckedInput /\ gps' = CheckedGps /\ pid' = SteppedPid(CheckedInput)
      /\ due' = due \ {"step"}
      /\ UNCHANGED <<trip, phase, timeouts, fed, seen, rate, scale, u, sp, quiet, raw>>
  BY DEF StepTick
<1>3. pid' \in Pids(Limit)  BY <1>1, <1>2, CheckedResult, SteppedPidResult
<1>4. Limit \in Nat  BY <1>1, ControllerResult
<1>5. pid' \in [Ti : Int, errLast : Int] /\ pid'.Ti \in -Limit .. Limit
  BY <1>3, <1>4 DEF Pids
<1>6. demand' \in [steering : Int, throttle : Int]
  <2>1. PICK full \in Int : demand' \in [steering : {Absent} \cup (-full .. full),
                                         throttle : {Absent} \cup (-full .. full)]
    BY SentResult
  <2> QED  BY <2>1 DEF Absent
<1>7. /\ input' \in [ok : BOOLEAN, switch : -1 .. 2, steering : Int, dial : Int]
      /\ gps' \in [ok : BOOLEAN, satellites : Nat \cup {-1}, speed : Int, track : Angles]
  BY <1>2, CheckedResult DEF Inputs
<1>8. TypeOK'  BY <1>1, <1>2, <1>5, <1>6, <1>7 DEF TypeOK, Long, Angles
<1>9. TimeoutsAgree'  BY <1>2 DEF IInv, Timely, TimeoutsAgree
<1>10. OkAgrees'
  <2>1. OkAge' = Second  BY <1>2 DEF OkAge
  <2>2. /\ gps'.ok => Running("rmc") /\ Running("gga")
        /\ input'.ok => Running("input")
    BY <1>2, CheckedResult
  <2>3. /\ Running("rmc") => quiet["RMC"] \in 0 .. Second
        /\ Running("gga") => quiet["GGA"] \in 0 .. Second
        /\ Running("input") => quiet["Input"] \in 0 .. Second
    BY RunningResult DEF Starters
  <2> QED  BY <1>2, <2>1, <2>2, <2>3, SecondAssumption DEF OkAgrees
<1>11. WatchdogsAgree'
  BY <1>2 DEF IInv, Timely, WatchdogsAgree, SeenAge, Long
<1>12. InputAgrees'
  <2>1. input'.switch >= 1 => input'.switch = input.switch  BY <1>2, CheckedResult
  <2> QED  BY <1>1, <1>2, <2>1 DEF InputAgrees
<1>13. PidAgrees'  BY <1>2, <1>5 DEF PidAgrees, Limit, controller
<1> QED  BY <1>8, <1>9, <1>10, <1>11, <1>12, <1>13 DEF IInv, Timely

LEMMA HeartbeatTickKeeps ==
    ASSUME IInv, HeartbeatTick
    PROVE  IInv'
<1>1. /\ due' = due \ {"heartbeat"} /\ seen' = {w \in seen : fed[w] <= Second}
      /\ phase = 0 /\ TypeOK
  BY DEF IInv, Timely, WatchdogsAgree, HeartbeatTick, CheckWatchdogs
<1>2. UNCHANGED <<trip, phase, timeouts, fed, gps, rate, input, scale, pid, u, sp,
                  demand, quiet, raw>>
  BY DEF HeartbeatTick, status, control
<1>3. TypeOK'  BY <1>1, <1>2 DEF TypeOK, Long, Angles
<1>4. TimeoutsAgree' /\ OkAgrees'
  BY <1>1, <1>2 DEF IInv, Timely, TimeoutsAgree, OkAgrees, OkAge
<1>5. SeenAge' = Second  BY <1>1, <1>2, SecondAssumption DEF SeenAge
<1>6. WatchdogsAgree'
  BY <1>1, <1>2, <1>5 DEF IInv, Timely, WatchdogsAgree, Long
<1>7. InputAgrees' /\ PidAgrees'
  BY <1>2 DEF IInv, InputAgrees, PidAgrees, Limit, controller
<1> QED  BY <1>3, <1>4, <1>6, <1>7 DEF IInv, Timely

(* Everything gets older together.                                         *)
LEMMA TimePassesKeeps ==
    ASSUME IInv, TimePasses
    PROVE  IInv'
<1>1. TypeOK  BY DEF IInv
<1>2. UNCHANGED <<trip, seen, gps, rate, input, scale, pid, u, sp, demand, raw>>
  BY DEF TimePasses, status, control
<1>3. /\ \A s \in Sources : quiet[s] \in 0 .. Long /\ quiet'[s] = Older(quiet[s])
      /\ \A w \in DOMAIN Watchdogs : fed[w] \in 0 .. Long /\ fed'[w] = Older(fed[w])
      /\ quiet' \in [Sources -> 0 .. Long] /\ fed' \in [DOMAIN Watchdogs -> 0 .. Long]
  <2>1. \A age \in 0 .. Long : Older(age) \in 0 .. Long
    BY SecondAssumption DEF Older, Long
  <2>2. quiet \in [Sources -> 0 .. Long] /\ fed \in [DOMAIN Watchdogs -> 0 .. Long]
    BY <1>1 DEF TypeOK
  <2>3. quiet' = [s \in Sources |-> Older(quiet[s])]
        /\ fed' = [w \in DOMAIN Watchdogs |-> Older(fed[w])]
    BY <2>2 DEF TimePasses
  <2> QED  BY <2>1, <2>2, <2>3
<1>4. \A t \in {"rmc", "gga", "input"} :
         /\ timeouts[t] \in -1 .. Second
         /\ timeouts'[t] = IF timeouts[t] < 0 THEN -1 ELSE timeouts[t] - 1
  BY <1>1 DEF TypeOK, TimePasses
<1>5. timeouts' \in [{"rmc", "gga", "input"} -> -1 .. Second]
  BY <1>1, SecondAssumption DEF TypeOK, TimePasses
<1>6. phase \in 0 .. Second - 1 /\ due = {}  BY <1>1 DEF TypeOK, TimePasses
<1>7. phase' = IF phase = Second - 1 THEN 0 ELSE phase + 1
  <2>1. phase' = (phase + 1) % Second  BY DEF TimePasses
  <2>2. phase \in Nat /\ Second \in Nat \ {0}  BY <1>6, SecondAssumption
  <2>3. phase % Second = phase
    <3>1. phase = Second * 0 + phase /\ phase \in Int  BY <2>2
    <3> QED  BY <1>6, <2>2, <3>1, RemainderUnique
  <2> QED  BY <2>1, <2>2, <2>3, RemainderOfNext
<1>8. /\ due' = IF phase' = 0 THEN {"step", "heartbeat"} ELSE {"step"}
      /\ phase' \in 0 .. Second - 1
  BY <1>6, <1>7, SecondAssumption DEF TimePasses
<1>9. TypeOK'  BY <1>1, <1>2, <1>3, <1>5, <1>8 DEF TypeOK, Long, Angles
<1>10. \A age \in 0 .. Long : age <= Second => Older(age) = age + 1
  BY SecondAssumption DEF Older, Long
<1>11. TimeoutsAgree'
  <2> SUFFICES ASSUME NEW t \in DOMAIN Starters, timeouts'[t] >= 0
               PROVE  quiet'[Starters[t]] = Second - timeouts'[t]
    BY DEF TimeoutsAgree
  <2>1. t \in {"rmc", "gga", "input"} /\ Starters[t] \in Sources
    BY DEF Starters, Sources
  <2>2. timeouts[t] \in 0 .. Second /\ timeouts'[t] = timeouts[t] - 1
    BY <1>4, <2>1, SecondAssumption
  <2>3. quiet[Starters[t]] = Second - timeouts[t]
    BY <2>2 DEF IInv, Timely, TimeoutsAgree
  <2> QED  BY <1>3, <1>10, <2>1, <2>2, <2>3, SecondAssumption
<1>12. OkAgrees'
  <2>1. OkAge = Second /\ OkAge' = Second + 1  BY <1>6, <1>8 DEF OkAge
  <2>2. \A s \in Sources : quiet[s] <= OkAge => quiet'[s] <= OkAge'
    BY <1>3, <1>10, <2>1, SecondAssumption
  <2>3. OkAgrees  BY DEF IInv, Timely
  <2> QED  BY <1>2, <2>2, <2>3 DEF OkAgrees, Sources
<1>13. WatchdogsAgree'
  <2>1. SeenAge = Second + phase /\ SeenAge' = Second + phase + 1
    BY <1>6, <1>7, <1>8, SecondAssumption DEF SeenAge
  <2>2. "heartbeat" \in due' => phase' = 0  BY <1>8
  <2> SUFFICES ASSUME NEW w \in DOMAIN Watchdogs
               PROVE  /\ \A s \in Watchdogs[w] : fed'[w] <= quiet'[s]
                      /\ fed'[w] = Long \/ \E s \in Watchdogs[w] : fed'[w] = quiet'[s]
                      /\ w \in seen' => fed'[w] <= SeenAge'
                      /\ fed'[w] <= Second => w \in seen'
    BY <2>2 DEF WatchdogsAgree, Long
  <2>3. Watchdogs[w] \subseteq Sources  BY <1>1, ClockTypes
  <2>4. /\ \A s \in Watchdogs[w] : fed[w] <= quiet[s]
        /\ fed[w] = Long \/ \E s \in Watchdogs[w] : fed[w] = quiet[s]
        /\ w \in seen => fed[w] <= SeenAge
        /\ fed[w] <= Second => w \in seen
    BY DEF IInv, Timely, WatchdogsAgree
  <2>5. \A a, b \in 0 .. Long : a <= b => Older(a) <= Older(b)
    BY SecondAssumption DEF Older, Long
  <2>6. \A s \in Watchdogs[w] : fed'[w] <= quiet'[s]  BY <1>3, <2>3, <2>4, <2>5
  <2>7. fed'[w] = Long \/ \E s \in Watchdogs[w] : fed'[w] = quiet'[s]
    BY <1>3, <2>3, <2>4 DEF Older
  <2>8. \A age \in 0 .. Long : Older(age) <= age + 1 /\ (Older(age) <= Second => age <= Second)
    BY SecondAssumption DEF Older, Long
  <2>9. w \in seen' => fed'[w] <= SeenAge'
    <3>1. fed[w] \in Int /\ fed'[w] \in Int /\ fed'[w] <= fed[w] + 1
      BY <1>3, <2>8, SecondAssumption DEF Long
    <3> QED  BY <1>2, <1>6, <2>1, <2>4, <3>1, SecondAssumption
  <2>10. fed'[w] <= Second => w \in seen'  BY <1>2, <1>3, <2>4, <2>8
  <2> QED  BY <2>6, <2>7, <2>9, <2>10
<1>14. InputAgrees' /\ PidAgrees'
  BY <1>2 DEF IInv, InputAgrees, PidAgrees, Limit, controller
<1> QED  BY <1>9, <1>11, <1>12, <1>13, <1>14 DEF IInv, Timely

-----------------------------------------------------------------------------
(* The invariant.                                                          *)

LEMMA InitIInv == Init => IInv
<1> SUFFICES ASSUME Init PROVE IInv  OBVIOUS
<1>1. Second \in Nat \ {0} /\ Long = 2 * Second + 1  BY SecondAssumption DEF Long
<1>2. trip \in DOMAIN Trips /\ phase \in 0 .. Second - 1 /\ due = {}  BY <1>1 DEF Init
<1>3. timeouts \in [{"rmc", "gga", "input"} -> -1 .. Second]  BY <1>1 DEF Init
<1>4. fed \in [DOMAIN Watchdogs -> 0 .. Long] /\ seen = {}  BY <1>1 DEF Init
<1>5. quiet \in [Sources -> 0 .. Long]  BY <1>1 DEF Init
<1>6. 0 \in Angles  BY UnitType DEF Angles
<1>7. gps \in [ok : BOOLEAN, satellites : Nat \cup {-1}, speed : Int, track : Angles]
  BY <1>6 DEF Init
<1>8. input \in [ok : BOOLEAN, switch : -1 .. 2, steering : Int, dial : Int]  BY DEF Init
<1>9. raw \in InputFrames  BY DEF Init, NoInput, InputFrames, Channel, Absent
<1>10. /\ rate \in Int /\ scale \in Nat /\ pid \in [Ti : Int, errLast : Int]
       /\ u \in Int /\ sp \in Angles /\ demand \in [steering : Int, throttle : Int]
  BY <1>6 DEF Init, NewPid, Absent
<1>11. TypeOK
  BY <1>2, <1>3, <1>4, <1>5, <1>7, <1>8, <1>9, <1>10 DEF TypeOK
<1>12. TimeoutsAgree  BY DEF Init, TimeoutsAgree, Starters
<1>13. OkAgrees  BY DEF Init, OkAgrees
<1>14. WatchdogsAgree
  <2>1. \A w \in DOMAIN Watchdogs : fed[w] = Long  BY DEF Init
  <2>2. \A w \in DOMAIN Watchdogs : \A s \in Watchdogs[w] : quiet[s] = Long
    BY <1>11, ClockTypes DEF Init
  <2> QED  BY <1>1, <1>2, <1>4, <2>1, <2>2 DEF WatchdogsAgree
<1>15. InputAgrees  BY DEF Init, InputAgrees
<1>16. PidAgrees
  <2>1. Limit \in Nat  BY GainAssumption DEF Limit
  <2> QED  BY <2>1 DEF Init, NewPid, PidAgrees
<1> QED  BY <1>11, <1>12, <1>13, <1>14, <1>15, <1>16 DEF IInv, Timely

LEMMA NextIInv == IInv /\ [Next]_vars => IInv'
<1> SUFFICES ASSUME IInv, [Next]_vars PROVE IInv'  OBVIOUS
<1>1. CASE Arrivals
  <2>1. trip \in DOMAIN Trips  BY DEF IInv, TypeOK
  <2>2. PICK msg \in Trips[trip].messages : Handle(msg)  BY <1>1 DEF Arrivals
  <2>3. msg \in Messages  BY <2>1, TripAssumption
  <2> QED  BY <2>2, <2>3, HandleKeeps
<1>2. CASE StepTick  BY <1>2, StepTickKeeps
<1>3. CASE HeartbeatTick  BY <1>3, HeartbeatTickKeeps
<1>4. CASE TimePasses  BY <1>4, TimePassesKeeps
<1>5. CASE UNCHANGED vars
  BY <1>5 DEF vars, IInv, TypeOK, Timely, TimeoutsAgree, OkAgrees, OkAge, WatchdogsAgree,
              SeenAge, InputAgrees, PidAgrees, Limit, controller, Long, Angles
<1> QED  BY <1>1, <1>2, <1>3, <1>4, <1>5 DEF Next

(* The history, the clocks and the integral agree in every state.          *)
THEOREM Invariance == Spec => []IInv
BY InitIInv, NextIInv, PTL DEF Spec

(* Every variable keeps its type, whatever arrives: the angles stay within *)
(* half a turn, the timeouts within a second.                              *)
THEOREM TypeCorrect == Spec => []TypeOK
<1>1. IInv => TypeOK  BY DEF IInv
<1> QED  BY <1>1, Invariance, PTL

-----------------------------------------------------------------------------
(* The properties.                                                         *)

(* The watchdogs and the Ok flags of the driver are never far from what    *)
(* was heard: watchdog.go, timeout.go and checkAll() together.             *)
THEOREM NoticesSilence == Spec => []SilenceNoticed
<1>1. IInv => SilenceNoticed
  <2> SUFFICES ASSUME IInv PROVE SilenceNoticed  OBVIOUS
  <2>1. Second \in Nat \ {0} /\ Long = 2 * Second + 1  BY SecondAssumption DEF Long
  <2>2. TypeOK /\ OkAgrees /\ WatchdogsAgree  BY DEF IInv, Timely
  <2>3. SeenAge \in 0 .. 2 * Second /\ OkAge \in Second .. Second + 1
    BY <2>1, <2>2 DEF SeenAge, OkAge, TypeOK
  <2>4. ASSUME NEW w \in DOMAIN Watchdogs
        PROVE  /\ (\E s \in Watchdogs[w] : quiet[s] <= Second) => w \in seen
               /\ w \in seen => \E s \in Watchdogs[w] : quiet[s] <= 2 * Second
    <3>1. /\ Watchdogs[w] \subseteq Sources /\ fed[w] \in 0 .. Long
          /\ \A s \in Sources : quiet[s] \in 0 .. Long
      BY <2>2, ClockTypes
    <3>2. /\ \A s \in Watchdogs[w] : fed[w] <= quiet[s]
          /\ fed[w] = Long \/ \E s \in Watchdogs[w] : fed[w] = quiet[s]
          /\ w \in seen => fed[w] <= SeenAge
          /\ fed[w] <= Second => w \in seen
      BY <2>2 DEF WatchdogsAgree
    <3>3. ASSUME NEW s \in Watchdogs[w], quiet[s] <= Second PROVE w \in seen
      BY <2>1, <3>1, <3>2, <3>3
    <3>4. ASSUME w \in seen PROVE \E s \in Watchdogs[w] : quiet[s] <= 2 * Second
      <4>1. fed[w] <= 2 * Second  BY <2>1, <2>3, <3>1, <3>2, <3>4
      <4> QED  BY <2>1, <3>2, <4>1
    <3> QED  BY <3>3, <3>4
  <2>5. /\ gps.ok => quiet["RMC"] <= Second + 1 /\ quiet["GGA"] <= Second + 1
        /\ input.ok => quiet["Input"] <= Second + 1
    <3>1. \A s \in Sources : quiet[s] \in Int  BY <2>1, <2>2, ClockTypes
    <3> QED  BY <2>1, <2>2, <2>3, <3>1 DEF OkAgrees, Sources
  <2> QED  BY <2>4, <2>5 DEF SilenceNoticed
<1> QED  BY <1>1, Invariance, PTL

(* step() sends a demand only on an Input frame of the last second with    *)
(* the switch where it engages the controller of the trip.                 *)
THEOREM EngagedDrives == Spec => DrivesOnlyEngaged
<1>1. ASSUME IInv, StepTick, ~Silent
      PROVE  /\ quiet["Input"] <= Second
             /\ raw.switch # Absent
             /\ SwitchAt(Scaled(raw.switch, Scale(raw.reference)))
                   >= IF controller = "heading" THEN 2 ELSE 1
  <2>1. ~(CheckedInput.switch < Engages)  BY <1>1, SentResult
  <2>2. /\ CheckedInput.switch \in -1 .. 2 /\ Engages \in 1 .. 2
        /\ CheckedInput.switch = IF Running("input") THEN input.switch ELSE -1
    BY <1>1, CheckedResult DEF Inputs, Engages
  <2>3. Running("input") /\ input.switch >= Engages /\ input.switch >= 1  BY <2>1, <2>2
  <2>4. quiet["Input"] \in 0 .. Second  BY <1>1, <2>3, RunningResult DEF Starters
  <2>5. /\ raw.switch # Absent
        /\ input.switch = SwitchAt(Scaled(raw.switch, Scale(raw.reference)))
    BY <1>1, <2>3 DEF IInv, InputAgrees
  <2> QED  BY <2>3, <2>4, <2>5, SecondAssumption DEF Engages
<1>2. IInv /\ [Next]_vars =>
         [(StepTick /\ ~Silent) =>
             /\ quiet["Input"] <= Second
             /\ raw.switch # Absent
             /\ SwitchAt(Scaled(raw.switch, Scale(raw.reference)))
                   >= IF controller = "heading" THEN 2 ELSE 1]_vars
  BY <1>1
<1> QED  BY <1>2, Invariance, PTL DEF Spec, DrivesOnlyEngaged

(* Whatever the controller computes, toDemand() sends a value the board    *)
(* can reach or none; it never wraps.                                      *)
THEOREM DemandsInRange == Spec => DemandInRange
<1>1. ASSUME IInv, StepTick
      PROVE  LET full == Unit \div Scale(raw.reference)
             IN  {demand'.steering, demand'.throttle} \subseteq {Absent} \cup (-full .. full)
  BY <1>1, SentResult
<1>2. IInv /\ [Next]_vars =>
         [StepTick => LET full == Unit \div Scale(raw.reference)
                      IN  {demand'.steering, demand'.throttle} \subseteq
                              {Absent} \cup (-full .. full)]_vars
  BY <1>1
<1> QED  BY <1>2, Invariance, PTL DEF Spec, DemandInRange

(* The PID moves with the ticker, or with a position when the heading is   *)
(* controlled.                                                             *)
LEMMA PidMoves ==
    ASSUME IInv, [Next]_vars, pid' # pid
    PROVE  \/ StepTick /\ controller \in {"speed", "rot"}
           \/ /\ SteersByGps /\ input' = input /\ gps'.track \in Angles
              /\ pid' = HeadingPid(pid, sp, input, gps'.track)
<1>1. gps'.track \in Angles
  <2>1. IInv'  BY NextIInv
  <2> QED  BY <2>1 DEF IInv, TypeOK, Angles
<1>2. CASE Arrivals
  <2>1. trip \in DOMAIN Trips  BY DEF IInv, TypeOK
  <2>2. PICK msg \in Trips[trip].messages : Handle(msg)  BY <1>2 DEF Arrivals
  <2>3. msg.source \in Sources  BY <2>1, TripAssumption, MessageResult
  <2>4. CASE msg.source = "RMC"
    <3>1. HandleRMC(msg)  BY <2>2, <2>4 DEF Handle
    <3>2. SteersByGps  BY <3>1 DEF HandleRMC, control
    <3>3. input' = input /\ pid' = HeadingPid(pid, sp, input, gps'.track)
      BY <3>1, <3>2 DEF HandleRMC
    <3> QED  BY <1>1, <3>2, <3>3
  <2>5. CASE msg.source # "RMC"
    <3>1. msg.source = "GGA" => pid' = pid  BY <2>2 DEF Handle, HandleGGA, control
    <3>2. msg.source = "VTG" => pid' = pid  BY <2>2 DEF Handle, HandleVTG, control
    <3>3. msg.source = "Input" => pid' = pid  BY <2>2 DEF Handle, HandleInput, control
    <3>4. msg.source \in {"Heartbeat", "Pong"} => pid' = pid
      BY <2>2 DEF Handle, HandleSign, control
    <3>5. msg.source = "IMU" => pid' = pid  BY <2>2 DEF Handle, HandleIMU, control
    <3> QED  BY <2>3, <2>5, <3>1, <3>2, <3>3, <3>4, <3>5 DEF Sources
  <2> QED  BY <2>4, <2>5
<1>3. CASE StepTick
  <2>1. controller \notin {"speed", "rot"} => SteppedPid(CheckedInput) = pid
    BY CheckedResult, SteppedPidResult DEF IInv
  <2> QED  BY <1>3, <2>1 DEF StepTick
<1>4. CASE HeartbeatTick  BY <1>4 DEF HeartbeatTick, control
<1>5. CASE TimePasses  BY <1>5 DEF TimePasses, control
<1>6. CASE UNCHANGED vars  BY <1>6 DEF vars
<1> QED  BY <1>2, <1>3, <1>4, <1>5, <1>6 DEF Next

(* The PID after a position.                                               *)
LEMMA HeadingPidResult ==
    ASSUME IInv, SteersByGps, NEW track \in Angles
    PROVE  LET next == HeadingPid(pid, sp, input, track)
           IN  /\ next.errLast = HeadingError(sp, input, track)
               /\ \/ (next.Ti - pid.Ti) * next.errLast >= 0
                  \/ next.Ti = 0 /\ input.switch < Engaged
<1> DEFINE g == HeadingGains(input)
           err == HeadingError(sp, input, track)
           moved == Advance(pid, g, err)
           next == HeadingPid(pid, sp, input, track)
<1>1. next = IF input.switch = Engaged THEN moved ELSE Reset(moved)  BY DEF HeadingPid
<1>2. input \in Inputs /\ sp \in Angles /\ TypeOK /\ PidAgrees
  BY DEF IInv, TypeOK, Inputs, Angles
<1>3. g \in Gain /\ pid \in Pids(g.TiLimit) /\ g.TiLimit \in Nat /\ g.Ki >= 0
  BY <1>2, HeadingGainsResult, GainsResult, ControllerResult DEF SteersByGps, Gain
<1>4. err \in Int
  <2>1. err \in Angles  BY <1>2, HeadingErrorResult
  <2> HIDE DEF err
  <2> QED  BY <2>1, UnitType DEF Angles
<1> HIDE DEF g, err
<1>5. moved \in Pids(g.TiLimit)  BY <1>3, <1>4, AdvanceResult
<1>6. moved.errLast = err  BY DEF Advance
<1>7. (moved.Ti - pid.Ti) * err >= 0  BY <1>3, <1>4, AdvanceResult
<1> HIDE DEF moved, next
<1>8. CASE input.switch = Engaged  BY <1>1, <1>6, <1>7, <1>8 DEF err, next
<1>9. CASE input.switch # Engaged
  <2>1. next = Reset(moved)  BY <1>1, <1>9
  <2>2. next.Ti = 0 /\ next.errLast = err  BY <1>5, <1>6, <2>1 DEF Reset, Pids
  <2>3. input.switch < Engaged  BY <1>2, <1>9 DEF Inputs, Engaged
  <2> QED  BY <2>2, <2>3 DEF err, next
<1> QED  BY <1>8, <1>9

(* The integral of pid.go moves towards the error or is dropped, in every  *)
(* controller, whatever the gains; a released one has none.                *)
THEOREM IntegralFollows == Spec => IntegralFollowsError
<1> DEFINE Follows ==
               /\ pid' # pid /\ (controller = "speed" => input.dial >= -Unit)
                  => \/ (pid'.Ti - pid.Ti) * pid'.errLast >= 0
                     \/ pid'.Ti = 0 /\ input'.switch < Engaged
               /\ StepTick /\ Silent /\ controller \in {"speed", "rot"}
                  => pid'.Ti = 0
<1>1. ASSUME IInv, StepTick, controller \in {"speed", "rot"}
      PROVE  /\ \/ pid'.Ti = 0 /\ input'.switch < Engaged
                \/ (controller = "speed" => input.dial >= -Unit) =>
                       (pid'.Ti - pid.Ti) * pid'.errLast >= 0
             /\ Silent => pid'.Ti = 0
  <2> DEFINE in == CheckedInput
  <2>1. in \in Inputs /\ in.switch \in -1 .. 2 /\ in.dial = input.dial
    BY <1>1, CheckedResult DEF Inputs
  <2>2. pid' = SteppedPid(in) /\ input' = in  BY <1>1 DEF StepTick
  <2>3. /\ in.switch <= 0 => pid'.Ti = 0
        /\ in.switch >= 1 /\ (controller = "speed" => in.dial >= -Unit) =>
              (pid'.Ti - pid.Ti) * pid'.errLast >= 0
    BY <1>1, <2>1, <2>2, SteppedPidResult DEF IInv
  <2>4. in.switch >= 1 => ~Silent  BY <1>1, SentResult
  <2> HIDE DEF in
  <2> QED  BY <2>1, <2>2, <2>3, <2>4 DEF Engaged
<1>2. ASSUME IInv, [Next]_vars PROVE Follows
  <2>1. CASE StepTick /\ controller \in {"speed", "rot"}  BY <1>1, <1>2, <2>1
  <2>2. CASE ~(StepTick /\ controller \in {"speed", "rot"})
    <3>1. ASSUME pid' # pid
          PROVE  \/ (pid'.Ti - pid.Ti) * pid'.errLast >= 0
                 \/ pid'.Ti = 0 /\ input'.switch < Engaged
      <4>1. /\ SteersByGps /\ input' = input /\ gps'.track \in Angles
            /\ pid' = HeadingPid(pid, sp, input, gps'.track)
        BY <1>2, <2>2, <3>1, PidMoves
      <4> QED  BY <1>2, <4>1, HeadingPidResult
    <3> QED  BY <2>2, <3>1
  <2> QED  BY <2>1, <2>2
<1>3. IInv /\ [Next]_vars => [Follows]_vars  BY <1>2
<1> QED  BY <1>3, Invariance, PTL DEF Spec, IntegralFollowsError

(* The error HeadingController.GPS works with is the turn still to make,   *)
(* less than half way round.                                               *)
THEOREM ShortWayTurned == Spec => TurnsTheShortWay
<1> DEFINE Turns ==
               (SteersByGps /\ pid' # pid) =>
                  /\ pid'.errLast \in -Pi .. Pi
                  /\ (sp + Turn(input.steering) - gps'.track - pid'.errLast) % (2 * Pi) = 0
<1>1. ASSUME IInv, [Next]_vars, SteersByGps, pid' # pid
      PROVE  /\ pid'.errLast \in -Pi .. Pi
             /\ (sp + Turn(input.steering) - gps'.track - pid'.errLast) % (2 * Pi) = 0
  <2>1. gps'.track \in Angles /\ pid' = HeadingPid(pid, sp, input, gps'.track)
    BY <1>1, PidMoves DEF SteersByGps
  <2>2. pid'.errLast = HeadingError(sp, input, gps'.track)
    BY <1>1, <2>1, HeadingPidResult
  <2>3. sp \in Angles /\ input \in Inputs  BY <1>1 DEF IInv, TypeOK, Inputs, Angles
  <2>4. /\ HeadingError(sp, input, gps'.track) \in Angles
        /\ (sp + Turn(input.steering) - gps'.track - HeadingError(sp, input, gps'.track))
               % (2 * Pi) = 0
    BY <2>1, <2>3, HeadingErrorResult
  <2> QED  BY <2>2, <2>4 DEF Angles
<1>2. IInv /\ [Next]_vars => [Turns]_vars  BY <1>1
<1> QED  BY <1>2, Invariance, PTL DEF Spec, TurnsTheShortWay
=============================================================================
