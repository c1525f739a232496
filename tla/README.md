# nppilot: a verification project

TLA+ models of the autopilot in this repository, the TLC configurations that
check them on small instances, and proofs of their main properties.

## The system

A remote controlled car with an **I/O board** (an ATmega, `roverif/` and `lib/`,
C++) that reads the remote's receiver, drives the servos and decides who is in
control, and a **command board** (a BeagleBone, `rover/`, Go) that reads a GPS
and drives missions.  A serial line joins them: the command board sends demands
and requests, the I/O board sends reports.  The I/O board is the safety
override: whatever the command board, the line or the remote does, the rover
must stop when it loses its driver.

| Part | State | Operations | Hard behaviour | Correct when |
|---|---|---|---|---|
| Supervisor, `roverif/supervisor.cc` | who is in control, shutdown, what each source last said, two timeouts | `update_remote`, `update_pilot`, `tick`, calls back `changed`, `shutdown` | sources come and go in any order; hand-overs; timeouts | the pilot drives only when remote, switch and demand say so; control lost cuts the throttle; a shutdown ends only at idle |
| Servo arbitration, `update_servos` in `roverif/main.cc` | servo positions, the mask of channels the pilot supplied | a demand frame, a PWM cycle | channels are read one by one while an interrupt writes them; the mask may be stale | each servo follows who is in control |
| I/O main loop, `roverif/main.cc` | tick counter, deferred work, timers, limiter | `poll_link`, `poll_ticks`, `poll_pwmin`, `poll_pending`, `tick` | interrupts between any two polls; 8-bit counters wrap; one transmit buffer; priority of deferred work | no tick lost, no change unreported, no report starved or flooding |
| Timer, `lib/timer.*` | one byte | `start`, `tick`, `running` | conversion to a byte with two special values | it fires when asked to |
| Link bytes, `roverif/link.cc`, `rover/.../link` | buffers, indices, escape | interrupts, `send`, `peek`, `dispatch` | interrupt against main loop; lost bytes; overflow | a frame accepted is one that was sent; a broken line recovers; the buffer drains |
| PWM receiver, `roverif/pwmin.cc` | width, edge time and good count per channel | pin change interrupt, `get` | 8-bit captures, torn reads, pulses begun before the board was | a width that is trusted is one the remote sent |
| Servo pulses, `roverif/servos.cc` | channel pair, half, compare registers, pins | overflow and compare interrupts | two periods per pulse, the position read in each; pins are toggled; the overflow served late | a pulse lies between the positions set; no pin stays turned over |
| Switch watcher, `button/button.go` | level, hold timer, events on their way | `Watch` | unbuffered channels in both directions; stale expiry of the timer | events are those of the switch |
| Recorder and waypoints, `recorder.go`, `waypoint.go` | state, points, index | `Switch`, `Mark`, `Clear`, `Step`, `Event` | events and steps in any order; clear while running | points in order, once; no demand when paused |
| Driver, `driver.go` | merged status, timeouts, scale | one `select` over five channels | five peers, blocking sends in a handler | every peer served; a demand every 50 ms |
| GPS parser, `gps/gps.go` | partial line | `Read`, `dispatch` | lost characters; the reader stands in its send | only sentences that were sent, once and in order; a loss costs only its own line |
| Timeouts, watchdogs, scaling, `timeout.go`, `watchdog.go`, `driver.go` | deadlines, what was seen, the scale | `Start`, `Running`, `Feed`, `Check`, `checkAll`, `toDemand` | two tickers against messages; a missing channel | silence is noticed; a demand never wraps |
| Other controllers and PID, `speed.go`, `rot.go`, `heading.go`, `sysident.go`, `pid.go` | set points, integrals | `Step`, `Event`, `GPS` | a missing dial scales a gain; angles wrap; wind-up | they drive only on the operator's word; the integral follows the error; the short way round |
| Geometry, configuration | none | | floating point, reflection | |
| IMU, blinker, library switch, ports, bootloader, experiments | | | | |

The Supervisor is called by the main loop and calls back into it within the same
call.  The main loop shares `HAL::ticks`, `pwmin.cycles`, the widths and the
link's buffers with interrupts.  The driver, the watcher and the two readers
share nothing but channels.

## Modules

| Module | Models | Uses |
|---|---|---|
| `Timer` | `Timer::tick_internal`, `running`, `to_ticks`, as operators on the byte | |
| `PwmIn` | the pin change interrupt and `PWMIn::get` | |
| `Servos` | the pulse generator: overflow and compare interrupts | |
| `Passthrough` | the remote in control: `PwmIn` and `Servos` with the main loop copying between them | `PwmIn`, `Servos` |
| `Countdown` | one single-shot timer of a given rate and period | `Timer` |
| `Supervisor` | the `Supervisor` class with the handlers that feed and obey it | `Timer` |
| `ControlHandover` | the goals at the head of `supervisor.cc`: who drives, whether the throttle is armed | |
| `SupervisorProofs` | theorems about `Supervisor` | `TLAPS` |
| `RoverIf` | the main loop, its polls and the interrupts between them | `Timer` |
| `RoverIfProofs` | theorems about `RoverIf` | `Arithmetic`, `TLAPS` |
| `Button` | `Button.Watch` | |
| `Mission` | `Recorder` and `WaypointController` | |
| `RoverLoop` | `Driver.Run` composed with `Button`, `Mission`, the readers and the tickers | `Button`, `Mission` |
| `RoverLoopProofs` | theorems about `RoverLoop`, `Button` and `Mission` | `TLAPS` |
| `Controllers` | the PID and the controllers but the waypoint one, as operators | |
| `Driving` | the driver's handlers, timeouts, watchdogs, scaling and controllers on the clock of its tickers | `Controllers` |
| `DrivingProofs` | theorems about `Driving` and `Controllers` | `Arithmetic`, `TLAPS` |
| `PassthroughProofs` | theorems about `Passthrough`, `PwmIn` and `Servos` | `TLAPS` |
| `Bits` | the exclusive-or of bytes, which both kinds of checksum use | |
| `Framing` | checksum, escapes, the frames each board accepts | `Bits` |
| `LossyLink` | what the serial line promises: frames in order, once, or lost | |
| `BoardTx` | a report byte by byte: `Link::send`, `tx_next`, the reader of `link.go` | `Framing`, `LossyLink` |
| `BoardRx` | a command byte by byte: `Link.Send`, `rx_next`, `peek`, `discard` | `Framing`, `LossyLink` |
| `BoardLink` | both directions of that line | `BoardTx`, `BoardRx` |
| `BoardLinkProofs` | theorems about `BoardLink`, `BoardTx` and `BoardRx` | `Arithmetic`, `TLAPS` |
| `Arithmetic` | facts about quotients, remainders, induction and recursion that the proofs share | `Bits`, `TLAPS` |
| `Nmea` | the sentences of the GPS receiver: shape, checksum, fields | `Bits` |
| `GpsLink` | the reader of `gps.go` character by character | `Nmea`, `LossyLink` |
| `GpsLinkProofs` | theorems about `GpsLink` | `Arithmetic`, `TLAPS` |
| `MC*` | the values TLC gives the constants | |

### Supervisor

`sup` is the `Supervisor` object; `position`, `supplied`, `pending` and `lamps`
are `Servos::position_`, `pilot_supplied_`, the State bit of `pending_` and the
pattern last given to the blinker; `reported` is the State frame sent last.
`author`, `remote_age` and `demand_age` are histories that only the properties
read.  The class's methods are operators from object to object in the order of
the code (`Check` is `ClearShutdown` after `Change`; `TickSupervisor` expires
the remote, then the pilot, each with its own `check()`).  The calls out of the
object, `changed()` and `shutdown()`, are collected in `sup.signals` and applied
by the handler before `update_servos` goes on, which is the order in the code:
`handle_demand` and `poll_pwmin` return from the Supervisor before they touch a
servo.  Every handler runs to completion in the main loop and is one action:
`HandleDemand`, `PollPwmin`, `Tick`, `SendState`.

The interrupt that measures the pulses does not wait for the handler, so
`PollPwmin` chooses the throttle that is judged (`stick`) and the widths that
are copied (`widths`) independently.  The statics are zero before `main`, as
C++ guarantees, so both timers fire on the first tick.

### RoverIf

The polls are the actions `PollLink`, `PollTicks`, `PollPwmin` and
`PollPending`, taken in turn.  Each reads once what an interrupt writes, so
an interrupt in its middle is as one before or after it.  The interrupts are
`Overflow` (`HAL::ticks++`), `Cycle` (`pwmin.cycles++` as far as the loop can
see it), `Receive` and `Drain`.  Whose turn it is to control is left to
`Supervisor`: `flags` stands for the State frame the Supervisor would send, and
each call into it (`Supervised`) may change them, defers a report if they change
and may defer one if they do not (`changed()` is also called on a change from
Initial to None, say).  `told`, `owed`, `phase`, `quiet` and `aged` are
histories.  `check_timer` and `blinker_timer` defer nothing and are left out.

### RoverLoop

One action for each case of the driver's `select` and of the watcher's.  An
unbuffered send is an offer (`frame`, `sentence`, `sends`, `driver = "level"`)
that the receiver completes.  A ticker's channel holds one tick.  The hold
timer's expiry stays in its channel when `Reset` restarts it (`token`), so a
`Hold` may come early, for a position that was just reached; with the switch at 0
it clears the mission.  `EventsCurrent` bounds this: the driver takes a `Hold` or
a `Down` only while the switch stands where the event says.  That a hold lasts its
two seconds is said nowhere but in the code, so no run asserts it.  A release is
`Short` or `Long` by a clock of its own, independent of the timer; the model
allows both.  The
controller is the waypoint controller (`-options.controller=waypoint`); its
demand is abstracted to the point it steers for, and arriving is being at the
same position.  The other sentences and frames change only watchdogs and fields
this module does not need: they are one kind each.

### Passthrough

`PwmIn` times every edge with a timer of eight bits and measures a pulse as a
signed byte; `Servos` cuts each pulse into two periods of another such timer,
sets a compare register for the edge in each and toggles the pin.  Time is not
kept between them: any number of edges and overflows may come between two reads
of the loop, which is more than a board can show, so what holds here does not
rest on the speed of the loop.  `poll_pwmin` reads a channel's count of good
pulses and its width in two actions and sets the servos one by one.  What of
`Supervisor` stands between is left out: the remote is in control.

The board may come up in the middle of a pulse (`stick` is any frame), and the
compare registers are zero when the timer starts, so a first toggle may come
before the first overflow is served (`pins`).  `Overflow` has the race with the
compare unit: until the interrupt has run the register holds the last period's
value, whose time may come again (`Repeated`), and a new time that has passed by
then is missed (`Missed`).  A repeated toggle is served before the overflow or
behind it.  `sent`,
`rose` and `settled` are histories.  A servo's pulse is a count longer than the
remote's, as `Bias` is 281 and the receiver's centre 280.  The counts a capture
waits for its interrupt are left out; they would be added to the width.

### Driving

`RoverLoop` has the goroutines and the waypoint mission; `Driving` has what each
case of the `select` does to the status, the timers and the demand, with the
other controllers, and with time.  The unit of time is the step ticker's period.
A tick is served before the next is due (`TimePasses` waits for it); a driver
that is late or halted is `RoverLoop`'s subject.  The level sent to the switch
watcher is left to it as well.  A step or a heartbeat is one action with all it
calls: `checkAll`, the controller's `Step`, the PID and `toDemand`.

The floats are whole numbers of 1/`Unit`.  With 750
both input scales, 1/93.75 and 1/62.5, are exact (8 and 12 units a count);
products are rounded down.  A missing
channel or demand is -128 units, as in the code.  One `trip` is chosen at the
start: a controller and the messages that matter to it; what a trip's
controller does not read is held at one value.

### GpsLink

The receiver sends whole lines, the line loses characters, `Read` collects and
`dispatch` judges.  The reader stands in `link.Sentences <- msg` (`box`) until
the driver takes it.  The abstract promise is `LossyLink`, as for the boards'
line.  The checksum is an exclusive-or, so two lost characters that are equal
leave it as it was (`Shortened`), and a sentence whose line end and successor's
`$` are lost joins it, which goes unnoticed when the first has the checksum 5C,
the exclusive-or of `*`, `5` and `C` (`Joined`).
`ImplementsLink` shows that nothing else is ever taken for a sentence.  A number
stays its text; `IsInt` has `ParseInt` with base 0, which refuses 08 and 09, and
`IsFloat` has the signs but not the exponents that `ParseFloat` would take.  The
texts are ASCII, where the runes that `checksum` sums are bytes.

### BoardTx, BoardRx and BoardLink

Each module has one direction of the line: the sender, the bytes and the
receiver.  The I/O board's interrupts are single actions; what they race with in
the main loop are plain stores to members that are not volatile, so the stores
of `send()` (`tx_end_`, `tx_at_`) and of `discard()` (`rx_at_`, `rx_full_`) are
actions of their own, taken in either order (`todo`).  `HAL::init` enables the
transmit interrupt before anything was sent, so the first `send()` runs against
it; later ones do if the interrupt finishes a frame before `send()` enables it
once more.  `tx_next` escapes a byte by changing it in the buffer, which the
model does too.  The line may lose any byte, also an escape or a mark; a byte
that comes while a command waits, or between the stores of `discard()`, is
dropped or misplaced as in the code.  `line`, `last`, `clean` and `intact` are
histories; the statistics are left out.  The two directions have no variable in
common, so `BoardLink` lets a behaviour use one of them (`direction`): what
holds of each with the other at rest holds of both at once.

The checksum is one running sum XOR another.  An escape that is lost leaves its
byte changed by 32, and if that byte is the last of the payload both sums change
alike, so the checksum still matches: a Counters report that ends in 10 or 94 is
then taken as one that ends in 42 or 126.  Of the demands the driver sends, with
their unused channels missing, the checksum rejects all such.  `LossyLink` takes
these misreadings as a parameter, `Framing!Readings` lists exactly them, and the
refinement shows that there are no others.

## Runs

| Run | Instance | Shows |
|---|---|---|
| `supervisor` | two channels, timeout of 2 ticks, widths missing, idle-and-low, high; demands missing, Mid, moving | the safety properties of control, the throttle, the mask, the lamps and the report, and that the abstract `ControlHandover` is implemented |
| `supervisor_live` | the throttle alone, timeout of 1 tick | a silent source loses control; each lasting state is reported |
| `rover_if` | counters of 2 bits, prescaler 2, periods of 1 and 2 ticks, a lag of up to 2 overflows | ticks conserved across the wrap, reports of changes, spacing of Input reports; no deadlock |
| `rover_if_live` | counter of 1 bit, limiter of 5 ticks, others of 1 | State and Input reports are not starved |
| `rover_loop` | all switch positions, frames and tickers, two points | recorder follows the switch, no event is taken after the switch moved on, missions in order, a halt is final |
| `rover_loop_live` | all switch positions, input frames, sentences, one ticker, one point | the tickers and the board are served; a pause with the point still ahead, or a clear, stops the demands |
| `rover_loop_halt` | as `rover_loop`, one point | violation: the driver and the watcher block each other |
| `board_link` | up: a Pong, a State and a Counters report that ends in 10; frames given up after 9 bytes; down: a Request, a Demand with two escapes; the real buffer; one byte lost | both directions implement `LossyLink`; one whole report after another is taken, a broken command costs at most the two behind it; the buffer drains whatever the order of the stores |
| `gps_link` | three types of sentence, one with a field empty, one with equal digits and the checksum 5C; two characters lost | the reader implements `LossyLink`; a sentence heard whole is always taken |
| `driving` | six trips: speed, rate of turn, heading, the dial and the clock, the fix, the signs of life; a second of 2 ticks | silence is noticed, no demand without an engaged and recent switch, no wrapped demand, no wind-up against the error, the short turn |
| `passthrough` | one channel with a servo and one without, pulses of 0.85 and 2.13 ms, both sides of the generator, overflows served at once or 51 counts late | a servo's pulse lies between pulses the remote sent; the reset of the port never cuts one |
| `countdown_asserted` | every rate from 100 to 512 | violation: half a second does not fit at the fastest rates admitted |

`MCRoverIf` also asserts, as `PeriodsFit`, that at the rates of the present boards
and up to 506 ticks per second every period of the board's timers is a count
that runs, within half a tick of what was asked for.

**Bounds.**  In `Supervisor` the real timeout is 92 ticks at 12 MHz; the code
compares a timer only with zero and with the reserved values, so 2 ticks give
refresh, half-way and expiry of each source in every order, and the theorems
hold for any.  Three widths and three demands separate all the comparisons of
the code (the shutdown, switch and idle thresholds, missing and reserved); the
shutdown channel, the judged stick, the switch and the copied widths vary
independently.  Two channels are the throttle and one that is not.  In
`RoverIf` the real counter is 8 bits and the prescaler 4; what matters is that
the prescaler divides the wrap and that the loop may be more than one overflow
behind.  `MaxLag` is the assumption that the loop is never a whole wrap behind:
at 12 MHz there are 732 overflows per second, so 256 of them are 350 ms, where a
pass of the loop is expected within a few; beyond it ticks are really lost.  The
main loop never waits (`HAL::wait` is empty); only a hung I2C bus in the IMU
driver could exceed the bound.  In `RoverLoop` `MaxPoints` stops the operator
from marking more points; two let a mission start, advance, end and start over,
and be paused between its points.  In `rover_loop_live`, which needs all three
positions of the switch, there is one point and one sentence: the sentence takes
the rover away from the point it marked, so that the mission demands and is
paused or cleared while it does.

On the line one lost byte is enough to join two frames, to leave an escape
pending, to lose one, and, with the two frames joined, to overflow the receive
buffer; further ones repeat this from a state the model reaches anyway, as it
also drops bytes while a command waits.  Reports of two, three and six bytes
follow each other in every order, so that the old end lies before, on and behind
the new one.  The GPS line loses two characters, the fewest that its checksum
can miss.

In `Driving` a second is 20 ticks of the code and 2 of the run; the timers are
compared with a second and with nothing else, so 2 give the tick before the
deadline, at it and after it.  `MCDriving` has larger integral gains than
`rover.go`, so that the limits are met within a few steps (each gain is an
option of the program); the sliders take values below, in and above the thirds
of the switch, missing, the full deflection of the clock and the ends of the
byte.  In `Passthrough` two lengths are a least and a greatest, so that a mixture of
them is told from either; each spans the wrap of the timer differently.
`Saturate` is 10 in the code and 4 here: what matters is that half of it takes
more than one pulse.  51 counts are what a full deflection leaves before the
edge of the second half is due (52), so the generator is asked for all it can
give; later overflows are outside of what the code is written for.

The halting command board is a state the runs contain (`CHECK_DEADLOCK FALSE`
there; also for `countdown_asserted`, where a timer that has fired stays stopped); its
liveness properties say "or it has halted".

**Fairness.**  The main loop never blocks and the hardware timer never stops:
weak fairness of the loop and of the overflow.  The UART drains a filled
buffer, as `board_link` shows byte by byte (`Drains`): weak fairness of `Drain`, and `Overflow` waits for a frame that is two
ticks old, as thirty characters pass in one tick at 57600 baud.
`Supervisor`'s weak fairness of `SendState` is what `rover_if_live` shows of
the loop (`ReportGoesOut`).  Demands and PWM cycles have no fairness.  In
`RoverLoop` the cases of a `select` that take frames, ticks and levels have
strong fairness, because Go chooses at random among the ready ones; the
properties hold even if sentences, events and expiries are put off for ever, so
nothing is assumed of those.  The tickers have weak fairness; the ports, the
operator and the timers of the inputs have none.

## Proofs

tlapm checks every theorem to the last leaf.

`SupervisorProofs`, for every set of channels with a throttle among them, every
timeout that fits the timer and every set of widths and demands in a byte:
type correctness; `ThrottleSafe`, `PilotAuthority`, `ThrottleReleased`,
`SuppliedByPilot`, `ChangesShown`; the action properties
`ShutdownEndsIdle` and `ServosObeyControl`; and `Refinement`, that the
specification implements `ControlHandover`.  None of them is inductive.  The
invariant `IInv` adds

- `BoardOK`: the object is `Coherent` (the remote counts as heard just when the
  remote or the pilot is in control; the pilot in control implies
  `PilotMayDrive`; the shutdown goes with who is in control), no call is left
  unhandled, and the properties on lamps, report, mask, throttle and authors
  hold together;
- `AgesOK` and `TimersAgree`: while a source counts as heard its timer is in
  `0 .. SeenTicks` and its age is `SeenTicks` less the timer; without this a
  step could not tell that a pilot in control was heard lately.

The argument is two-layered.  Lemmas about the class say what `Check`,
`UpdateRemote`, `UpdatePilot` and `TickSupervisor` return for a coherent object
and which calls they signal; lemmas about the handlers then need only those
facts, one lemma per action.

`RoverIfProofs`, for every counter width, every prescaler that divides it,
every period that fits a timer and every lag short of a wrap: type correctness,
`TicksConserved`, `ReportDue` and `InputSpacing`.  `IInv` adds `LimiterAgrees`:
while the limiter runs, what it has counted is at most what has passed since
the last Input report.  The arithmetic is built from Euclid's division: the
remainder in its range is unique (`RemainderUnique`), hence the next number
has the next remainder (`RemainderOfNext`), hence a wrapped increment steps
through the prescaler's phases without a break (`BumpPhase`), and the
difference of two wrapped counters is the number of increments between them
(`Distance`).

`RoverLoopProofs`, for every set of positions, levels, frames, sentences and
tickers and every number of points: type correctness, `RecorderFollowsSwitch`,
`EventsCurrent`, `HaltIsFinal` and `MissionInOrder`.  `RecorderFollowsSwitch` speaks only of the
moments without an event on its way; `IInv` has what holds at all others: the
recorder goes with the level the watcher is at (`RecorderAgrees`), and what the
watcher may stand sending is a press, a release before a press, or the expiry of
the hold timer, all of that level (`WatcherOK`).  `EventsCurrent` rests on
`SwitchAgrees` besides: in its select the driver has read no level newer than the
one the watcher is about to be at (`Expected`), because it gives a level away
before it takes the next frame, and the watcher takes it only with nothing left
to send.

`DrivingProofs`, for every length of a second, every set of trips, every scale
that is a multiple of 375 and every set of gains whose outputs stay above the
value that means missing: type correctness, `SilenceNoticed`,
`DrivesOnlyEngaged`, `DemandInRange`, `IntegralFollowsError` and
`TurnsTheShortWay`.  `IInv` ties each timeout to the age of the message that
starts it, `ok` and the watchdogs to what the tickers saw when they last fired
(`Timely`; each is late by up to a tick of its own ticker, which is why the bounds
depend on `due`), the scale to the last Input frame (`InputAgrees`), and the
integral to its limits (`PidAgrees`).  Under it lie lemmas on the fixed-point
arithmetic: the sign of a product, the range of `Clip`, `ToDemand` and
`Wrapped`, and what `Jogged` makes of the integral.

`PassthroughProofs`, for every set of channels, every set of pulse lengths from
153 to 407 counts (those of which the length less the centre fits a signed
byte), every count of pulses from 4 on and every lateness of an overflow up to 51
counts: type correctness, `ResetCutsNothing` and `ServosFollowSticks`.  `IInv`
is the journey of a width: a trusted one is that of a pulse that was sent
(`WidthsAgree`), so are those copied to the servos (`CopiesAgree`), and each side
of the generator either has its edge of this half before it with the pin as the
half before left it, or behind it (`PulsesAgree`).

`BoardLinkProofs`, for every set of frames that are byte strings each side
accepts and that fit the buffers, and any number of lost bytes: type
correctness, `Recovers`, `OrdersRecover`, and `InterruptEnabled`, the safety
half of `Drains`: with bytes to send and no store outstanding the interrupt is
on.  The invariant of the reports, `UpInv`, says which of the stores of `send()`
have been done (`BufferAgrees`), that while a frame loses no byte the interrupt
waits for them (`CleanAgrees`), and that between two such bytes the reader has
exactly the first bytes of the sealed frame and the buffer the rest, the next of
them already changed if its escape is out (`Halfway`).  The invariant of the
commands, `DownInv`, does the same with a place in the sealed frame (`Place`,
`Heard`), and with the room the main loop has made when a frame starts
(`RoomAgrees`).

`GpsLinkProofs`, for every set of sentences of the shape the parser asks for and
any number of lost characters: `Recovers`.  The invariant: what is on its way is
the end of the line sent last (`EndOf`), and while no character of that line is
lost the reader has what is gone from it but for the carriage return
(`StartOf`).

Whether a checksum tells a broken frame from the one sent depends on the frames,
so no reader implements `LossyLink` for every set of them.  What does not depend
on it is proved: each step is a step of `LossyLink` or leaves it alone, except
when a frame that was not heard whole passes the checks all the same
(`ImplementsButForDamage`, `ReportsImplementButForDamage`,
`OrdersImplementButForDamage`; what counts as heard whole is that of `Recovers`,
so on the boards' line it also takes one or two whole frames before).  This
covers the order of the stores of `send()` and `discard()`, a frame that waits in
the buffer and a reader that stands in its send.  The runs add, for their
frames, that the exceptions are the misreadings listed and no others.

The checksum and the escapes are recursive functions.  The library's theorems on
recursion and induction take an operator as their parameter; `Arithmetic`
states both with sets and functions instead (`Recursion`, `Induction`), from the
least element that a well-founded order gives, so that what the escapes of any
frame look like (`EncodedByte`) is proved for frames of any length.  `BoardLink`
uses `Framing` once for each direction, and `SameFraming` shows that the two
copies are one.

TLC had checked each invariant on the run's instance before it was proved.
Stating them also showed where a `CASE` left open which guard comes first
(`Pcint`, `Turn`, `BoardRx!Hear`); the guards now exclude each other, as the
code's order of tests does.

Only model-checked:

- all liveness, and the response to fairness in it, which is beyond the prover;
- which broken frames pass a checksum, and so that `BoardTx`, `BoardRx` and
  `GpsLink` implement `LossyLink` with no exception;
- `Countdown`, of which the run is the point.

## Disagreements found

- `NOTES:7` lists "The rover side halts after ~30s." as an open bug.
  `rover_loop_halt` exhibits one way: `Driver.input` blocks in
  `d.Switch.Level <-` inside the select loop while `Button.Watch` blocks in
  `s.Event <-`, each waiting for the other's receive.  Moving the switch while
  frames keep coming is enough: the first level makes the watcher send an event,
  and the next Input frame, if `select` picks it first, blocks the driver.
- `roverif/main.cc:329` says a timer must be able to count half a second and
  asserts `TicksPerSecond <= 256*2`.  From 507 ticks per second on, 500 ms
  convert to a value that means stopped, or wrap to zero.  No present board
  comes near that rate.

## Not modelled, and why

- Geometry (`utm.go`, `latlon.go`, `point.go` and the bearing in `waypoint.go`):
  trigonometry without state.  `Mission` keeps which point a demand steers for.
- The bits of floating point: `Controllers` computes in fixed point, so it says
  nothing of rounding.
- Configuration: reflection over option structures, run before anything starts.
- `updateRef`, which only the geometry reads; statistics, logging, the version
  text and the HTTP server; nothing reads them back.
- Register traffic of the IMU, start-up and ports; `RoverIf` has its outcome.
- The blinker, which steps the pattern of two lamps that `Supervisor` sets.
- The library's event `Switch` and bit array printing, which have no caller in
  the two programs; the boot loader, the experiments and vendored code.

`RoverIf` and `RoverLoop` have whole frames and sentences, `BoardLink` and
`GpsLink` their bytes.  Some hazards listed beside this file have no property:
each says why.

## Plan

What is left is proof.

1. The safety halves of what is left to liveness: that a source which counts as
   heard has its timer running, and that a report owed is one of the pending.
2. That `RoverIf`'s `flags` are what `Supervisor` reports.
3. The types of `GpsLink` and what the refinement needs of the checksum, stated
   as a property of a set of sentences.
