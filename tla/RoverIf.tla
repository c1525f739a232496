------------------------------ MODULE RoverIf ------------------------------
(***************************************************************************)
(* The main loop of the I/O board (RoverIf in roverif/main.cc): it polls   *)
(* the link, the ticks, the PWM receiver and the deferred work in turn,    *)
(* while the interrupts count overflows and PWM cycles, collect a frame    *)
(* and drain the one being sent.  Each poll reads what an interrupt writes *)
(* once, so each is one action and the interrupts run between them.        *)
(*                                                                         *)
(* Who is in control is left to Supervisor.tla: here the Supervisor is     *)
(* just the flags it would report, which any call into it may change.      *)
(***************************************************************************)
EXTENDS Timer

CONSTANTS
    Reports,        \* the flags a State frame may carry
    Wrap,           \* 2^8: where HAL::ticks and ticks_ wrap
    TickPrescaler,  \* overflows of the hardware timer per tick
    ShortTicks,     \* to_ticks(50)
    LongTicks,      \* to_ticks(500)
    Offered,        \* what Link::peek() may find: frames for the handlers, or
                    \* "Dropped" by the checksum, the length or the switch
    MaxLag          \* bound: the overflows the main loop may be behind

ASSUME ReportAssumption == Reports # {}
ASSUME WrapAssumption == Wrap \in Nat \ {0, 1}
ASSUME PrescalerAssumption == TickPrescaler \in 1 .. Wrap /\ Wrap % TickPrescaler = 0
ASSUME PeriodAssumption == ShortTicks \in 0 .. (Reserved - 1) /\ LongTicks \in 0 .. (Reserved - 1)
ASSUME OfferAssumption ==
    Offered \subseteq {"Request Pong", "Request Version", "Demand", "Dropped"}
ASSUME LagAssumption == MaxLag \in 1 .. (Wrap - 1)

(* enum class Pending, in the order in which the work is done.             *)
PWMIn == 0
IMU == 1
State == 2
Heartbeat == 3
Pong == 4
Counters == 5
Version == 6

Pending == 0 .. 6

Idle == 7

VARIABLES
    turn,           \* the poll the main loop comes to next
    hal_ticks,      \* HAL::ticks, counted by the overflow interrupt
    ticks,          \* RoverIf::ticks_
    cycle,          \* pwmin.cycles # pwmin_cycles_
    rx,             \* the frame in the receive buffer, or "None"
    tx,             \* the frame the transmit interrupt drains, or Idle
    flags,          \* what the Supervisor would report
    pending,        \* RoverIf::pending_
    imu_timer, state_timer, heartbeat_timer, pwmin_limiter,
    told,           \* history: the flags in the State frame sent last
    owed,           \* history: overflows counted but not yet polled
    phase,          \* history: overflows polled since the last tick()
    quiet,          \* history: ticks since an Input report was deferred
    aged            \* history: a tick was due since tx was filled

timers == <<imu_timer, state_timer, heartbeat_timer, pwmin_limiter>>
vars == <<turn, hal_ticks, ticks, cycle, rx, tx, flags, pending, imu_timer,
          state_timer, heartbeat_timer, pwmin_limiter, told, owed, phase,
          quiet, aged>>

(* Mutant of Bump: the counter is wider than the one it is compared with.  *)
Bump_Wide(n) == n + 1

(* Incrementing a uint8_t.                                                 *)
Bump(n) == IF n = Wrap - 1 THEN 0 ELSE n + 1

TickDue(n) == n % TickPrescaler = 0

-----------------------------------------------------------------------------
(* The interrupts.                                                         *)

(* TIMER0_OVF.  A frame is drained within two ticks: at 57600 baud some    *)
(* thirty characters pass in the 5.5 ms of one.                            *)
Overflow ==
    /\ owed < MaxLag
    /\ hal_ticks' = Bump(hal_ticks)
    /\ owed' = owed + 1
    /\ ~(aged /\ TickDue(hal_ticks'))
    /\ aged' = (aged \/ (tx # Idle /\ TickDue(hal_ticks')))
    /\ UNCHANGED <<turn, ticks, cycle, rx, tx, flags, pending, timers, told, phase, quiet>>

(* PCINT0, at the falling edge of channel 0.                               *)
Cycle ==
    /\ ~cycle /\ cycle' = TRUE
    /\ UNCHANGED <<turn, hal_ticks, ticks, rx, tx, flags, pending, timers,
                   told, owed, phase, quiet, aged>>

(* USART_RX completes a frame; those that come while one waits are lost.   *)
Receive(f) ==
    /\ rx = "None" /\ rx' = f
    /\ UNCHANGED <<turn, hal_ticks, ticks, cycle, tx, flags, pending, timers,
                   told, owed, phase, quiet, aged>>

(* USART_UDRE puts out the mark that ends the frame.                       *)
Drain ==
    /\ tx # Idle /\ tx' = Idle
    /\ aged' = FALSE
    /\ UNCHANGED <<turn, hal_ticks, ticks, cycle, rx, flags, pending, timers,
                   told, owed, phase, quiet>>

-----------------------------------------------------------------------------
(* The polls.                                                              *)

(* Mutant of Supervised: supervisor_changed() does not defer a report.     *)
Supervised_Untold(work) ==
    /\ flags' \in Reports
    /\ pending' = pending \cup work

(* What a call into the Supervisor defers: a report of any change, and on  *)
(* a change that does not show in the flags, or none, perhaps another.     *)
Supervised(work) ==
    /\ flags' \in Reports
    /\ \E again \in SUBSET {State} :
          pending' = pending \cup work \cup again
                             \cup (IF flags' # flags THEN {State} ELSE {})

(* handle_request(): the case for Pong falls through to that for Version.  *)
Requested(f) ==
    CASE f = "Request Pong"    -> {Pong, Version}
      [] f = "Request Version" -> {Version}
      [] OTHER                 -> {}

(* poll_link()                                                             *)
PollLink ==
    /\ turn = "link" /\ turn' = "ticks"
    /\ rx' = "None"
    /\ IF rx = "Demand"
       THEN Supervised({})
       ELSE pending' = pending \cup Requested(rx) /\ UNCHANGED flags
    /\ UNCHANGED <<hal_ticks, ticks, cycle, tx, timers, told, owed, phase, quiet, aged>>

(* What tick() defers on account of its timers.                            *)
TimedWork ==
    (IF Fires(imu_timer) THEN {IMU} ELSE {})
    \cup (IF Fires(state_timer) THEN {State} ELSE {})
    \cup (IF Fires(heartbeat_timer) THEN {Heartbeat, Counters} ELSE {})

(* Mutant of TickTimers: the limiter is left out.                          *)
TickTimers_Unlimited ==
    /\ imu_timer' = Ticked(imu_timer, ShortTicks)
    /\ state_timer' = Ticked(state_timer, LongTicks)
    /\ heartbeat_timer' = Ticked(heartbeat_timer, LongTicks)
    /\ UNCHANGED pwmin_limiter

TickTimers ==
    /\ imu_timer' = Ticked(imu_timer, ShortTicks)
    /\ pwmin_limiter' = Ticked(pwmin_limiter, Stopped)
    /\ state_timer' = Ticked(state_timer, LongTicks)
    /\ heartbeat_timer' = Ticked(heartbeat_timer, LongTicks)

Longer(n) == IF n > ShortTicks THEN n ELSE n + 1

(* Mutant of PollTicks: catching up in one go.                             *)
PollTicks_CatchesUp ==
    /\ turn = "ticks" /\ turn' = "pwmin"
    /\ IF ticks = hal_ticks
       THEN UNCHANGED <<ticks, owed, phase, flags, pending, timers, quiet>>
       ELSE /\ ticks' = hal_ticks
            /\ owed' = 0
            /\ IF TickDue(ticks')
               THEN /\ TickTimers
                    /\ Supervised(TimedWork)
                    /\ phase' = 0
                    /\ quiet' = Longer(quiet)
               ELSE /\ phase' = phase + 1
                    /\ UNCHANGED <<flags, pending, timers, quiet>>
    /\ UNCHANGED <<hal_ticks, cycle, rx, tx, told, aged>>

(* poll_ticks(), which takes one overflow at a time.                       *)
PollTicks ==
    /\ turn = "ticks" /\ turn' = "pwmin"
    /\ IF ticks = hal_ticks
       THEN UNCHANGED <<ticks, owed, phase, flags, pending, timers, quiet>>
       ELSE /\ ticks' = Bump(ticks)
            /\ owed' = owed - 1
            /\ IF TickDue(ticks')
               THEN /\ TickTimers
                    /\ Supervised(TimedWork)
                    /\ phase' = 0
                    /\ quiet' = Longer(quiet)
               ELSE /\ phase' = phase + 1
                    /\ UNCHANGED <<flags, pending, timers, quiet>>
    /\ UNCHANGED <<hal_ticks, cycle, rx, tx, told, aged>>

(* Mutant of Limited: a timer at zero counts as stopped.                   *)
Limited_NotAtZero == Running(pwmin_limiter) /\ pwmin_limiter # 0

Limited == Running(pwmin_limiter)

(* poll_pwmin(); `good` says whether the shutdown channel is not low.      *)
PollPwmin(good) ==
    /\ turn = "pwmin" /\ turn' = "pending"
    /\ cycle' = FALSE
    /\ IF ~cycle \/ ~good
       THEN UNCHANGED <<flags, pending, pwmin_limiter, quiet>>
       ELSE /\ Supervised(IF Limited THEN {} ELSE {PWMIn})
            /\ IF Limited
               THEN UNCHANGED <<pwmin_limiter, quiet>>
               ELSE pwmin_limiter' = ShortTicks /\ quiet' = 0
    /\ UNCHANGED <<hal_ticks, ticks, rx, tx, imu_timer, state_timer,
                   heartbeat_timer, told, owed, phase, aged>>

(* Mutant of Lowest: the highest bit is served first.                      *)
Lowest_Highest == CHOOSE k \in pending : \A j \in pending : j <= k

(* MinBitArray::pop()                                                      *)
Lowest == CHOOSE k \in pending : \A j \in pending : k <= j

(* The buffer is filled; an IMU that does not answer leaves it unsent.     *)
Send(k) ==
    /\ tx' \in (IF k = IMU THEN {IMU, Idle} ELSE {k})
    /\ aged' = FALSE
    /\ told' = IF k = State THEN flags ELSE told

(* poll_pending()                                                          *)
PollPending ==
    /\ turn = "pending" /\ turn' = "link"
    /\ IF pending # {} /\ tx = Idle
       THEN pending' = pending \ {Lowest} /\ Send(Lowest)
       ELSE UNCHANGED <<pending, tx, aged, told>>
    /\ UNCHANGED <<hal_ticks, ticks, cycle, rx, flags, timers, owed, phase, quiet>>

-----------------------------------------------------------------------------
(* init() has deferred the first State report; the timers are zero.        *)
Init ==
    /\ turn = "link"
    /\ hal_ticks = 0 /\ ticks = 0 /\ owed = 0 /\ phase = 0
    /\ cycle = FALSE
    /\ rx = "None"
    /\ tx = Idle /\ aged = FALSE
    /\ flags \in Reports
    /\ pending = {State}
    /\ imu_timer = 0 /\ state_timer = 0 /\ heartbeat_timer = 0
    /\ pwmin_limiter = 0
    /\ told = "Never"
    /\ quiet = ShortTicks + 1

Interrupts == Overflow \/ Cycle \/ (\E f \in Offered : Receive(f)) \/ Drain

Inputs == \E good \in BOOLEAN : PollPwmin(good)

Loop == PollLink \/ PollTicks \/ Inputs \/ PollPending

Next == Interrupts \/ Loop

(* The main loop never ends, the hardware timer never stops and the UART   *)
(* drains what it is given.                                                *)
Fairness == WF_vars(Loop) /\ WF_vars(Overflow) /\ WF_vars(Drain)

Spec == Init /\ [][Next]_vars
FairSpec == Spec /\ Fairness

-----------------------------------------------------------------------------
(* Properties.                                                             *)

TypeOK ==
    /\ turn \in {"link", "ticks", "pwmin", "pending"}
    /\ hal_ticks \in 0 .. (Wrap - 1) /\ ticks \in 0 .. (Wrap - 1)
    /\ cycle \in BOOLEAN
    /\ rx \in Offered \cup {"None"}
    /\ tx \in Pending \cup {Idle}
    /\ flags \in Reports /\ told \in Reports \cup {"Never"}
    /\ pending \subseteq Pending
    /\ imu_timer \in TimerValues /\ pwmin_limiter \in TimerValues
    /\ state_timer \in TimerValues /\ heartbeat_timer \in TimerValues
    /\ owed \in 0 .. MaxLag
    /\ phase \in 0 .. (TickPrescaler - 1)
    /\ quiet \in 0 .. (ShortTicks + 1)
    /\ aged \in BOOLEAN

(* No overflow is lost or counted twice while the loop is less than a      *)
(* whole wrap behind: the two wrapped counters always differ by what is    *)
(* owed, and tick() comes at every TickPrescaler-th overflow, also where   *)
(* the counters wrap.                                                      *)
TicksConserved ==
    /\ owed = (hal_ticks - ticks) % Wrap
    /\ phase = ticks % TickPrescaler

(* What the other side was told last is still true, or a report is due:    *)
(* also when the flags change while an older report is still draining.     *)
ReportDue == told # flags => State \in pending

(* Two Input reports are asked for at least to_ticks(50) ticks apart.      *)
InputSpacing ==
    [][(PWMIn \in pending' \ pending) \/ (quiet' = 0 /\ quiet # 0) =>
          quiet > ShortTicks]_vars

(* The report of a change goes out, whatever else is deferred before it.   *)
ReportGoesOut == State \in pending ~> State \notin pending

(* As long as good cycles keep coming, so do Input reports.                *)
InputsReported ==
    []<><<PollPwmin(TRUE) /\ cycle>>_vars => []<>(tx = PWMIn)
=============================================================================
