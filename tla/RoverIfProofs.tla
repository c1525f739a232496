--------------------------- MODULE RoverIfProofs ---------------------------
(***************************************************************************)
(* What RoverIf.tla's main loop guarantees for every width of the tick     *)
(* counters, every prescaler that divides it, and every timer period.      *)
(***************************************************************************)
EXTENDS RoverIf, Arithmetic, TLAPS

-----------------------------------------------------------------------------
(* Counters that wrap.                                                     *)

(* The distance between two wrapped counters.                              *)
LEMMA Distance ==
    ASSUME NEW a \in 0 .. (Wrap - 1), NEW b \in 0 .. (Wrap - 1)
    PROVE  (a - b) % Wrap = IF a >= b THEN a - b ELSE a - b + Wrap
<1> USE WrapAssumption
<1>1. CASE a >= b
  <2>1. a - b = Wrap * 0 + (a - b) /\ a - b \in 0 .. (Wrap - 1)  BY <1>1
  <2>2. (a - b) % Wrap = a - b  BY <2>1, RemainderUnique
  <2> QED  BY <1>1, <2>2
<1>2. CASE ~(a >= b)
  <2>1. a - b = Wrap * (-1) + (a - b + Wrap) /\ a - b + Wrap \in 0 .. (Wrap - 1)
    BY <1>2
  <2>2. (a - b) % Wrap = a - b + Wrap  BY <2>1, RemainderUnique
  <2> QED  BY <1>2, <2>2
<1> QED  BY <1>1, <1>2

(* Incrementing a wrapped counter steps through the prescaler's phases     *)
(* without a break, because the prescaler divides the width.               *)
LEMMA BumpPhase ==
    ASSUME NEW n \in 0 .. (Wrap - 1)
    PROVE  /\ Bump(n) \in 0 .. (Wrap - 1)
           /\ n % TickPrescaler \in 0 .. (TickPrescaler - 1)
           /\ Bump(n) % TickPrescaler = IF n % TickPrescaler = TickPrescaler - 1
                                        THEN 0 ELSE (n % TickPrescaler) + 1
<1> USE WrapAssumption, PrescalerAssumption
<1>1. TickPrescaler \in Nat \ {0} /\ n \in Nat  OBVIOUS
<1>2. (n + 1) % TickPrescaler = IF n % TickPrescaler = TickPrescaler - 1
                                THEN 0 ELSE (n % TickPrescaler) + 1
  BY <1>1, RemainderOfNext
<1>3. n % TickPrescaler \in 0 .. (TickPrescaler - 1)  BY <1>1, Division
<1>4. CASE n = Wrap - 1
  <2>1. (n + 1) % TickPrescaler = 0  BY <1>4
  <2>2. n % TickPrescaler = TickPrescaler - 1  BY <1>2, <1>3, <2>1
  <2>3. 0 % TickPrescaler = 0
    <3>1. 0 = TickPrescaler * 0 + 0 /\ 0 \in 0 .. (TickPrescaler - 1)  OBVIOUS
    <3> QED  BY <1>1, <3>1, RemainderUnique
  <2> QED  BY <1>3, <1>4, <2>2, <2>3 DEF Bump
<1>5. CASE n # Wrap - 1
  BY <1>2, <1>3, <1>5 DEF Bump
<1> QED  BY <1>4, <1>5

-----------------------------------------------------------------------------
(* The inductive invariant.                                                *)

(* While the limiter runs, what it has counted is what has passed since    *)
(* the last Input report; stopped, it has let the whole period pass.       *)
LimiterAgrees ==
    \/ pwmin_limiter \in 0 .. ShortTicks /\ quiet >= ShortTicks - pwmin_limiter
    \/ pwmin_limiter = Stopped /\ quiet > ShortTicks

IInv == TypeOK /\ TicksConserved /\ ReportDue /\ LimiterAgrees

(* A tick keeps a timer in its byte.                                       *)
LEMMA TickedType ==
    ASSUME NEW n \in TimerValues, NEW reload \in TimerValues
    PROVE  Ticked(n, reload) \in TimerValues
BY DEF TimerValues, Ticked, Stopped, Reserved

(* A period is a timer value that runs.                                    *)
LEMMA Periods ==
    /\ ShortTicks \in TimerValues /\ LongTicks \in TimerValues
    /\ Stopped \in TimerValues
    /\ ShortTicks \in Nat /\ ShortTicks < Reserved
BY PeriodAssumption DEF TimerValues, Reserved, Stopped

(* Calling the Supervisor keeps the promise of a report.                   *)
LEMMA SupervisedResult ==
    ASSUME TypeOK, ReportDue, NEW work \in SUBSET Pending,
           Supervised(work), told' = told
    PROVE  flags' \in Reports /\ pending' \subseteq Pending /\ ReportDue'
BY DEF TypeOK, ReportDue, Supervised, Pending, State

(* The invariant holds once init() has returned.                           *)
LEMMA InitIInv == Init => IInv
<1> SUFFICES ASSUME Init PROVE IInv
  OBVIOUS
<1> USE WrapAssumption, PrescalerAssumption, LagAssumption, Periods
<1>1. TypeOK
  <2>1. /\ turn \in {"link", "ticks", "pwmin", "pending"} /\ cycle \in BOOLEAN
        /\ rx \in Offered \cup {"None"} /\ tx \in Pending \cup {Idle}
        /\ flags \in Reports /\ told \in Reports \cup {"Never"}
        /\ aged \in BOOLEAN
    BY DEF Init
  <2>2. pending \subseteq Pending  BY DEF Init, Pending, State
  <2>3. /\ imu_timer \in TimerValues /\ pwmin_limiter \in TimerValues
        /\ state_timer \in TimerValues /\ heartbeat_timer \in TimerValues
    BY DEF Init, TimerValues
  <2>4. /\ hal_ticks \in 0 .. (Wrap - 1) /\ ticks \in 0 .. (Wrap - 1)
        /\ owed \in 0 .. MaxLag /\ phase \in 0 .. (TickPrescaler - 1)
        /\ quiet \in 0 .. (ShortTicks + 1)
    BY DEF Init
  <2> QED  BY <2>1, <2>2, <2>3, <2>4 DEF TypeOK
<1>2. TicksConserved
  <2>1. (0 - 0) % Wrap = 0  BY Distance
  <2>2. 0 % TickPrescaler = 0
    <3>1. 0 = TickPrescaler * 0 + 0 /\ 0 \in 0 .. (TickPrescaler - 1)  OBVIOUS
    <3> QED  BY <3>1, RemainderUnique
  <2> QED  BY <2>1, <2>2 DEF Init, TicksConserved
<1>3. ReportDue  BY DEF Init, ReportDue
<1>4. LimiterAgrees  BY DEF Init, LimiterAgrees
<1> QED  BY <1>1, <1>2, <1>3, <1>4 DEF IInv

(* An overflow is owed until it is polled.                                 *)
LEMMA OverflowStep ==
    ASSUME IInv, Overflow
    PROVE  IInv'
<1> USE WrapAssumption, LagAssumption
<1>1. hal_ticks' = Bump(hal_ticks) /\ owed' = owed + 1 /\ owed < MaxLag
      /\ ticks' = ticks /\ phase' = phase
  BY DEF Overflow
<1>2. hal_ticks \in 0 .. (Wrap - 1) /\ ticks \in 0 .. (Wrap - 1) /\ owed \in 0 .. MaxLag
  BY DEF IInv, TypeOK
<1>3. hal_ticks' \in 0 .. (Wrap - 1)  BY <1>1, <1>2, BumpPhase
<1>4. owed = IF hal_ticks >= ticks THEN hal_ticks - ticks ELSE hal_ticks - ticks + Wrap
  BY <1>2, Distance DEF IInv, TicksConserved
<1>5. owed' = (hal_ticks' - ticks') % Wrap
  <2>1. owed' = IF hal_ticks' >= ticks' THEN hal_ticks' - ticks'
                ELSE hal_ticks' - ticks' + Wrap
    BY <1>1, <1>2, <1>4 DEF Bump
  <2> QED  BY <1>1, <1>2, <1>3, <2>1, Distance
<1>6. TicksConserved'  BY <1>1, <1>5 DEF IInv, TicksConserved
<1>7. TypeOK'
  <2>1. aged' \in BOOLEAN  BY DEF Overflow, IInv, TypeOK
  <2> QED  BY <1>1, <1>2, <1>3, <2>1 DEF Overflow, IInv, TypeOK, timers
<1>8. ReportDue' /\ LimiterAgrees'
  BY DEF Overflow, IInv, ReportDue, LimiterAgrees, timers
<1> QED  BY <1>6, <1>7, <1>8 DEF IInv

(* The other interrupts leave the counters and the work alone.             *)
LEMMA OtherInterrupts ==
    ASSUME IInv, Cycle \/ (\E f \in Offered : Receive(f)) \/ Drain
    PROVE  IInv'
<1>1. UNCHANGED <<turn, hal_ticks, ticks, flags, pending, timers, told, owed, phase, quiet>>
  BY DEF Cycle, Receive, Drain
<1>2. /\ cycle' \in BOOLEAN /\ rx' \in Offered \cup {"None"}
      /\ tx' \in Pending \cup {Idle} /\ aged' \in BOOLEAN
  BY DEF Cycle, Receive, Drain, IInv, TypeOK
<1>3. TypeOK'  BY <1>1, <1>2 DEF IInv, TypeOK, timers
<1>4. TicksConserved' /\ ReportDue' /\ LimiterAgrees'
  BY <1>1 DEF IInv, TicksConserved, ReportDue, LimiterAgrees, timers
<1> QED  BY <1>3, <1>4 DEF IInv

(* A request defers its answer, and perhaps another answer.                *)
LEMMA RequestedResult ==
    ASSUME NEW f
    PROVE  Requested(f) \subseteq {Pong, Version}
<1>1. CASE f = "Request Pong"
  <2>1. Requested(f) = {Pong, Version}  BY <1>1 DEF Requested
  <2> QED  BY <2>1
<1>2. CASE f = "Request Version"
  <2>1. Requested(f) = {Version}  BY <1>2 DEF Requested
  <2> QED  BY <2>1
<1>3. CASE f # "Request Pong" /\ f # "Request Version"
  <2>1. Requested(f) = {}  BY <1>3 DEF Requested
  <2> QED  BY <2>1
<1> QED  BY <1>1, <1>2, <1>3

(* poll_link() keeps the invariant.                                        *)
LEMMA LinkStep ==
    ASSUME IInv, PollLink
    PROVE  IInv'
<1>1. UNCHANGED <<hal_ticks, ticks, cycle, tx, timers, told, owed, phase, quiet, aged>>
      /\ turn' = "ticks" /\ rx' = "None"
  BY DEF PollLink
<1>2. flags' \in Reports /\ pending' \subseteq Pending /\ ReportDue'
  <2>1. CASE rx = "Demand"
    BY <1>1, <2>1, SupervisedResult DEF PollLink, IInv
  <2>2. CASE rx # "Demand"
    <3>1. Requested(rx) \subseteq Pending
      BY RequestedResult DEF Pending, Pong, Version
    <3> QED  BY <1>1, <2>2, <3>1 DEF PollLink, IInv, TypeOK, ReportDue
  <2> QED  BY <2>1, <2>2
<1>3. TypeOK'  BY <1>1, <1>2 DEF IInv, TypeOK, timers
<1>4. TicksConserved' /\ LimiterAgrees'
  BY <1>1 DEF IInv, TicksConserved, LimiterAgrees, timers
<1> QED  BY <1>2, <1>3, <1>4 DEF IInv

(* The limiter's tick keeps it in step with what has passed.               *)
LEMMA LimiterTick ==
    ASSUME LimiterAgrees, quiet \in 0 .. (ShortTicks + 1),
           pwmin_limiter' = Ticked(pwmin_limiter, Stopped),
           quiet' = Longer(quiet)
    PROVE  LimiterAgrees' /\ quiet' \in 0 .. (ShortTicks + 1)
BY Periods DEF LimiterAgrees, Ticked, Longer, Stopped, Reserved

(* poll_ticks() keeps the invariant: one overflow less is owed, and the    *)
(* phase starts over exactly where the counter's remainder does.           *)
LEMMA TicksStep ==
    ASSUME IInv, PollTicks
    PROVE  IInv'
<1> USE WrapAssumption, LagAssumption
<1>1. UNCHANGED <<hal_ticks, cycle, rx, tx, told, aged>> /\ turn' = "pwmin"
  BY DEF PollTicks
<1>2. /\ hal_ticks \in 0 .. (Wrap - 1) /\ ticks \in 0 .. (Wrap - 1)
      /\ owed \in 0 .. MaxLag /\ quiet \in 0 .. (ShortTicks + 1)
  BY DEF IInv, TypeOK
<1>3. CASE ticks = hal_ticks
  <2>1. UNCHANGED <<ticks, owed, phase, flags, pending, timers, quiet>>
    BY <1>3 DEF PollTicks
  <2> QED  BY <1>1, <2>1 DEF IInv, TypeOK, TicksConserved, ReportDue, LimiterAgrees, timers
<1>4. CASE ticks # hal_ticks
  <2>1. ticks' = Bump(ticks) /\ owed' = owed - 1
    BY <1>4 DEF PollTicks
  <2>2. ticks' \in 0 .. (Wrap - 1)  BY <1>2, <2>1, BumpPhase
  <2>3. owed = IF hal_ticks >= ticks THEN hal_ticks - ticks ELSE hal_ticks - ticks + Wrap
    BY <1>2, Distance DEF IInv, TicksConserved
  <2>4. owed' \in 0 .. MaxLag
    BY <1>2, <1>4, <2>1, <2>3
  <2>5. owed' = (hal_ticks' - ticks') % Wrap
    <3>1. owed' = IF hal_ticks' >= ticks' THEN hal_ticks' - ticks'
                  ELSE hal_ticks' - ticks' + Wrap
      BY <1>1, <1>2, <1>4, <2>1, <2>3 DEF Bump
    <3> QED  BY <1>1, <1>2, <2>2, <3>1, Distance
  <2>6. phase' = ticks' % TickPrescaler /\ phase' \in 0 .. (TickPrescaler - 1)
    <3>1. /\ ticks % TickPrescaler \in 0 .. (TickPrescaler - 1)
          /\ ticks' % TickPrescaler = IF ticks % TickPrescaler = TickPrescaler - 1
                                      THEN 0 ELSE (ticks % TickPrescaler) + 1
      BY <1>2, <2>1, BumpPhase
    <3>2. phase = ticks % TickPrescaler  BY DEF IInv, TicksConserved
    <3>3. phase' = IF ticks' % TickPrescaler = 0 THEN 0 ELSE phase + 1
      BY <1>4 DEF PollTicks, TickDue
    <3> QED  BY <3>1, <3>2, <3>3, PrescalerAssumption
  <2>7. /\ flags' \in Reports /\ pending' \subseteq Pending /\ ReportDue'
        /\ LimiterAgrees' /\ quiet' \in 0 .. (ShortTicks + 1)
        /\ imu_timer' \in TimerValues /\ pwmin_limiter' \in TimerValues
        /\ state_timer' \in TimerValues /\ heartbeat_timer' \in TimerValues
    <3>1. CASE TickDue(ticks')
      <4>1. TickTimers /\ Supervised(TimedWork) /\ quiet' = Longer(quiet)
        BY <1>4, <3>1 DEF PollTicks
      <4>2. TimedWork \subseteq Pending
        BY DEF TimedWork, Pending, IMU, State, Heartbeat, Counters
      <4>3. flags' \in Reports /\ pending' \subseteq Pending /\ ReportDue'
        BY <1>1, <4>1, <4>2, SupervisedResult DEF IInv
      <4>4. LimiterAgrees' /\ quiet' \in 0 .. (ShortTicks + 1)
        BY <1>2, <4>1, LimiterTick DEF IInv, TickTimers
      <4> QED  BY <4>1, <4>3, <4>4, TickedType, Periods DEF TickTimers, IInv, TypeOK
    <3>2. CASE ~TickDue(ticks')
      <4>1. UNCHANGED <<flags, pending, timers, quiet>>
        BY <1>4, <3>2 DEF PollTicks
      <4> QED  BY <1>1, <1>2, <4>1 DEF IInv, TypeOK, ReportDue, LimiterAgrees, timers
    <3> QED  BY <3>1, <3>2
  <2>8. TypeOK'
    BY <1>1, <1>2, <2>2, <2>4, <2>6, <2>7 DEF IInv, TypeOK
  <2>9. TicksConserved'  BY <2>5, <2>6 DEF TicksConserved
  <2> QED  BY <2>7, <2>8, <2>9 DEF IInv
<1> QED  BY <1>3, <1>4

(* poll_pwmin() keeps the invariant: it restarts the limiter only when the *)
(* limiter has stopped.                                                    *)
LEMMA PwminStep ==
    ASSUME IInv, NEW good \in BOOLEAN, PollPwmin(good)
    PROVE  IInv'
<1>1. UNCHANGED <<hal_ticks, ticks, rx, tx, imu_timer, state_timer,
                  heartbeat_timer, told, owed, phase, aged>>
      /\ turn' = "pending" /\ cycle' = FALSE
  BY DEF PollPwmin
<1>2. /\ flags' \in Reports /\ pending' \subseteq Pending /\ ReportDue'
      /\ LimiterAgrees' /\ quiet' \in 0 .. (ShortTicks + 1)
      /\ pwmin_limiter' \in TimerValues
  <2>1. CASE ~cycle \/ ~good
    BY <1>1, <2>1 DEF PollPwmin, IInv, TypeOK, ReportDue, LimiterAgrees
  <2>2. CASE cycle /\ good
    <3>1. Supervised(IF Limited THEN {} ELSE {PWMIn})
      BY <2>2 DEF PollPwmin
    <3>2. flags' \in Reports /\ pending' \subseteq Pending /\ ReportDue'
      <4>1. (IF Limited THEN {} ELSE {PWMIn}) \subseteq Pending  BY DEF Pending, PWMIn
      <4> QED  BY <1>1, <3>1, <4>1, SupervisedResult DEF IInv
    <3>3. CASE Limited
      BY <2>2, <3>2, <3>3 DEF PollPwmin, IInv, TypeOK, LimiterAgrees
    <3>4. CASE ~Limited
      <4>1. pwmin_limiter' = ShortTicks /\ quiet' = 0
        BY <2>2, <3>4 DEF PollPwmin
      <4> QED  BY <3>2, <4>1, Periods DEF LimiterAgrees
    <3> QED  BY <3>3, <3>4
  <2> QED  BY <2>1, <2>2
<1>3. TypeOK'  BY <1>1, <1>2 DEF IInv, TypeOK
<1>4. TicksConserved'  BY <1>1 DEF IInv, TicksConserved
<1> QED  BY <1>2, <1>3, <1>4 DEF IInv

(* pop() takes the lowest of the pending kinds.                            *)
LEMMA LowestResult ==
    ASSUME pending \subseteq Pending, pending # {}
    PROVE  Lowest \in pending
<1>1. \E k \in pending : \A j \in pending : k <= j
  <2>1. pending \subseteq 0 .. 6  BY DEF Pending
  <2>2. CASE 0 \in pending  BY <2>1, <2>2
  <2>3. CASE 0 \notin pending /\ 1 \in pending  BY <2>1, <2>3
  <2>4. CASE pending \cap {0, 1} = {} /\ 2 \in pending  BY <2>1, <2>4
  <2>5. CASE pending \cap {0, 1, 2} = {} /\ 3 \in pending  BY <2>1, <2>5
  <2>6. CASE pending \cap {0, 1, 2, 3} = {} /\ 4 \in pending  BY <2>1, <2>6
  <2>7. CASE pending \cap {0, 1, 2, 3, 4} = {} /\ 5 \in pending  BY <2>1, <2>7
  <2>8. CASE pending \subseteq {6}
    <3>1. 6 \in pending /\ \A j \in pending : j = 6  BY <2>8, pending # {}
    <3> QED  BY <3>1
  <2> QED  BY <2>1, <2>2, <2>3, <2>4, <2>5, <2>6, <2>7, <2>8
<1> QED  BY <1>1 DEF Lowest

(* poll_pending() keeps the invariant: a State report that leaves the      *)
(* pending set carries the flags of the moment.                            *)
LEMMA PendingStep ==
    ASSUME IInv, PollPending
    PROVE  IInv'
<1>1. UNCHANGED <<hal_ticks, ticks, cycle, rx, flags, timers, owed, phase, quiet>>
      /\ turn' = "link"
  BY DEF PollPending
<1>2. /\ pending' \subseteq Pending /\ tx' \in Pending \cup {Idle}
      /\ aged' \in BOOLEAN /\ told' \in Reports \cup {"Never"} /\ ReportDue'
  <2>1. CASE pending # {} /\ tx = Idle
    <3>1. pending' = pending \ {Lowest} /\ Send(Lowest)
      BY <2>1 DEF PollPending
    <3>2. Lowest \in Pending
      BY <2>1, LowestResult DEF IInv, TypeOK
    <3> HIDE DEF Lowest
    <3>3. /\ tx' \in Pending \cup {Idle} /\ aged' \in BOOLEAN
          /\ told' \in Reports \cup {"Never"}
      BY <3>1, <3>2 DEF Send, IInv, TypeOK, Pending, IMU
    <3>4. ReportDue'
      BY <1>1, <3>1 DEF Send, IInv, ReportDue
    <3> QED  BY <3>1, <3>3, <3>4 DEF IInv, TypeOK
  <2>2. CASE ~(pending # {} /\ tx = Idle)
    BY <1>1, <2>2 DEF PollPending, IInv, TypeOK, ReportDue
  <2> QED  BY <2>1, <2>2
<1>3. TypeOK'  BY <1>1, <1>2 DEF IInv, TypeOK, timers
<1>4. TicksConserved' /\ LimiterAgrees'
  BY <1>1 DEF IInv, TicksConserved, LimiterAgrees, timers
<1> QED  BY <1>2, <1>3, <1>4 DEF IInv

(* No step breaks the invariant.                                           *)
LEMMA NextIInv ==
    ASSUME IInv, [Next]_vars
    PROVE  IInv'
<1>1. CASE Overflow  BY <1>1, OverflowStep
<1>2. CASE Cycle \/ (\E f \in Offered : Receive(f)) \/ Drain  BY <1>2, OtherInterrupts
<1>3. CASE PollLink  BY <1>3, LinkStep
<1>4. CASE PollTicks  BY <1>4, TicksStep
<1>5. CASE Inputs  BY <1>5, PwminStep DEF Inputs
<1>6. CASE PollPending  BY <1>6, PendingStep
<1>7. CASE UNCHANGED vars
  BY <1>7 DEF vars, IInv, TypeOK, TicksConserved, ReportDue, LimiterAgrees
<1> QED  BY <1>1, <1>2, <1>3, <1>4, <1>5, <1>6, <1>7 DEF Next, Interrupts, Loop

(* The invariant is one of the specification.                              *)
THEOREM Invariance == Spec => []IInv
<1>1. Init => IInv  BY InitIInv
<1>2. IInv /\ [Next]_vars => IInv'  BY NextIInv
<1> QED  BY <1>1, <1>2, PTL DEF Spec

-----------------------------------------------------------------------------
(* Every variable keeps its type.                                          *)
THEOREM TypeCorrect == Spec => []TypeOK
<1>1. IInv => TypeOK  BY DEF IInv
<1> QED  BY <1>1, Invariance, PTL

(* No overflow is lost or counted twice, and tick() keeps its period where *)
(* the counters wrap.                                                      *)
THEOREM NoTickLost == Spec => []TicksConserved
<1>1. IInv => TicksConserved  BY DEF IInv
<1> QED  BY <1>1, Invariance, PTL

(* What the command board was told last is true, or a report is due.       *)
THEOREM ReportOwed == Spec => []ReportDue
<1>1. IInv => ReportDue  BY DEF IInv
<1> QED  BY <1>1, Invariance, PTL

(* Input reports are asked for more than to_ticks(50) ticks apart.         *)
THEOREM InputsSpaced == Spec => InputSpacing
<1> DEFINE Spaced == (PWMIn \in pending' \ pending) \/ (quiet' = 0 /\ quiet # 0) =>
                         quiet > ShortTicks
<1>1. IInv /\ [Next]_vars => [Spaced]_vars
  <2> SUFFICES ASSUME IInv, Next PROVE Spaced
    OBVIOUS
  <2> USE DEF PWMIn, IMU, State, Heartbeat, Pong, Counters, Version
  <2>1. CASE Overflow \/ Cycle \/ (\E f \in Offered : Receive(f)) \/ Drain
    BY <2>1 DEF Overflow, Cycle, Receive, Drain
  <2>2. CASE PollLink
    BY <2>2, RequestedResult DEF PollLink, Supervised
  <2>3. CASE PollTicks
    <3>1. quiet' \in {quiet, Longer(quiet)} /\ PWMIn \notin pending' \ pending
      BY <2>3 DEF PollTicks, Supervised, TimedWork
    <3>2. quiet \in 0 .. (ShortTicks + 1)  BY DEF IInv, TypeOK
    <3> QED  BY <3>1, <3>2, Periods DEF Longer
  <2>4. CASE Inputs
    <3>1. PICK good \in BOOLEAN : PollPwmin(good)  BY <2>4 DEF Inputs
    <3>2. CASE ~cycle \/ ~good \/ Limited
      BY <3>1, <3>2 DEF PollPwmin, Supervised
    <3>3. CASE ~Limited
      BY <3>3, Periods DEF IInv, LimiterAgrees, Limited, Running, Reserved, Stopped
    <3> QED  BY <3>2, <3>3
  <2>5. CASE PollPending
    BY <2>5 DEF PollPending
  <2> QED  BY <2>1, <2>2, <2>3, <2>4, <2>5 DEF Next, Interrupts, Loop
<1> QED  BY <1>1, Invariance, PTL DEF Spec, InputSpacing
=============================================================================
