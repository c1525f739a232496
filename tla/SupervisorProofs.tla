--------------------------- MODULE SupervisorProofs ---------------------------
(***************************************************************************)
(* Theorems about Supervisor.tla, for every set of channels, widths and    *)
(* demands and every length of the timeouts.                               *)
(*                                                                         *)
(* The Supervisor's calls are first summed up by two relations between the *)
(* object before a call and after it: Checked for check(), Handled for a   *)
(* whole call.  The invariant and the refinement use nothing else of them. *)
(***************************************************************************)
EXTENDS Supervisor, TLAPS

(* What check() may rely on: no shutdown while the pilot drives, and one   *)
(* whenever nobody does.                                                   *)
Sane(s) ==
    /\ s \in SupervisorType
    /\ s.in_control \in {"Initial", "None"} => s.in_shutdown
    /\ s.in_control = "Pilot" => ~s.in_shutdown

(* What holds of the object between handlers.                              *)
Coherent(s) ==
    /\ Sane(s)
    /\ s.remote_ok <=> s.in_control \in {"Remote", "Pilot"}
    /\ s.in_control = "Pilot" => PilotMayDrive(s)

(* How control and the shutdown may change in one call, and which calls    *)
(* back into RoverIf tell of it.                                           *)
Transition(s, t) ==
    /\ s.signals \subseteq t.signals
    /\ "changed" \notin t.signals =>
           t.in_control = s.in_control /\ t.in_shutdown = s.in_shutdown
    /\ t.in_shutdown /\ ~s.in_shutdown => "shutdown" \in t.signals
    /\ s.in_control = "Pilot" /\ t.in_control # "Pilot" => "shutdown" \in t.signals
    /\ s.in_shutdown /\ ~t.in_shutdown =>
           t.in_control = "Remote" /\ ~t.throttle_high
    /\ t.in_control = "Pilot" => ~s.in_shutdown
    /\ t.in_control = s.in_control /\ t.in_shutdown => s.in_shutdown
    /\ t.in_control = "Initial" => s.in_control = "Initial"

(* What check() leaves alone.                                              *)
SameInputs(s, t) ==
    /\ t.remote_ok = s.remote_ok /\ t.pilot_ok = s.pilot_ok
    /\ t.pilot_allowed = s.pilot_allowed /\ t.pilot_wants = s.pilot_wants
    /\ t.throttle_high = s.throttle_high
    /\ t.remote_seen = s.remote_seen /\ t.pilot_seen = s.pilot_seen

-----------------------------------------------------------------------------
(* change() leaves the object sane, moves it to the control asked for      *)
(* (Initial does not become None) and tells RoverIf.                       *)
LEMMA ChangeResult ==
    ASSUME NEW s, Sane(s),
           NEW next \in {"None", "Remote", "Pilot"},
           next = "Pilot" => ~s.in_shutdown,
           NEW t, t = Change(s, next)
    PROVE  /\ Sane(t)
           /\ SameInputs(s, t)
           /\ t.in_control = next \/ (t.in_control = "Initial" /\ next = "None")
           /\ s.signals \subseteq t.signals
           /\ "changed" \notin t.signals =>
                  t.in_control = s.in_control /\ t.in_shutdown = s.in_shutdown
           /\ t.in_shutdown /\ ~s.in_shutdown => "shutdown" \in t.signals
           /\ s.in_control = "Pilot" /\ t.in_control # "Pilot" => "shutdown" \in t.signals
           /\ s.in_shutdown /\ t.in_control # "Pilot" => t.in_shutdown
           /\ t.in_control = s.in_control => t = s
           /\ t.in_control = "Initial" => s.in_control = "Initial"
<1>1. CASE s.in_control = next \/ (s.in_control = "Initial" /\ next = "None")
  <2>1. t = s  BY <1>1 DEF Change
  <2> QED  BY <2>1, <1>1 DEF Sane, SameInputs, SupervisorType
<1>2. CASE ~(s.in_control = next \/ (s.in_control = "Initial" /\ next = "None"))
  <2> DEFINE calls == s.signals \cup {"changed"}
                         \cup (IF next # "Pilot" /\ ~s.in_shutdown
                               THEN {"shutdown"} ELSE {})
             off == s.in_shutdown \/ next # "Pilot"
  <2>1. t = [s EXCEPT !.in_control = next, !.in_shutdown = off, !.signals = calls]
    BY <1>2 DEF Change
  <2>2. calls \in SUBSET {"changed", "shutdown"} /\ off \in BOOLEAN /\ next \in Control
    BY DEF Sane, SupervisorType, Control
  <2>3. /\ s.signals \subseteq calls
        /\ "changed" \in calls
        /\ off /\ ~s.in_shutdown => "shutdown" \in calls
        /\ s.in_control = "Pilot" /\ next # "Pilot" => "shutdown" \in calls
        /\ s.in_shutdown => off
        /\ next = "Pilot" => ~off
        /\ next # "Pilot" => off
    BY DEF Sane, SupervisorType
  <2> HIDE DEF calls, off
  <2>4. t.in_control = next /\ t.in_shutdown = off /\ t.signals = calls /\ SameInputs(s, t)
    BY <2>1 DEF Sane, SupervisorType, SameInputs
  <2>5. t \in SupervisorType
    BY <2>1, <2>2 DEF Sane, SupervisorType
  <2> QED  BY <1>2, <2>3, <2>4, <2>5 DEF Sane
<1> QED  BY <1>1, <1>2

(* check() restores coherence whatever inputs the caller has just stored,  *)
(* and moves control only along Transition.                                *)
LEMMA CheckResult ==
    ASSUME NEW s, Sane(s),
           NEW u, u = Check(s)
    PROVE  Coherent(u) /\ SameInputs(s, u) /\ Transition(s, u)
<1> DEFINE next == Rightful(s)
           t == Change(s, next)
<1>1. next \in {"None", "Remote", "Pilot"} /\ (next = "Pilot" => PilotMayDrive(s))
  BY DEF Rightful
<1>2. next = "Pilot" => ~s.in_shutdown
  BY <1>1 DEF PilotMayDrive
<1>3. /\ Sane(t)
      /\ SameInputs(s, t)
      /\ t.in_control = next \/ (t.in_control = "Initial" /\ next = "None")
      /\ s.signals \subseteq t.signals
      /\ "changed" \notin t.signals =>
             t.in_control = s.in_control /\ t.in_shutdown = s.in_shutdown
      /\ t.in_shutdown /\ ~s.in_shutdown => "shutdown" \in t.signals
      /\ s.in_control = "Pilot" /\ t.in_control # "Pilot" => "shutdown" \in t.signals
      /\ s.in_shutdown /\ t.in_control # "Pilot" => t.in_shutdown
      /\ t.in_control = s.in_control => t = s
      /\ t.in_control = "Initial" => s.in_control = "Initial"
  <2> HIDE DEF next
  <2> QED  BY <1>1, <1>2, ChangeResult
<1>4. next = "None" <=> ~s.remote_ok
  BY DEF Rightful, PilotMayDrive
<1>5. /\ t.remote_ok <=> t.in_control \in {"Remote", "Pilot"}
      /\ t.in_control = "Pilot" => PilotMayDrive(t)
  <2> HIDE DEF next, t
  <2> QED  BY <1>1, <1>3, <1>4 DEF Sane, SameInputs, PilotMayDrive
<1>6. u = ClearShutdown(t)
  BY DEF Check
<1> HIDE DEF next, t
<1>7. CASE ~(t.in_control = "Remote" /\ t.in_shutdown /\ ~t.throttle_high)
  <2>1. u = t  BY <1>6, <1>7 DEF ClearShutdown
  <2>2. Coherent(u)  BY <2>1, <1>3, <1>5 DEF Coherent
  <2>3. Transition(s, u)
    BY <2>1, <1>1, <1>2, <1>3 DEF Transition, Sane
  <2> QED  BY <2>1, <2>2, <2>3, <1>3
<1>8. CASE t.in_control = "Remote" /\ t.in_shutdown /\ ~t.throttle_high
  <2> DEFINE calls == t.signals \cup {"changed"}
  <2>1. u = [[t EXCEPT !.in_shutdown = FALSE] EXCEPT !.signals = calls]
    BY <1>6, <1>8, <1>3 DEF ClearShutdown, Signal, Sane, SupervisorType
  <2>2. calls \in SUBSET {"changed", "shutdown"}
    BY <1>3 DEF Sane, SupervisorType
  <2>3. t.signals \subseteq calls /\ "changed" \in calls
    OBVIOUS
  <2> HIDE DEF calls
  <2>4. /\ u.in_control = "Remote" /\ u.in_shutdown = FALSE
        /\ u.signals = calls /\ SameInputs(t, u)
    BY <2>1, <1>3, <1>8 DEF Sane, SupervisorType, SameInputs
  <2>5. u \in SupervisorType
    BY <2>1, <2>2, <1>3 DEF Sane, SupervisorType
  <2>6. Coherent(u)
    BY <2>4, <2>5, <1>5, <1>8 DEF Coherent, Sane, SameInputs, PilotMayDrive
  <2>7. Transition(s, u)
    BY <2>3, <2>4, <1>3, <1>8 DEF Transition, SameInputs
  <2> QED  BY <2>4, <2>6, <2>7, <1>3 DEF SameInputs
<1> QED  BY <1>7, <1>8

(* With nobody in control and no remote, check() does nothing.             *)
LEMMA CheckNobody ==
    ASSUME NEW s, s.in_control \in {"Initial", "None"}, ~s.remote_ok
    PROVE  Check(s) = s
<1>1. Rightful(s) = "None"  BY DEF Rightful, PilotMayDrive
<1>2. Change(s, "None") = s  BY DEF Change
<1> QED  BY <1>1, <1>2 DEF Check, ClearShutdown

-----------------------------------------------------------------------------
(* A whole call into the Supervisor, between two handlers.                 *)
Handled(s, t) ==
    /\ Coherent(t)
    /\ Transition(s, t)
    /\ "changed" \notin t.signals => t.pilot_allowed = s.pilot_allowed

(* A cycle of the remote makes it believed, with its stick and switch.     *)
LEMMA UpdateRemoteResult ==
    ASSUME NEW s, Coherent(s),
           NEW high \in BOOLEAN, NEW allowed \in BOOLEAN,
           NEW t, t = UpdateRemote(s, high, allowed)
    PROVE  /\ Handled(s, t)
           /\ t.remote_ok /\ t.remote_seen = SeenTicks
           /\ t.pilot_ok = s.pilot_ok /\ t.pilot_seen = s.pilot_seen
<1> DEFINE r == [s EXCEPT !.throttle_high = high, !.pilot_allowed = allowed,
                          !.remote_seen = SeenTicks, !.remote_ok = TRUE]
           u == Check(r)
<1>1. SeenTicks \in TimerValues
  BY SeenAssumption DEF TimerValues, Reserved
<1>2. /\ r \in SupervisorType
      /\ r.in_control = s.in_control /\ r.in_shutdown = s.in_shutdown
      /\ r.signals = s.signals /\ r.remote_ok = TRUE /\ r.remote_seen = SeenTicks
      /\ r.pilot_ok = s.pilot_ok /\ r.pilot_seen = s.pilot_seen
      /\ r.pilot_allowed = allowed
  BY <1>1 DEF Coherent, Sane, SupervisorType
<1>3. Sane(r)  BY <1>2 DEF Coherent, Sane
<1> HIDE DEF r
<1>4. Coherent(u) /\ SameInputs(r, u) /\ Transition(r, u)
  BY <1>3, CheckResult
<1>5. t = IF s.pilot_allowed # allowed THEN Signal(u, "changed") ELSE u
  BY DEF UpdateRemote, r
<1> HIDE DEF u
<1>6. Transition(s, u)
  BY <1>2, <1>4 DEF Transition
<1>7. CASE s.pilot_allowed = allowed
  <2>1. t = u  BY <1>5, <1>7
  <2> QED  BY <2>1, <1>2, <1>4, <1>6, <1>7 DEF Handled, SameInputs
<1>8. CASE s.pilot_allowed # allowed
  <2> DEFINE calls == u.signals \cup {"changed"}
  <2>1. t = [u EXCEPT !.signals = calls]
    BY <1>5, <1>8, <1>4 DEF Signal, Coherent, Sane, SupervisorType
  <2>2. calls \in SUBSET {"changed", "shutdown"} /\ u.signals \subseteq calls /\ "changed" \in calls
    BY <1>4 DEF Coherent, Sane, SupervisorType
  <2> HIDE DEF calls
  <2>3. t \in SupervisorType
    BY <2>1, <2>2, <1>4 DEF Coherent, Sane, SupervisorType
  <2>4. /\ t.in_control = u.in_control /\ t.in_shutdown = u.in_shutdown
        /\ t.signals = calls /\ SameInputs(u, t)
    BY <2>1, <1>4 DEF Coherent, Sane, SupervisorType, SameInputs
  <2>5. Coherent(t)
    BY <2>3, <2>4, <1>4 DEF Coherent, Sane, SameInputs, PilotMayDrive
  <2>6. Transition(s, t)
    BY <2>2, <2>4, <1>6 DEF Transition, SameInputs
  <2> QED  BY <2>2, <2>4, <2>5, <2>6, <1>2, <1>4 DEF Handled, SameInputs
<1> QED  BY <1>7, <1>8

(* A demand makes the pilot believed, with its wish.                       *)
LEMMA UpdatePilotResult ==
    ASSUME NEW s, Coherent(s),
           NEW want \in BOOLEAN,
           NEW t, t = UpdatePilot(s, want)
    PROVE  /\ Handled(s, t)
           /\ t.pilot_ok /\ t.pilot_seen = SeenTicks
           /\ t.remote_ok = s.remote_ok /\ t.remote_seen = s.remote_seen
<1> DEFINE r == [s EXCEPT !.pilot_wants = want, !.pilot_seen = SeenTicks,
                          !.pilot_ok = TRUE]
<1>1. SeenTicks \in TimerValues
  BY SeenAssumption DEF TimerValues, Reserved
<1>2. /\ r \in SupervisorType
      /\ r.in_control = s.in_control /\ r.in_shutdown = s.in_shutdown
      /\ r.signals = s.signals /\ r.pilot_ok = TRUE /\ r.pilot_seen = SeenTicks
      /\ r.remote_ok = s.remote_ok /\ r.remote_seen = s.remote_seen
      /\ r.pilot_allowed = s.pilot_allowed
  BY <1>1 DEF Coherent, Sane, SupervisorType
<1>3. Sane(r)  BY <1>2 DEF Coherent, Sane
<1>4. t = Check(r)  BY DEF UpdatePilot
<1> HIDE DEF r
<1>5. Coherent(t) /\ SameInputs(r, t) /\ Transition(r, t)
  BY <1>3, <1>4, CheckResult
<1>6. Transition(s, t)
  BY <1>2, <1>5 DEF Transition
<1> QED  BY <1>2, <1>5, <1>6 DEF Handled, SameInputs

(* A tick keeps a timer in its byte.                                       *)
LEMMA TickedType ==
    ASSUME NEW n \in TimerValues
    PROVE  Ticked(n, Stopped) \in TimerValues
BY DEF TimerValues, Ticked, Stopped, Reserved

(* A timer that runs out takes its source away; if the remote goes, nobody *)
(* is in control and the pilot's timer changes nothing more.               *)
LEMMA TickResult ==
    ASSUME NEW s, Coherent(s),
           NEW t, t = TickSupervisor(s)
    PROVE  /\ Handled(s, t)
           /\ t.remote_seen = Ticked(s.remote_seen, Stopped)
           /\ t.pilot_seen = Ticked(s.pilot_seen, Stopped)
           /\ t.remote_ok => s.remote_ok /\ Running(t.remote_seen)
           /\ t.pilot_ok => s.pilot_ok /\ Running(t.pilot_seen)
<1> DEFINE r == [s EXCEPT !.remote_seen = Ticked(s.remote_seen, Stopped),
                          !.pilot_seen = Ticked(s.pilot_seen, Stopped)]
           lost == [r EXCEPT !.remote_ok = FALSE]
           u == ExpireRemote(r)
           silent == [u EXCEPT !.pilot_ok = FALSE]
<1>1. /\ s.remote_seen \in TimerValues /\ s.pilot_seen \in TimerValues
      /\ s \in SupervisorType
  BY DEF Coherent, Sane, SupervisorType
<1>2. /\ Ticked(s.remote_seen, Stopped) \in TimerValues
      /\ Ticked(s.pilot_seen, Stopped) \in TimerValues
  BY <1>1, TickedType
<1>3. /\ r \in SupervisorType
      /\ r.in_control = s.in_control /\ r.in_shutdown = s.in_shutdown
      /\ r.signals = s.signals /\ r.remote_ok = s.remote_ok /\ r.pilot_ok = s.pilot_ok
      /\ r.pilot_allowed = s.pilot_allowed /\ r.pilot_wants = s.pilot_wants
      /\ r.remote_seen = Ticked(s.remote_seen, Stopped)
      /\ r.pilot_seen = Ticked(s.pilot_seen, Stopped)
  BY <1>1, <1>2 DEF SupervisorType
<1>4. t = ExpirePilot(u)
  BY <1>1 DEF TickSupervisor, SupervisorType
<1> HIDE DEF r
<1>5. Coherent(r)
  BY <1>3 DEF Coherent, Sane, PilotMayDrive
<1>6. /\ lost \in SupervisorType /\ lost.remote_ok = FALSE
      /\ lost.in_control = r.in_control /\ lost.in_shutdown = r.in_shutdown
      /\ lost.signals = r.signals /\ lost.pilot_ok = r.pilot_ok
      /\ lost.pilot_allowed = r.pilot_allowed
      /\ lost.remote_seen = r.remote_seen /\ lost.pilot_seen = r.pilot_seen
  BY <1>3 DEF SupervisorType
<1>7. Sane(lost)  BY <1>5, <1>6 DEF Coherent, Sane
<1>8. u = IF Running(r.remote_seen) THEN r ELSE Check(lost)
  BY DEF ExpireRemote
<1> HIDE DEF lost, u
<1>9. /\ Coherent(u) /\ Transition(r, u)
      /\ u.remote_seen = r.remote_seen /\ u.pilot_seen = r.pilot_seen
      /\ u.pilot_ok = r.pilot_ok /\ u.pilot_allowed = r.pilot_allowed
      /\ u.remote_ok => r.remote_ok /\ Running(r.remote_seen)
      /\ ~Running(r.remote_seen) => ~u.remote_ok
      /\ Running(r.remote_seen) => u = r
  <2>1. CASE Running(r.remote_seen)
    <3>1. u = r  BY <1>8, <2>1
    <3> QED  BY <3>1, <2>1, <1>5 DEF Transition, Coherent, Sane
  <2>2. CASE ~Running(r.remote_seen)
    <3>1. u = Check(lost)  BY <1>8, <2>2
    <3>2. Coherent(u) /\ SameInputs(lost, u) /\ Transition(lost, u)
      BY <3>1, <1>7, CheckResult
    <3> QED  BY <2>2, <3>2, <1>6 DEF Transition, SameInputs
  <2> QED  BY <2>1, <2>2
<1>10. /\ silent \in SupervisorType /\ silent.pilot_ok = FALSE
       /\ silent.in_control = u.in_control /\ silent.in_shutdown = u.in_shutdown
       /\ silent.signals = u.signals /\ silent.remote_ok = u.remote_ok
       /\ silent.pilot_allowed = u.pilot_allowed
       /\ silent.remote_seen = u.remote_seen /\ silent.pilot_seen = u.pilot_seen
  BY <1>9 DEF Coherent, Sane, SupervisorType
<1>11. Sane(silent)  BY <1>9, <1>10 DEF Coherent, Sane
<1>12. t = IF Running(u.pilot_seen) THEN u ELSE Check(silent)
  BY <1>4 DEF ExpirePilot
<1> HIDE DEF silent
<1>13. CASE Running(u.pilot_seen)
  <2>1. t = u  BY <1>12, <1>13
  <2>2. Transition(s, t)  BY <2>1, <1>9, <1>3 DEF Transition
  <2> QED  BY <2>1, <2>2, <1>9, <1>3, <1>13 DEF Handled
<1>14. CASE ~Running(u.pilot_seen) /\ Running(r.remote_seen)
  <2>1. t = Check(silent)  BY <1>12, <1>14
  <2>2. Coherent(t) /\ SameInputs(silent, t) /\ Transition(silent, t)
    BY <2>1, <1>11, CheckResult
  <2>3. u = r  BY <1>9, <1>14
  <2>4. Transition(s, t)  BY <2>2, <2>3, <1>10, <1>3 DEF Transition, SameInputs
  <2> QED  BY <2>2, <2>3, <2>4, <1>3, <1>10, <1>14 DEF Handled, SameInputs
<1>15. CASE ~Running(u.pilot_seen) /\ ~Running(r.remote_seen)
  <2>1. u.in_control \in {"Initial", "None"} /\ ~u.remote_ok
    BY <1>9, <1>15 DEF Coherent, Sane, SupervisorType, Control
  <2>2. Check(silent) = silent
    BY <2>1, <1>10, CheckNobody
  <2>3. t = silent  BY <2>2, <1>12, <1>15
  <2>4. Coherent(t)
    BY <2>1, <2>3, <1>9, <1>10, <1>11 DEF Coherent
  <2>5. Transition(s, t)
    BY <2>3, <1>9, <1>10, <1>3, <2>1 DEF Transition
  <2> QED  BY <2>1, <2>3, <2>4, <2>5, <1>9, <1>10, <1>3 DEF Handled
<1> QED  BY <1>13, <1>14, <1>15

-----------------------------------------------------------------------------
(* The inductive invariant.                                                *)

(* A source that is believed has a running timer, which counts down as the *)
(* age of what it said last goes up.                                       *)
Counting(ok, seen, age) ==
    ok => seen \in 0 .. SeenTicks /\ age = SeenTicks - seen

TimersAgree ==
    /\ Counting(sup.remote_ok, sup.remote_seen, remote_age)
    /\ Counting(sup.pilot_ok, sup.pilot_seen, demand_age)

AgesOK == remote_age \in 0 .. SeenTicks + 1 /\ demand_age \in 0 .. SeenTicks + 1

(* What the servos, the mask and the observers owe to the Supervisor; the  *)
(* part of the invariant that one call of a handler has to restore.        *)
BoardOK ==
    /\ Coherent(sup) /\ sup.signals = {}
    /\ position \in [Channels -> Byte]
    /\ supplied \subseteq Channels
    /\ pending \subseteq {"State"}
    /\ lamps \in (0 .. 255) \X (0 .. 255)
    /\ reported \in {NeverSent} \cup SUBSET FlagNames
    /\ author \in [Channels -> {"supervisor", "remote", "pilot"}]
    /\ ThrottleSafe
    /\ ThrottleReleased
    /\ SuppliedByPilot
    /\ LampsTruthful
    /\ ReportDue

IInv == BoardOK /\ AgesOK /\ TimersAgree

(* Each lamp's pattern is a byte.                                          *)
LEMMA LampsType ==
    ASSUME NEW s
    PROVE  Lamps(s) \in (0 .. 255) \X (0 .. 255)
<1>1. Red(s) \in 0 .. 255  BY DEF Red
<1>2. Green(s) \in 0 .. 255  BY DEF Green
<1> QED  BY <1>1, <1>2 DEF Lamps

(* Putting the signals away changes nothing else.                          *)
LEMMA SettledResult ==
    ASSUME NEW t, Coherent(t)
    PROVE  /\ Settled(t) \in SupervisorType
           /\ Settled(t).signals = {}
           /\ Settled(t).in_control = t.in_control
           /\ Settled(t).in_shutdown = t.in_shutdown
           /\ Settled(t).pilot_wants = t.pilot_wants
           /\ SameInputs(t, Settled(t))
           /\ Coherent(Settled(t))
           /\ Lamps(Settled(t)) = Lamps(t)
           /\ Flags(Settled(t)) = Flags(t)
<1> DEFINE r == [t EXCEPT !.signals = {}]
<1>1. /\ r \in SupervisorType
      /\ r.signals = {} /\ r.in_control = t.in_control
      /\ r.in_shutdown = t.in_shutdown /\ SameInputs(t, r)
  BY DEF Coherent, Sane, SupervisorType, SameInputs
<1> HIDE DEF r
<1>2. Coherent(r)
  BY <1>1 DEF Coherent, Sane, SameInputs, PilotMayDrive
<1>3. Red(r) = Red(t)  BY <1>1 DEF Red
<1>4. Green(r) = Green(t)  BY <1>1 DEF Green, SameInputs
<1>5. Flags(r) = Flags(t)  BY <1>1 DEF Flags, SameInputs
<1>6. Settled(t) = r  BY DEF Settled, r
<1> QED  BY <1>1, <1>2, <1>3, <1>4, <1>5, <1>6 DEF Lamps, SameInputs

(* What the observers show after a call: the lamps and, unless it is due   *)
(* again, the report are those of the object the call left.                *)
LEMMA ObserversFollow ==
    ASSUME BoardOK,
           NEW t, Handled(sup, t),
           NEW due \in SUBSET {"State"},
           Apply(t, due)
    PROVE  /\ Coherent(sup') /\ sup'.signals = {}
           /\ pending' \subseteq {"State"}
           /\ lamps' \in (0 .. 255) \X (0 .. 255)
           /\ reported' \in {NeverSent} \cup SUBSET FlagNames
           /\ LampsTruthful'
           /\ ReportDue'
<1>1. sup' = Settled(t)  BY DEF Apply
<1>2. Coherent(t)  BY DEF Handled
<1>3. /\ sup'.signals = {} /\ Coherent(sup')
      /\ Lamps(sup') = Lamps(t) /\ Flags(sup') = Flags(t)
  BY <1>1, <1>2, SettledResult
<1>4. pending' \subseteq {"State"}
  BY DEF BoardOK, Apply, PendingAfter
<1>5. reported' = reported  BY DEF Apply
<1>6. ASSUME "changed" \notin t.signals
      PROVE  Lamps(t) = Lamps(sup) /\ Flags(t) = Flags(sup)
  <2>1. /\ t.in_control = sup.in_control /\ t.in_shutdown = sup.in_shutdown
        /\ t.pilot_allowed = sup.pilot_allowed
    BY <1>6 DEF Handled, Transition
  <2>2. t.remote_ok = sup.remote_ok
    BY <2>1, <1>2 DEF BoardOK, Coherent, Sane, SupervisorType
  <2>3. Red(t) = Red(sup) /\ Green(t) = Green(sup)
    BY <2>1 DEF Red, Green
  <2>4. Flags(t) = Flags(sup)
    BY <2>1, <2>2 DEF Flags
  <2> QED  BY <2>3, <2>4 DEF Lamps
<1>7. LampsTruthful'
  BY <1>3, <1>6 DEF LampsTruthful, Apply, LampsAfter, BoardOK
<1>8. lamps' \in (0 .. 255) \X (0 .. 255)
  BY <1>7, LampsType DEF LampsTruthful
<1>9. ReportDue'
  <2>1. CASE t.signals = {}
    BY <2>1, <1>3, <1>5, <1>6 DEF ReportDue, Apply, PendingAfter, BoardOK
  <2>2. CASE t.signals # {}
    BY <2>2 DEF ReportDue, Apply, PendingAfter
  <2> QED  BY <2>1, <2>2
<1> QED  BY <1>3, <1>4, <1>5, <1>7, <1>8, <1>9 DEF BoardOK

(* What the servos hold after a call that moved `driven` for `who`: the    *)
(* channels forced to Mid are those the shutdown holds or cuts, the mask   *)
(* keeps only channels that the pilot set and nobody moved since.          *)
LEMMA ServosFollow ==
    ASSUME BoardOK,
           NEW t, Handled(sup, t),
           NEW due \in SUBSET {"State"}, Apply(t, due),
           NEW who \in {"supervisor", "remote", "pilot"},
           NEW driven, driven \subseteq Channels \ Held(t),
           NEW forced, CutBy(t) \subseteq forced, forced \subseteq Held(t) \cup CutBy(t),
           NEW demand, \A c \in driven : demand[c] \in Byte,
           who = "pilot" /\ driven # {} => t.in_control = "Pilot",
           position' = Moved(position, driven, demand, forced),
           author' = Signed(author, driven, who, forced),
           supplied' \subseteq Channels,
           t.in_control = "Pilot" =>
               \A c \in supplied' : \/ who = "pilot" /\ c \in driven
                                    \/ c \in supplied \ driven /\ t.signals = {}
    PROVE  BoardOK'
<1>1. /\ Coherent(sup') /\ sup'.signals = {}
      /\ pending' \subseteq {"State"}
      /\ lamps' \in (0 .. 255) \X (0 .. 255)
      /\ reported' \in {NeverSent} \cup SUBSET FlagNames
      /\ LampsTruthful' /\ ReportDue'
  BY ObserversFollow
<1>2. /\ sup'.in_control = t.in_control /\ sup'.in_shutdown = t.in_shutdown
      /\ Coherent(t) /\ Transition(sup, t)
  BY SettledResult DEF Apply, Handled
<1>3. position' \in [Channels -> Byte]
  BY DEF Moved, BoardOK, Mid, Byte
<1>4. author' \in [Channels -> {"supervisor", "remote", "pilot"}]
  BY DEF Signed, BoardOK
<1>5. ThrottleSafe'
  <2>1. sup'.in_control \in {"Initial", "None"} => sup'.in_shutdown
    BY <1>1 DEF Coherent, Sane
  <2>2. ASSUME t.in_shutdown PROVE position'[Throttle] = Mid
    <3>1. Throttle \notin driven  BY <2>2 DEF Held
    <3>2. CASE sup.in_shutdown
      BY <3>1, <3>2, ChannelAssumption DEF BoardOK, ThrottleSafe, Moved
    <3>3. CASE ~sup.in_shutdown
      <4>1. "shutdown" \in t.signals  BY <1>2, <2>2, <3>3 DEF Transition
      <4> QED  BY <3>1, <4>1, ChannelAssumption DEF CutBy, Moved
    <3> QED  BY <3>2, <3>3
  <2> QED  BY <1>2, <2>1, <2>2 DEF ThrottleSafe
<1>6. ThrottleReleased'
  <2> SUFFICES ASSUME author'[Throttle] = "pilot" PROVE t.in_control = "Pilot"
    BY <1>2 DEF ThrottleReleased
  <2>1. CASE Throttle \in driven
    BY <2>1, ChannelAssumption DEF Signed
  <2>2. CASE Throttle \notin driven
    <3>1. Throttle \notin forced /\ author[Throttle] = "pilot"
      BY <2>2, ChannelAssumption DEF Signed
    <3>2. "shutdown" \notin t.signals  BY <3>1 DEF CutBy
    <3>3. sup.in_control = "Pilot"  BY <3>1 DEF BoardOK, ThrottleReleased
    <3> QED  BY <1>2, <3>2, <3>3 DEF Transition
  <2> QED  BY <2>1, <2>2
<1>7. SuppliedByPilot'
  <2> SUFFICES ASSUME t.in_control = "Pilot", NEW c \in supplied'
               PROVE  author'[c] = "pilot"
    BY <1>2 DEF SuppliedByPilot
  <2>1. CASE who = "pilot" /\ c \in driven
    BY <2>1 DEF Signed
  <2>2. CASE c \in supplied \ driven /\ t.signals = {}
    <3>1. sup.in_control = "Pilot"  BY <2>2, <1>2 DEF Transition
    <3>2. author[c] = "pilot"  BY <2>2, <3>1 DEF BoardOK, SuppliedByPilot
    <3>3. ~t.in_shutdown  BY <1>2 DEF Coherent, Sane
    <3>4. c \notin forced  BY <2>2, <3>3 DEF Held, CutBy
    <3> QED  BY <2>2, <3>2, <3>4 DEF Signed
  <2> QED  BY <2>1, <2>2
<1> QED  BY <1>1, <1>3, <1>4, <1>5, <1>6, <1>7 DEF BoardOK

-----------------------------------------------------------------------------
(* The invariant holds once init() has returned.                           *)
LEMMA InitIInv == Init => IInv
<1> SUFFICES ASSUME Init PROVE IInv
  OBVIOUS
<1>1. Boot \in SupervisorType
  BY DEF Boot, SupervisorType, Control, TimerValues
<1>2. Coherent(sup) /\ sup.signals = {}
  BY <1>1 DEF Init, Coherent, Sane, Boot
<1>3. lamps \in (0 .. 255) \X (0 .. 255)
  BY LampsType DEF Init
<1>4. BoardOK
  BY <1>2, <1>3, ChannelAssumption DEF Init, BoardOK, Boot, Byte, Mid,
     ThrottleSafe, ThrottleReleased, SuppliedByPilot, LampsTruthful, ReportDue
<1>5. AgesOK /\ TimersAgree
  BY SeenAssumption DEF Init, AgesOK, TimersAgree, Counting, Boot, Reserved
<1> QED  BY <1>4, <1>5 DEF IInv

(* handle_demand() keeps the invariant.                                    *)
LEMMA DemandStep ==
    ASSUME IInv, NEW take \in BOOLEAN, NEW demand \in [Channels -> Demands],
           HandleDemand(take, demand)
    PROVE  IInv'
<1> DEFINE t == UpdatePilot(sup, take)
           driven == PilotDrives(t, demand)
           forced == Held(t) \cup CutBy(t)
<1>1. Coherent(sup)  BY DEF IInv, BoardOK
<1>2. /\ Handled(sup, t) /\ t.pilot_ok /\ t.pilot_seen = SeenTicks
      /\ t.remote_ok = sup.remote_ok /\ t.remote_seen = sup.remote_seen
  BY <1>1, UpdatePilotResult
<1>3. /\ Apply(t, {}) /\ supplied' = Given(t, demand)
      /\ position' = Moved(position, driven, demand, forced)
      /\ author' = Signed(author, driven, "pilot", forced)
      /\ demand_age' = 0 /\ remote_age' = remote_age
  BY DEF HandleDemand
<1> HIDE DEF t
<1>4. BoardOK'
  <2>1. driven \subseteq Channels \ Held(t)  BY DEF PilotDrives, Given
  <2>2. \A c \in driven : demand[c] \in Byte
    BY <2>1, DemandAssumption
  <2>3. driven # {} => t.in_control = "Pilot"  BY DEF PilotDrives
  <2>4. supplied' \subseteq Channels  BY <1>3 DEF Given
  <2>5. t.in_control = "Pilot" => \A c \in supplied' : c \in driven
    BY <1>3 DEF PilotDrives
  <2> HIDE DEF driven, forced
  <2>6. CutBy(t) \subseteq forced /\ forced \subseteq Held(t) \cup CutBy(t)
    BY DEF forced
  <2> QED  BY <1>2, <1>3, <2>1, <2>2, <2>3, <2>4, <2>5, <2>6, ServosFollow DEF IInv
<1>5. SameInputs(t, sup')
  BY <1>2, <1>3, SettledResult DEF Apply, Handled
<1>6. AgesOK' /\ TimersAgree'
  BY <1>2, <1>3, <1>5, SeenAssumption
     DEF IInv, AgesOK, TimersAgree, Counting, SameInputs, Reserved
<1> QED  BY <1>4, <1>6 DEF IInv

(* poll_pwmin() keeps the invariant.                                       *)
LEMMA RemoteStep ==
    ASSUME IInv, NEW shut \in Widths, NEW stick \in Widths, NEW switch \in Widths,
           NEW widths \in [Channels -> Widths],
           PollPwmin(shut, stick, switch, widths)
    PROVE  IInv'
<1> DEFINE t == UpdateRemote(sup, High(stick), SwitchedOn(switch))
           mask == SuppliedAfter(t, supplied)
           driven == RemoteDrives(t, mask, widths)
           forced == Held(t) \cup CutBy(t)
<1>1. Coherent(sup) /\ High(stick) \in BOOLEAN /\ SwitchedOn(switch) \in BOOLEAN
  BY DEF IInv, BoardOK, High, SwitchedOn
<1>2. /\ Handled(sup, t) /\ t.remote_ok /\ t.remote_seen = SeenTicks
      /\ t.pilot_ok = sup.pilot_ok /\ t.pilot_seen = sup.pilot_seen
  BY <1>1, UpdateRemoteResult
<1>3. /\ Apply(t, {}) /\ supplied' = mask
      /\ position' = Moved(position, driven, widths, forced)
      /\ author' = Signed(author, driven, "remote", forced)
      /\ remote_age' = 0 /\ demand_age' = demand_age
  BY DEF PollPwmin
<1> HIDE DEF t
<1>4. BoardOK'
  <2>1. driven \subseteq Channels \ Held(t)  BY DEF RemoteDrives
  <2>2. \A c \in driven : widths[c] \in Byte
    BY <2>1, WidthAssumption
  <2>3. supplied' \subseteq Channels
    BY <1>3 DEF SuppliedAfter, IInv, BoardOK
  <2>4. t.in_control = "Pilot" =>
            \A c \in supplied' : c \in supplied \ driven /\ t.signals = {}
    BY <1>3 DEF RemoteDrives, SuppliedAfter
  <2> HIDE DEF driven, forced
  <2>5. CutBy(t) \subseteq forced /\ forced \subseteq Held(t) \cup CutBy(t)
    BY DEF forced
  <2> QED  BY <1>2, <1>3, <2>1, <2>2, <2>3, <2>4, <2>5, ServosFollow DEF IInv
<1>5. SameInputs(t, sup')
  BY <1>2, <1>3, SettledResult DEF Apply, Handled
<1>6. AgesOK' /\ TimersAgree'
  BY <1>2, <1>3, <1>5, SeenAssumption
     DEF IInv, AgesOK, TimersAgree, Counting, SameInputs, Reserved
<1> QED  BY <1>4, <1>6 DEF IInv

(* A believed source that survives a tick is one tick older and its timer  *)
(* one tick shorter.                                                       *)
LEMMA CountDown ==
    ASSUME NEW ok, NEW seen, NEW age \in 0 .. SeenTicks + 1,
           Counting(ok, seen, age),
           NEW ok2, ok2 => ok /\ Running(Ticked(seen, Stopped))
    PROVE  /\ Older(age) \in 0 .. SeenTicks + 1
           /\ Counting(ok2, Ticked(seen, Stopped), Older(age))
<1>1. Older(age) \in 0 .. SeenTicks + 1
  BY SeenAssumption DEF Older, Reserved
<1>2. ASSUME ok2
      PROVE  /\ Ticked(seen, Stopped) \in 0 .. SeenTicks
             /\ Older(age) = SeenTicks - Ticked(seen, Stopped)
  <2>1. seen \in 0 .. SeenTicks /\ age = SeenTicks - seen
    BY <1>2 DEF Counting
  <2>2. Running(Ticked(seen, Stopped))
    BY <1>2
  <2>3. seen # 0
    BY <2>2 DEF Ticked, Running, Stopped, Reserved
  <2>4. Ticked(seen, Stopped) = seen - 1
    BY <2>1, <2>3, SeenAssumption DEF Ticked, Reserved
  <2> QED  BY <2>1, <2>3, <2>4, SeenAssumption DEF Older, Reserved
<1> QED  BY <1>1, <1>2 DEF Counting

(* tick() keeps the invariant.                                             *)
LEMMA TickStep ==
    ASSUME IInv, NEW due \in SUBSET {"State"}, Tick(due)
    PROVE  IInv'
<1> DEFINE t == TickSupervisor(sup)
<1>1. Coherent(sup)  BY DEF IInv, BoardOK
<1>2. /\ Handled(sup, t)
      /\ t.remote_seen = Ticked(sup.remote_seen, Stopped)
      /\ t.pilot_seen = Ticked(sup.pilot_seen, Stopped)
      /\ t.remote_ok => sup.remote_ok /\ Running(t.remote_seen)
      /\ t.pilot_ok => sup.pilot_ok /\ Running(t.pilot_seen)
  BY <1>1, TickResult
<1>3. /\ Apply(t, due) /\ supplied' = SuppliedAfter(t, supplied)
      /\ position' = Moved(position, {}, position, CutBy(t))
      /\ author' = Signed(author, {}, "supervisor", CutBy(t))
      /\ remote_age' = Older(remote_age) /\ demand_age' = Older(demand_age)
  BY DEF Tick
<1> HIDE DEF t
<1>4. BoardOK'
  <2>1. supplied' \subseteq Channels
    BY <1>3 DEF SuppliedAfter, IInv, BoardOK
  <2>2. \A c \in supplied' : c \in supplied \ {} /\ t.signals = {}
    BY <1>3 DEF SuppliedAfter
  <2> QED  BY <1>2, <1>3, <2>1, <2>2, ServosFollow DEF IInv
<1>5. SameInputs(t, sup')
  BY <1>2, <1>3, SettledResult DEF Apply, Handled
<1>6. AgesOK' /\ TimersAgree'
  <2>1. /\ remote_age' \in 0 .. SeenTicks + 1
        /\ Counting(t.remote_ok, t.remote_seen, remote_age')
    BY <1>2, <1>3, CountDown DEF IInv, AgesOK, TimersAgree
  <2>2. /\ demand_age' \in 0 .. SeenTicks + 1
        /\ Counting(t.pilot_ok, t.pilot_seen, demand_age')
    BY <1>2, <1>3, CountDown DEF IInv, AgesOK, TimersAgree
  <2> QED  BY <2>1, <2>2, <1>5 DEF AgesOK, TimersAgree, SameInputs
<1> QED  BY <1>4, <1>6 DEF IInv

(* Sending the report keeps the invariant.                                 *)
LEMMA SendStep ==
    ASSUME IInv, SendState
    PROVE  IInv'
<1>1. reported' = Flags(sup) /\ sup' = sup
  BY DEF SendState
<1>2. reported' \in SUBSET FlagNames
  BY <1>1 DEF Flags
<1>3. pending' \subseteq {"State"}
  BY DEF SendState, IInv, BoardOK
<1>4. Flags(sup)' = Flags(sup) /\ Lamps(sup)' = Lamps(sup)
  BY <1>1
<1>5. BoardOK'
  BY <1>1, <1>2, <1>3, <1>4 DEF SendState, history, IInv, BoardOK,
     ThrottleSafe, ThrottleReleased, SuppliedByPilot, LampsTruthful, ReportDue
<1>6. AgesOK' /\ TimersAgree'
  BY <1>1 DEF SendState, history, IInv, AgesOK, TimersAgree
<1> QED  BY <1>5, <1>6 DEF IInv

(* No step breaks the invariant.                                           *)
LEMMA NextIInv ==
    ASSUME IInv, [Next]_vars
    PROVE  IInv'
<1>1. CASE Demand  BY <1>1, DemandStep DEF Demand
<1>2. CASE Remote  BY <1>2, RemoteStep DEF Remote
<1>3. CASE Ticks  BY <1>3, TickStep DEF Ticks
<1>4. CASE SendState  BY <1>4, SendStep
<1>5. CASE UNCHANGED vars
  BY <1>5 DEF vars, IInv, BoardOK, AgesOK, TimersAgree, Counting,
     ThrottleSafe, ThrottleReleased, SuppliedByPilot, LampsTruthful, ReportDue
<1> QED  BY <1>1, <1>2, <1>3, <1>4, <1>5 DEF Next

(* The invariant is one of the specification.                              *)
THEOREM Invariance == Spec => []IInv
<1>1. Init => IInv  BY InitIInv
<1>2. IInv /\ [Next]_vars => IInv'  BY NextIInv
<1> QED  BY <1>1, <1>2, PTL DEF Spec

-----------------------------------------------------------------------------
(* The properties of the runs, for every value of the constants.           *)

(* Every variable keeps its type.                                          *)
THEOREM TypeCorrect == Spec => []TypeOK
<1>1. IInv => TypeOK
  BY DEF IInv, BoardOK, AgesOK, TypeOK, Coherent, Sane
<1> QED  BY <1>1, Invariance, PTL

(* With nobody in control the throttle is shut down, and a throttle that   *)
(* is shut down stands at Mid.                                             *)
THEOREM ThrottleSafety == Spec => []ThrottleSafe
<1>1. IInv => ThrottleSafe  BY DEF IInv, BoardOK
<1> QED  BY <1>1, Invariance, PTL

(* The pilot drives only with both sources fresh and the remote's consent. *)
THEOREM PilotAuthorised == Spec => []PilotAuthority
<1>1. IInv => PilotAuthority
  <2> SUFFICES ASSUME IInv, sup.in_control = "Pilot"
               PROVE  /\ sup.pilot_allowed /\ sup.pilot_wants /\ ~sup.in_shutdown
                      /\ remote_age <= SeenTicks /\ demand_age <= SeenTicks
    BY DEF PilotAuthority
  <2>1. PilotMayDrive(sup)  BY DEF IInv, BoardOK, Coherent
  <2>2. /\ sup.remote_seen \in 0 .. SeenTicks /\ remote_age = SeenTicks - sup.remote_seen
        /\ sup.pilot_seen \in 0 .. SeenTicks /\ demand_age = SeenTicks - sup.pilot_seen
    BY <2>1 DEF PilotMayDrive, IInv, TimersAgree, Counting
  <2> QED  BY <2>1, <2>2, SeenAssumption DEF PilotMayDrive, Reserved
<1> QED  BY <1>1, Invariance, PTL

(* The pilot's throttle does not outlive its control.                      *)
THEOREM PilotThrottleReleased == Spec => []ThrottleReleased
<1>1. IInv => ThrottleReleased  BY DEF IInv, BoardOK
<1> QED  BY <1>1, Invariance, PTL

(* The remote never overrides a channel the pilot supplies.                *)
THEOREM PilotChannelsHold == Spec => []SuppliedByPilot
<1>1. IInv => SuppliedByPilot  BY DEF IInv, BoardOK
<1> QED  BY <1>1, Invariance, PTL

(* ChangesShown: the lamps show the present state, and a State report is   *)
(* due whenever the last one is out of date (changed() of supervisor.cc).  *)
THEOREM ChangesAreShown == Spec => []ChangesShown
<1>1. IInv => ChangesShown  BY DEF IInv, BoardOK, ChangesShown
<1> QED  BY <1>1, Invariance, PTL

-----------------------------------------------------------------------------
(* A step is a call into the Supervisor or leaves it and the servos alone. *)
LEMMA StepShape ==
    ASSUME IInv, Next
    PROVE  \/ sup' = sup /\ position' = position
           \/ \E t : /\ Handled(sup, t) /\ SameInputs(t, sup')
                     /\ sup'.in_control = t.in_control
                     /\ sup'.in_shutdown = t.in_shutdown
<1>1. Coherent(sup)  BY DEF IInv, BoardOK
<1>2. ASSUME NEW t, NEW due, Handled(sup, t), Apply(t, due)
      PROVE  /\ SameInputs(t, sup')
             /\ sup'.in_control = t.in_control /\ sup'.in_shutdown = t.in_shutdown
  BY <1>2, SettledResult DEF Handled, Apply
<1>3. CASE Demand
  <2>1. PICK take \in BOOLEAN, d \in [Channels -> Demands] : HandleDemand(take, d)
    BY <1>3 DEF Demand
  <2>2. Handled(sup, UpdatePilot(sup, take))
    BY <1>1, UpdatePilotResult
  <2>3. Apply(UpdatePilot(sup, take), {})  BY <2>1 DEF HandleDemand
  <2> QED  BY <1>2, <2>2, <2>3
<1>4. CASE Remote
  <2>1. PICK shut \in Widths, stick \in Widths, switch \in Widths,
             w \in [Channels -> Widths] : PollPwmin(shut, stick, switch, w)
    BY <1>4 DEF Remote
  <2> DEFINE t == UpdateRemote(sup, High(stick), SwitchedOn(switch))
  <2>2. High(stick) \in BOOLEAN /\ SwitchedOn(switch) \in BOOLEAN
    BY DEF High, SwitchedOn
  <2>3. Handled(sup, t)
    BY <1>1, <2>2, UpdateRemoteResult
  <2>4. Apply(t, {})  BY <2>1 DEF PollPwmin
  <2> HIDE DEF t
  <2> QED  BY <1>2, <2>3, <2>4
<1>5. CASE Ticks
  <2>1. PICK due \in SUBSET {"State"} : Tick(due)
    BY <1>5 DEF Ticks
  <2>2. Handled(sup, TickSupervisor(sup))
    BY <1>1, TickResult
  <2>3. Apply(TickSupervisor(sup), due)  BY <2>1 DEF Tick
  <2> QED  BY <1>2, <2>2, <2>3
<1>6. CASE SendState
  BY <1>6 DEF SendState
<1> QED  BY <1>3, <1>4, <1>5, <1>6 DEF Next

(* The shutdown ends only under a fresh remote whose throttle is idle.     *)
THEOREM ShutdownNeedsIdle == Spec => ShutdownEndsIdle
<1> DEFINE Ends == sup.in_shutdown /\ ~sup'.in_shutdown =>
                      /\ sup'.in_control = "Remote"
                      /\ ~sup'.throttle_high
                      /\ remote_age' <= SeenTicks
<1>1. IInv /\ IInv' /\ [Next]_vars => [Ends]_vars
  <2> SUFFICES ASSUME IInv, IInv', Next, sup.in_shutdown, ~sup'.in_shutdown
               PROVE  /\ sup'.in_control = "Remote"
                      /\ ~sup'.throttle_high
                      /\ remote_age' <= SeenTicks
    OBVIOUS
  <2>1. sup' # sup  OBVIOUS
  <2>2. PICK t : /\ Handled(sup, t) /\ SameInputs(t, sup')
                 /\ sup'.in_control = t.in_control
                 /\ sup'.in_shutdown = t.in_shutdown
    BY <2>1, StepShape
  <2>3. sup'.in_control = "Remote" /\ ~sup'.throttle_high
    BY <2>2 DEF Handled, Transition, SameInputs
  <2>4. sup'.remote_ok
    BY <2>3 DEF IInv, BoardOK, Coherent
  <2>5. sup'.remote_seen \in 0 .. SeenTicks /\ remote_age' = SeenTicks - sup'.remote_seen
    BY <2>4 DEF IInv, TimersAgree, Counting
  <2> QED  BY <2>3, <2>5, SeenAssumption DEF Reserved
<1> QED  BY <1>1, Invariance, PTL DEF Spec, ShutdownEndsIdle

(* The Supervisor implements the abstract hand-over protocol.              *)
THEOREM Refinement == Spec => ImplementsHandover
<1>1. Init => Handover!Init
  BY ChannelAssumption DEF Init, Handover!Init, Driver, Boot
<1>2. IInv /\ IInv' /\ [Next]_vars => [Handover!Next]_(Handover!vars)
  <2> SUFFICES ASSUME IInv, IInv', [Next]_vars
               PROVE  [Handover!Next]_(Handover!vars)
    OBVIOUS
  <2> DEFINE open == IF position[Throttle] = Mid THEN "neutral" ELSE "open"
  <2>1. CASE sup' = sup /\ position' = position
    BY <2>1 DEF Handover!vars, Driver
  <2>2. CASE \E t : /\ Handled(sup, t) /\ SameInputs(t, sup')
                    /\ sup'.in_control = t.in_control
                    /\ sup'.in_shutdown = t.in_shutdown
    <3>1. PICK t : /\ Handled(sup, t)
                   /\ sup'.in_control = t.in_control
                   /\ sup'.in_shutdown = t.in_shutdown
      BY <2>2
    <3>2. /\ sup.in_control \in Control /\ sup'.in_control \in Control
          /\ sup.in_shutdown \in BOOLEAN /\ sup'.in_shutdown \in BOOLEAN
      BY DEF IInv, BoardOK, Coherent, Sane, SupervisorType
    <3>3. /\ sup.in_control \in {"Initial", "None"} => sup.in_shutdown
          /\ sup'.in_control \in {"Initial", "None"} => sup'.in_shutdown
          /\ sup.in_control = "Pilot" => ~sup.in_shutdown
          /\ sup'.in_control = "Pilot" => ~sup'.in_shutdown /\ ~sup.in_shutdown
          /\ sup'.in_control = sup.in_control /\ sup'.in_shutdown => sup.in_shutdown
          /\ sup.in_shutdown /\ ~sup'.in_shutdown => sup'.in_control = "Remote"
          /\ sup.in_shutdown => open = "neutral"
          /\ sup'.in_shutdown => open' = "neutral"
      BY <3>1 DEF Handled, Transition, IInv, BoardOK, Coherent, Sane, ThrottleSafe
    <3>4. open \in {"neutral", "open"} /\ open' \in {"neutral", "open"}
      OBVIOUS
    <3> HIDE DEF open
    <3> QED
      BY <3>2, <3>3, <3>4 DEF Control, Driver, Handover!Next, Handover!vars,
         Handover!Appear, Handover!Arm, Handover!Engage, Handover!Release,
         Handover!Drive, Handover!Vanish, Handover!Standing, open
  <2>3. CASE UNCHANGED vars
    BY <2>3 DEF vars, Handover!vars, Driver
  <2> QED  BY <2>1, <2>2, <2>3, StepShape
<1> QED  BY <1>1, <1>2, Invariance, PTL DEF Spec, ImplementsHandover, Handover!Spec

(* A servo moves only for who is in control, or the throttle to Mid.       *)
LEMMA MovedObeys ==
    ASSUME NEW t, Coherent(t), NEW due, Apply(t, due),
           NEW who, NEW driven, NEW demand,
           NEW forced, forced \subseteq Held(t) \cup CutBy(t),
           position' = Moved(position, driven, demand, forced),
           author' = Signed(author, driven, who, forced),
           driven # {} => \/ t.in_control = "Remote" /\ who = "remote"
                          \/ t.in_control = "Pilot" /\ who \in {"pilot", "remote"},
           NEW c \in Channels, position'[c] # position[c]
    PROVE  \/ c = Throttle /\ position'[c] = Mid
           \/ sup'.in_control = "Remote" /\ author'[c] = "remote"
           \/ sup'.in_control = "Pilot" /\ author'[c] \in {"pilot", "remote"}
<1>1. sup'.in_control = t.in_control
  BY SettledResult DEF Apply
<1>2. forced \subseteq {Throttle}
  BY DEF Held, CutBy
<1>3. CASE c \in driven
  BY <1>1, <1>3 DEF Signed
<1>4. CASE c \notin driven
  BY <1>2, <1>4 DEF Moved
<1> QED  BY <1>3, <1>4

(* No servo moves against whoever is in control.                           *)
THEOREM ServosObey == Spec => ServosObeyControl
<1> DEFINE Obeys ==
        \A c \in Channels : position'[c] # position[c] =>
          \/ c = Throttle /\ position'[c] = Mid
          \/ sup'.in_control = "Remote" /\ author'[c] = "remote"
          \/ sup'.in_control = "Pilot" /\ author'[c] \in {"pilot", "remote"}
<1>1. ASSUME IInv, Next PROVE Obeys
  <2>1. Coherent(sup)  BY <1>1 DEF IInv, BoardOK
  <2>2. CASE Demand
    <3>1. PICK take \in BOOLEAN, d \in [Channels -> Demands] : HandleDemand(take, d)
      BY <2>2 DEF Demand
    <3> DEFINE t == UpdatePilot(sup, take)
               forced == Held(t) \cup CutBy(t)
    <3>2. Coherent(t)  BY <2>1, UpdatePilotResult DEF Handled
    <3>3. /\ Apply(t, {})
          /\ position' = Moved(position, PilotDrives(t, d), d, forced)
          /\ author' = Signed(author, PilotDrives(t, d), "pilot", forced)
      BY <3>1 DEF HandleDemand
    <3> HIDE DEF t
    <3>4. PilotDrives(t, d) # {} => t.in_control = "Pilot"
      BY DEF PilotDrives
    <3> QED  BY <3>2, <3>3, <3>4, MovedObeys
  <2>3. CASE Remote
    <3>1. PICK shut \in Widths, stick \in Widths, switch \in Widths,
               w \in [Channels -> Widths] : PollPwmin(shut, stick, switch, w)
      BY <2>3 DEF Remote
    <3> DEFINE t == UpdateRemote(sup, High(stick), SwitchedOn(switch))
               forced == Held(t) \cup CutBy(t)
               driven == RemoteDrives(t, SuppliedAfter(t, supplied), w)
    <3>2. Coherent(t)
      <4>1. High(stick) \in BOOLEAN /\ SwitchedOn(switch) \in BOOLEAN
        BY DEF High, SwitchedOn
      <4> QED  BY <2>1, <4>1, UpdateRemoteResult DEF Handled
    <3>3. /\ Apply(t, {})
          /\ position' = Moved(position, driven, w, forced)
          /\ author' = Signed(author, driven, "remote", forced)
      BY <3>1 DEF PollPwmin
    <3> HIDE DEF t
    <3>4. driven # {} => t.in_control \in {"Remote", "Pilot"}
      BY DEF RemoteDrives
    <3> HIDE DEF driven
    <3> QED  BY <3>2, <3>3, <3>4, MovedObeys
  <2>4. CASE Ticks
    <3>1. PICK due \in SUBSET {"State"} : Tick(due)
      BY <2>4 DEF Ticks
    <3> DEFINE t == TickSupervisor(sup)
    <3>2. Coherent(t)  BY <2>1, TickResult DEF Handled
    <3>3. /\ Apply(t, due)
          /\ position' = Moved(position, {}, position, CutBy(t))
          /\ author' = Signed(author, {}, "supervisor", CutBy(t))
      BY <3>1 DEF Tick
    <3> HIDE DEF t
    <3> QED  BY <3>2, <3>3, MovedObeys
  <2>5. CASE SendState
    BY <2>5 DEF SendState
  <2> QED  BY <1>1, <2>2, <2>3, <2>4, <2>5 DEF Next
<1>2. IInv /\ [Next]_vars => [Obeys]_vars
  BY <1>1
<1> QED  BY <1>2, Invariance, PTL DEF Spec, ServosObeyControl
=============================================================================
