----------------------------- MODULE Supervisor -----------------------------
(***************************************************************************)
(* Who drives the rover, and what reaches the servos.                      *)
(*                                                                         *)
(* The Supervisor class (roverif/supervisor.cc) with the parts of RoverIf  *)
(* (roverif/main.cc) that feed it and obey it: a demand frame from the     *)
(* pilot, a cycle of the remote's PWM receiver, the periodic tick, and the *)
(* State report.  All four run to completion in the board's main loop, so  *)
(* each is one action; RoverIf.tla models the loop that calls them.        *)
(*                                                                         *)
(* The operators on a Supervisor object `s` return the object after the    *)
(* call.  The calls it makes back into RoverIf while it runs (changed()    *)
(* and shutdown()) are collected in s.signals, and the handler applies     *)
(* them before it goes on; between handlers s.signals is empty.            *)
(***************************************************************************)
EXTENDS Timer

CONSTANTS
    Channels,       \* the servo channels
    Throttle,       \* the channel that moves the rover
    SeenTicks,      \* to_ticks(500): how long a source stays "seen"
    Full,           \* PWMIn::Full, the width of a full deflection
    Widths,         \* the widths PWMIn::get may return
    Demands         \* the positions a demand frame may carry

Byte == -128 .. 127

ASSUME ChannelAssumption == Throttle \in Channels
ASSUME SeenAssumption == SeenTicks \in 0 .. (Reserved - 1)
ASSUME FullAssumption == Full \in 1 .. 127
ASSUME WidthAssumption == Widths \subseteq Byte
ASSUME DemandAssumption == Demands \subseteq Byte

Missing == -128         \* PWMIn::Missing
DemandReserved == -120  \* Protocol::Demand::Reserved
Mid == 0                \* Servos::Mid

Control == {"Initial", "None", "Remote", "Pilot"}

VARIABLES
    sup,            \* the Supervisor object
    position,       \* Servos::position_
    supplied,       \* RoverIf::pilot_supplied_: the channels of the last demand
    pending,        \* RoverIf::pending_, as far as this module defers
    lamps,          \* the pattern last given to the blinker
    reported,       \* the flags of the State frame sent last, or NeverSent
    author,         \* history: who set each servo last
    remote_age,     \* history: ticks since the remote was last believed
    demand_age      \* history: ticks since the pilot was last heard

board == <<sup, position, supplied, pending, lamps, reported>>
history == <<author, remote_age, demand_age>>
vars == <<sup, position, supplied, pending, lamps, reported,
          author, remote_age, demand_age>>

-----------------------------------------------------------------------------
(* What the rest of the board reads from the Supervisor.                   *)

NeverSent == {"NeverSent"}

FlagNames == {"RemoteOK", "InShutdown", "InControl", "PilotAllowed"}

Flags(s) ==
    { f \in FlagNames :
        \/ f = "RemoteOK" /\ s.remote_ok
        \/ f = "InShutdown" /\ s.in_shutdown
        \/ f = "InControl" /\ s.in_control = "Pilot"
        \/ f = "PilotAllowed" /\ s.pilot_allowed }

Red(s) ==
    CASE s.in_control = "Initial" -> 129
      [] s.in_control = "None"    -> 254
      [] OTHER                    -> IF s.in_shutdown THEN 1 ELSE 0

Green(s) ==
    CASE s.in_control = "Remote" -> IF s.pilot_allowed THEN 138 ELSE 130
      [] s.in_control = "Pilot"  -> 254
      [] OTHER                   -> 0

Lamps(s) == <<Red(s), Green(s)>>

-----------------------------------------------------------------------------
(* The Supervisor class.                                                   *)

Signal(s, call) == [s EXCEPT !.signals = @ \cup {call}]

(* Mutant of Change: the throttle is cut only when nobody is left.         *)
Change_TrustsRemote(s, next) ==
    IF s.in_control = next \/ (s.in_control = "Initial" /\ next = "None")
    THEN s
    ELSE [s EXCEPT !.in_control = next,
                   !.in_shutdown = @ \/ next = "None",
                   !.signals = @ \cup {"changed"}
                                 \cup (IF next = "None" /\ ~s.in_shutdown
                                       THEN {"shutdown"} ELSE {})]

(* Losing the pilot, or the remote, cuts the throttle on the way.          *)
Change(s, next) ==
    IF s.in_control = next \/ (s.in_control = "Initial" /\ next = "None")
    THEN s
    ELSE [s EXCEPT !.in_control = next,
                   !.in_shutdown = @ \/ next # "Pilot",
                   !.signals = @ \cup {"changed"}
                                 \cup (IF next # "Pilot" /\ ~s.in_shutdown
                                       THEN {"shutdown"} ELSE {})]

(* Mutant of PilotMayDrive: a pilot that was lost still counts.            *)
PilotMayDrive_Lost(s) ==
    s.remote_ok /\ s.pilot_wants /\ s.pilot_allowed /\ ~s.in_shutdown

(* Mutant of PilotMayDrive: the shutdown does not keep the pilot out.      *)
PilotMayDrive_InShutdown(s) ==
    s.remote_ok /\ s.pilot_ok /\ s.pilot_wants /\ s.pilot_allowed

PilotMayDrive(s) ==
    s.remote_ok /\ s.pilot_ok /\ s.pilot_wants /\ s.pilot_allowed /\ ~s.in_shutdown

Rightful(s) ==
    IF PilotMayDrive(s) THEN "Pilot" ELSE IF s.remote_ok THEN "Remote" ELSE "None"

(* Mutant of ClearShutdown: changed() is not called.                       *)
ClearShutdown_Silent(s) ==
    IF s.in_control = "Remote" /\ s.in_shutdown /\ ~s.throttle_high
    THEN [s EXCEPT !.in_shutdown = FALSE]
    ELSE s

(* Mutant of ClearShutdown: the stick need not be idle.                    *)
ClearShutdown_AnyStick(s) ==
    IF s.in_control = "Remote" /\ s.in_shutdown
    THEN Signal([s EXCEPT !.in_shutdown = FALSE], "changed")
    ELSE s

(* The shutdown ends when the remote, in control, has its throttle idle.   *)
ClearShutdown(s) ==
    IF s.in_control = "Remote" /\ s.in_shutdown /\ ~s.throttle_high
    THEN Signal([s EXCEPT !.in_shutdown = FALSE], "changed")
    ELSE s

Check(s) == ClearShutdown(Change(s, Rightful(s)))

UpdateRemote(s, high, allowed) ==
    LET t == Check([s EXCEPT !.throttle_high = high,
                             !.pilot_allowed = allowed,
                             !.remote_seen = SeenTicks,
                             !.remote_ok = TRUE])
    IN  IF s.pilot_allowed # allowed THEN Signal(t, "changed") ELSE t

UpdatePilot(s, want) ==
    Check([s EXCEPT !.pilot_wants = want,
                    !.pilot_seen = SeenTicks,
                    !.pilot_ok = TRUE])

(* Mutant of ExpireRemote: a pilot that is heard stands in for the remote. *)
ExpireRemote_PilotWillDo(s) ==
    IF Running(s.remote_seen) \/ Running(s.pilot_seen) THEN s
    ELSE Check([s EXCEPT !.remote_ok = FALSE])

ExpireRemote(s) ==
    IF Running(s.remote_seen) THEN s ELSE Check([s EXCEPT !.remote_ok = FALSE])

(* Mutant of ExpirePilot: the pilot never times out.                       *)
ExpirePilot_Never(s) == s

ExpirePilot(s) ==
    IF Running(s.pilot_seen) THEN s ELSE Check([s EXCEPT !.pilot_ok = FALSE])

TickSupervisor(s) ==
    ExpirePilot(ExpireRemote(
        [s EXCEPT !.remote_seen = Ticked(@, Stopped),
                  !.pilot_seen = Ticked(@, Stopped)]))

-----------------------------------------------------------------------------
(* What RoverIf does with the Supervisor.                                  *)

(* abs(width) > Full/5, with the C division that rounds towards zero; a    *)
(* missing channel (-128) counts as high.                                  *)
High(width) == width > Full \div 5 \/ width < -(Full \div 5)

SwitchedOn(width) == width > -(Full \div 2)

(* A low shutdown channel, or a missing one, makes the whole cycle missing.*)
ShutdownOff(width) == width >= -((Full * 2) \div 3)

(* Mutant of SuppliedAfter: the mask of the last demand survives.          *)
SuppliedAfter_Kept(s, mask) == mask

(* Mutant of PendingAfter: a change is left to the periodic report.        *)
PendingAfter_Periodic(s, p) == p

(* supervisor_changed(), reached from both of the Supervisor's calls.      *)
SuppliedAfter(s, mask) == IF s.signals = {} THEN mask ELSE {}
PendingAfter(s, p) == IF s.signals = {} THEN p ELSE p \cup {"State"}
LampsAfter(s, l) == IF "changed" \in s.signals THEN Lamps(s) ELSE l
Settled(s) == [s EXCEPT !.signals = {}]

(* The channels update_servos() forces to Mid, those the pilot's demand    *)
(* supplies, and those each source may set.                                *)
Held(s) == IF s.in_shutdown THEN {Throttle} ELSE {}

Given(s, demand) == { c \in Channels \ Held(s) : demand[c] > DemandReserved }

(* Mutant of PilotDrives: who is in control is not asked.                  *)
PilotDrives_Anyway(s, demand) == Given(s, demand)

PilotDrives(s, demand) == IF s.in_control = "Pilot" THEN Given(s, demand) ELSE {}

RemoteDrives(s, mask, widths) ==
    { c \in Channels \ Held(s) :
        /\ widths[c] > Missing
        /\ \/ s.in_control = "Remote"
           \/ s.in_control = "Pilot" /\ c \notin mask }

(* Mutant of CutBy: shutdown() leaves the servo alone.                     *)
CutBy_Later(s) == {}

(* The throttle channel goes to Mid when the Supervisor calls shutdown().  *)
CutBy(s) == IF "shutdown" \in s.signals THEN {Throttle} ELSE {}

(* Servos::set on every channel of `driven`, after those forced to Mid.    *)
Moved(pos, driven, demand, forced) ==
    [c \in Channels |-> IF c \in driven THEN Mid + demand[c]
                        ELSE IF c \in forced THEN Mid ELSE pos[c]]

Signed(by, driven, who, forced) ==
    [c \in Channels |-> IF c \in driven THEN who
                        ELSE IF c \in forced THEN "supervisor" ELSE by[c]]

(* The effects of a Supervisor call on the object and its observers.       *)
Apply(s, due) ==
    /\ sup' = Settled(s)
    /\ lamps' = LampsAfter(s, lamps)
    /\ pending' = PendingAfter(s, pending) \cup due
    /\ UNCHANGED reported

Older(age) == IF age > SeenTicks THEN age ELSE age + 1

-----------------------------------------------------------------------------
(* After RoverIf::init().                                                  *)

Boot == [in_control |-> "Initial", in_shutdown |-> TRUE,
         remote_ok |-> FALSE, pilot_ok |-> FALSE,
         pilot_allowed |-> FALSE, pilot_wants |-> FALSE,
         throttle_high |-> FALSE,
         remote_seen |-> 0, pilot_seen |-> 0,
         signals |-> {}]

Init ==
    /\ sup = Boot
    /\ position = [c \in Channels |-> Mid]
    /\ supplied = {}
    /\ pending = {"State"}
    /\ lamps = Lamps(Boot)
    /\ reported = NeverSent
    /\ author = [c \in Channels |-> "supervisor"]
    /\ remote_age = SeenTicks + 1
    /\ demand_age = SeenTicks + 1

(* handle_demand(): a demand frame, whose flags may take control or not.   *)
HandleDemand(take, demand) ==
    LET s == UpdatePilot(sup, take)
        driven == PilotDrives(s, demand)
        forced == Held(s) \cup CutBy(s)
    IN  /\ Apply(s, {})
        /\ supplied' = Given(s, demand)
        /\ position' = Moved(position, driven, demand, forced)
        /\ author' = Signed(author, driven, "pilot", forced)
        /\ demand_age' = 0
        /\ UNCHANGED remote_age

(* poll_pwmin() with a new cycle.  The channels are read one by one while  *)
(* the receiver's interrupt may store new widths, so the throttle that is  *)
(* judged and the throttle that is copied to the servo may differ.         *)
PollPwmin(shut, stick, switch, widths) ==
    LET s == UpdateRemote(sup, High(stick), SwitchedOn(switch))
        mask == SuppliedAfter(s, supplied)
        driven == RemoteDrives(s, mask, widths)
        forced == Held(s) \cup CutBy(s)
    IN  /\ ShutdownOff(shut)
        /\ Apply(s, {})
        /\ supplied' = mask
        /\ position' = Moved(position, driven, widths, forced)
        /\ author' = Signed(author, driven, "remote", forced)
        /\ remote_age' = 0
        /\ UNCHANGED demand_age

(* tick(); the 500 ms state timer may or may not be due.                   *)
Tick(due) ==
    LET s == TickSupervisor(sup)
    IN  /\ Apply(s, due)
        /\ supplied' = SuppliedAfter(s, supplied)
        /\ position' = Moved(position, {}, position, CutBy(s))
        /\ author' = Signed(author, {}, "supervisor", CutBy(s))
        /\ remote_age' = Older(remote_age)
        /\ demand_age' = Older(demand_age)

(* poll_pending() when the link is free and State is the lowest bit.       *)
SendState ==
    /\ "State" \in pending
    /\ pending' = pending \ {"State"}
    /\ reported' = Flags(sup)
    /\ UNCHANGED <<sup, position, supplied, lamps>>
    /\ UNCHANGED history

Demand == \E take \in BOOLEAN, d \in [Channels -> Demands] : HandleDemand(take, d)
Remote == \E shut, stick, switch \in Widths, w \in [Channels -> Widths] :
             PollPwmin(shut, stick, switch, w)
Ticks == \E due \in SUBSET {"State"} : Tick(due)

Next == Demand \/ Remote \/ Ticks \/ SendState

(* The main loop runs for ever and the timer interrupt never stops, so     *)
(* ticks and reports keep happening; frames may stop at any time.          *)
Fairness == WF_vars(Ticks) /\ WF_vars(SendState)

Spec == Init /\ [][Next]_vars
FairSpec == Spec /\ Fairness

-----------------------------------------------------------------------------
(* Properties.                                                             *)

SupervisorType ==
    [in_control : Control, in_shutdown : BOOLEAN,
     remote_ok : BOOLEAN, pilot_ok : BOOLEAN,
     pilot_allowed : BOOLEAN, pilot_wants : BOOLEAN, throttle_high : BOOLEAN,
     remote_seen : TimerValues, pilot_seen : TimerValues,
     signals : SUBSET {"changed", "shutdown"}]

(* Every variable keeps its type, and no call into RoverIf stays unhandled *)
(* when a handler returns.                                                 *)
TypeOK ==
    /\ sup \in SupervisorType
    /\ sup.signals = {}
    /\ position \in [Channels -> Byte]
    /\ supplied \subseteq Channels
    /\ pending \subseteq {"State"}
    /\ lamps \in (0 .. 255) \X (0 .. 255)
    /\ reported \in {NeverSent} \cup SUBSET FlagNames
    /\ author \in [Channels -> {"supervisor", "remote", "pilot"}]
    /\ remote_age \in 0 .. SeenTicks + 1
    /\ demand_age \in 0 .. SeenTicks + 1

(* "Throttle shutdown on start", and whenever nobody is in control: the    *)
(* shutdown is in force and the throttle servo stands at Mid throughout.   *)
ThrottleSafe ==
    /\ sup.in_control \in {"Initial", "None"} => sup.in_shutdown
    /\ sup.in_shutdown => position[Throttle] = Mid

(* The pilot drives only while the remote and the pilot have both been     *)
(* heard within the timeout, the remote's switch allows it and the pilot's *)
(* last demand asks for it.                                                *)
PilotAuthority ==
    sup.in_control = "Pilot" =>
        /\ sup.pilot_allowed /\ sup.pilot_wants /\ ~sup.in_shutdown
        /\ remote_age <= SeenTicks
        /\ demand_age <= SeenTicks

(* Once the pilot is out of control the throttle servo no longer holds a   *)
(* value the pilot commanded: change() cuts it on the way out.             *)
ThrottleReleased ==
    author[Throttle] = "pilot" => sup.in_control = "Pilot"

(* A channel the pilot supplies in its last demand keeps the pilot's value *)
(* while the pilot drives: the remote only fills in the others, and the    *)
(* mask never survives a hand-over.                                        *)
SuppliedByPilot ==
    sup.in_control = "Pilot" => \A c \in supplied : author[c] = "pilot"

(* The blinker shows the state the Supervisor is in.                       *)
LampsTruthful == lamps = Lamps(sup)

(* When the last State report no longer tells the truth a new one is due.  *)
ReportDue == reported # Flags(sup) => "State" \in pending

(* Every change is shown: to the operator at once, and to the command      *)
(* board by a report that is due until it has gone out.  No way through    *)
(* the class changes the state without calling changed().                  *)
ChangesShown == LampsTruthful /\ ReportDue

(* "Clear throttle shutdown by going to idle": the shutdown ends only with *)
(* the remote in control, heard within the timeout, and its last reading   *)
(* of the throttle stick idle.                                             *)
ShutdownEndsIdle ==
    [][sup.in_shutdown /\ ~sup'.in_shutdown =>
          /\ sup'.in_control = "Remote"
          /\ ~sup'.throttle_high
          /\ remote_age' <= SeenTicks]_vars

(* A servo moves only for who is in control: with nobody in control none   *)
(* moves but the throttle to Mid, the remote alone moves servos under      *)
(* Remote, and no servo moves to the pilot's value outside Pilot.          *)
ServosObeyControl ==
    [][\A c \in Channels : position'[c] # position[c] =>
          \/ c = Throttle /\ position'[c] = Mid
          \/ sup'.in_control = "Remote" /\ author'[c] = "remote"
          \/ sup'.in_control = "Pilot" /\ author'[c] \in {"pilot", "remote"}]_vars

(* A pilot that falls silent loses control, whatever the remote does.      *)
SilentPilotLoses ==
    <>[][~Demand]_vars => <>[](sup.in_control # "Pilot")

(* A remote that falls silent (or holds its shutdown switch) stops the     *)
(* rover, whatever the pilot keeps demanding.                              *)
SilentRemoteStops ==
    <>[][~Remote]_vars => <>[](sup.in_shutdown /\ position[Throttle] = Mid)

(* Whatever the board's state becomes, if it stays there it is reported.   *)
EventuallyReported ==
    \A f \in SUBSET FlagNames :
        <>[](Flags(sup) = f) => <>[](reported = f)

(* The handlers implement the goals at the head of supervisor.cc: the      *)
(* abstract ControlHandover, read off the Supervisor and the throttle.     *)
Driver ==
    CASE sup.in_control = "Pilot"  -> "pilot"
      [] sup.in_control = "Remote" -> "remote"
      [] OTHER                     -> "nobody"

Handover == INSTANCE ControlHandover WITH
    driver <- Driver,
    armed <- ~sup.in_shutdown,
    throttle <- IF position[Throttle] = Mid THEN "neutral" ELSE "open"

ImplementsHandover == Handover!Spec

=============================================================================
