------------------------------ MODULE RoverLoop ------------------------------
(***************************************************************************)
(* The goroutines of the command board (nppilot/rover/driver.go): the      *)
(* driver's select loop, the switch watcher, the readers of the I/O board  *)
(* and of the GPS, and the two tickers.                                    *)
(*                                                                         *)
(* Frames, Sentences, Level and Event are unbuffered: a sender stands in   *)
(* its send until the receiver is at a receive, and the two go on in one   *)
(* step.  A ticker's channel holds one tick and drops the others.          *)
(***************************************************************************)
EXTENDS Button, Mission

CONSTANTS
    Tickers,    \* "step" (50 ms) and "heartbeat" (1 s)
    Kinds,      \* the frames from the I/O board: "Input", and "Other" for
                \* heartbeats, pongs and IMU readings
    Levels,     \* the positions the operator puts the switch in
    Sentences,  \* the positions of RMC sentences, and NotRMC
    NotRMC,     \* a sentence of another type
    MaxPoints   \* bound: the operator stops marking at this many points

ASSUME MaxAssumption == MaxPoints \in Nat
ASSUME TickerAssumption == "step" \in Tickers /\ Tickers \subseteq {"step", "heartbeat"}
ASSUME KindAssumption == Kinds \subseteq {"Input", "Other"}
ASSUME LevelAssumption == Levels \subseteq 0 .. 2
ASSUME SentenceAssumption == Sentences \subseteq Positions \cup {NotRMC}

VARIABLES
    driver,     \* "select", or "level": blocked in d.Switch.Level <-
    switch,     \* Status.Input.Switch
    seen,       \* inputSeen is running
    frame,      \* what link.Watch stands offering: <<>> or <<a frame>>
    sentence,   \* what gps.Read stands offering
    ticks       \* the tickers whose channel holds a tick

loop == <<driver, switch, seen, frame, sentence, ticks>>
vars == <<at, sends, armed, token, state, points, here, fix, waypoint, demand,
          driver, switch, seen, frame, sentence, ticks>>

Frame(kind, level) == [kind |-> kind, level |-> level]
Frames == { Frame(kind, level) : kind \in Kinds, level \in Levels }

-----------------------------------------------------------------------------
(* The environment: what the ports deliver and the clocks do.              *)

(* The operator's switch; marking stops at MaxPoints until a Hold clears.  *)
MayMove(level) == level = 0 \/ Len(points) < MaxPoints \/ (at # 0 /\ switch # 0 /\ Selecting)

(* link.Watch has decoded a frame and blocks in link.Frames <- msg.        *)
OfferFrame(f) ==
    /\ frame = <<>>
    /\ f.kind = "Input" => MayMove(f.level)
    /\ frame' = <<f>>
    /\ UNCHANGED <<driver, switch, seen, sentence, ticks>>
    /\ UNCHANGED <<button, mission>>

(* gps.Read has decoded a sentence and blocks in link.Sentences <- msg.    *)
OfferSentence(p) ==
    /\ sentence = <<>>
    /\ sentence' = <<p>>
    /\ UNCHANGED <<driver, switch, seen, frame, ticks>>
    /\ UNCHANGED <<button, mission>>

TickerFires(t) ==
    /\ t \notin ticks /\ ticks' = ticks \cup {t}
    /\ UNCHANGED <<driver, switch, seen, frame, sentence>>
    /\ UNCHANGED <<button, mission>>

InputExpires ==
    /\ seen /\ seen' = FALSE
    /\ UNCHANGED <<driver, switch, frame, sentence, ticks>>
    /\ UNCHANGED <<button, mission>>

HoldExpires ==
    /\ TimerExpires
    /\ UNCHANGED <<loop, mission>>

-----------------------------------------------------------------------------
(* The driver's select, one action for each case.                          *)

(* Mutant of AfterFrame: the level is not sent to a watcher that is busy.  *)
AfterFrame_Drops(f) ==
    IF f.kind = "Input"
    THEN driver' = (IF Selecting THEN "level" ELSE "select") /\ switch' = f.level /\ seen' = TRUE
    ELSE UNCHANGED <<driver, switch, seen>>

(* input() stores the switch and then sends it to the watcher.             *)
AfterFrame(f) ==
    IF f.kind = "Input"
    THEN driver' = "level" /\ switch' = f.level /\ seen' = TRUE
    ELSE UNCHANGED <<driver, switch, seen>>

TakeFrame ==
    /\ driver = "select" /\ frame # <<>>
    /\ AfterFrame(Head(frame))
    /\ frame' = <<>>
    /\ UNCHANGED <<sentence, ticks>>
    /\ UNCHANGED <<button, mission>>

TakeSentence ==
    /\ driver = "select" /\ sentence # <<>>
    /\ IF Head(sentence) = NotRMC THEN UNCHANGED mission ELSE Locate(Head(sentence))
    /\ sentence' = <<>>
    /\ UNCHANGED <<driver, switch, seen, frame, ticks>>
    /\ UNCHANGED button

TakeEvent ==
    /\ driver = "select" /\ sends # <<>>
    /\ SwitchEvent(Head(sends))
    /\ EventTaken
    /\ UNCHANGED loop

(* Mutant of TakeTick: the ticks have a goroutine of their own.            *)
TakeTick_Aside ==
    /\ "step" \in ticks
    /\ ticks' = ticks \ {"step"}
    /\ switch' = IF seen THEN switch ELSE -1
    /\ Step
    /\ UNCHANGED <<driver, seen, frame, sentence>>
    /\ UNCHANGED button

(* Mutant of TakeTick: without fresh inputs there is no step.              *)
TakeTick_WithInput ==
    /\ driver = "select" /\ "step" \in ticks
    /\ seen
    /\ ticks' = ticks \ {"step"}
    /\ Step
    /\ UNCHANGED <<driver, switch, seen, frame, sentence>>
    /\ UNCHANGED button

(* checkAll() and step()                                                   *)
TakeTick ==
    /\ driver = "select" /\ "step" \in ticks
    /\ ticks' = ticks \ {"step"}
    /\ switch' = IF seen THEN switch ELSE -1
    /\ Step
    /\ UNCHANGED <<driver, seen, frame, sentence>>
    /\ UNCHANGED button

(* localHeartbeat(): a ping goes out and the watchdogs are logged.         *)
TakeHeartbeat ==
    /\ driver = "select" /\ "heartbeat" \in ticks
    /\ ticks' = ticks \ {"heartbeat"}
    /\ UNCHANGED <<driver, switch, seen, frame, sentence>>
    /\ UNCHANGED <<button, mission>>

(* The case of one ticker.                                                 *)
TakeFrom(t) == (t = "step" /\ TakeTick) \/ (t = "heartbeat" /\ TakeHeartbeat)

-----------------------------------------------------------------------------
(* The watcher's select; its sends complete in TakeEvent.                  *)

(* The driver's send of the level meets the watcher's receive.             *)
PassLevel ==
    /\ driver = "level"
    /\ ReceiveLevel(switch)
    /\ driver' = "select"
    /\ UNCHANGED <<switch, seen, frame, sentence, ticks>>
    /\ UNCHANGED mission

WatchHold ==
    /\ TakeExpiry
    /\ UNCHANGED <<loop, mission>>

Init ==
    /\ ButtonInit
    /\ MissionInit
    /\ driver = "select"
    /\ switch = 0
    /\ seen = FALSE
    /\ frame = <<>>
    /\ sentence = <<>>
    /\ ticks = {}

Ports == \/ \E f \in Frames : OfferFrame(f)
         \/ \E p \in Sentences : OfferSentence(p)

Clocks == (\E t \in Tickers : TickerFires(t)) \/ InputExpires \/ HoldExpires

Driver == TakeFrame \/ TakeSentence \/ TakeEvent \/ TakeTick \/ TakeHeartbeat

Watcher == PassLevel \/ WatchHold

Next == Ports \/ Clocks \/ Driver \/ Watcher

Spec == Init /\ [][Next]_vars

(* Go's select picks at random among the ready cases, so a case that is    *)
(* ready again and again is taken: strong fairness.  That of the cases for *)
(* frames, ticks and levels is all the properties need: they hold even if  *)
(* the sentences, the events and the expiries are put off for ever.  The   *)
(* tickers go on; the ports promise nothing.                               *)
Fairness ==
    /\ SF_vars(TakeFrame) /\ SF_vars(PassLevel)
    /\ \A t \in Tickers : WF_vars(TickerFires(t)) /\ SF_vars(TakeFrom(t))

FairSpec == Spec /\ Fairness

-----------------------------------------------------------------------------
(* Properties.                                                             *)

TypeOK ==
    /\ ButtonType
    /\ MissionType
    /\ driver \in {"select", "level"}
    /\ switch \in -1 .. 2
    /\ seen \in BOOLEAN
    /\ frame \in {<<>>} \cup { <<f>> : f \in Frames }
    /\ sentence \in {<<>>} \cup { <<p>> : p \in Sentences }
    /\ ticks \subseteq Tickers

(* The driver stands sending a level while the watcher stands sending an   *)
(* event: neither will ever receive.                                       *)
Halted == driver = "level" /\ sends # <<>>

(* "The rover side halts after ~30s" (NOTES:7) is listed as a bug: the     *)
(* driver should always be able to go on.                                  *)
NeverHalts == ~Halted

(* Once halted nothing but the ports and the clocks move, and no demand is *)
(* sent any more.                                                          *)
HaltIsFinal == [][Halted => Halted' /\ UNCHANGED mission]_vars

(* When the watcher has delivered what it had to, the recorder is where    *)
(* the switch is: running at 2, not running at 1.                          *)
RecorderFollowsSwitch ==
    sends = <<>> => /\ at = 2 => state = "Run"
                    /\ at = 1 => state = "Record"

(* No event comes too late: when the driver is about to take a press or a  *)
(* hold, the last Input frame had the switch where the event says, or the  *)
(* frames have stopped for a second.  So a hold clears the mission only    *)
(* with the switch at 0, and a press at 2 starts it only with it at 2,     *)
(* however long the watcher stood in its send.                             *)
EventsCurrent ==
    driver = "select" /\ sends # <<>> =>
        LET newest == sends[Len(sends)] IN switch \in {newest.position, -1}

(* While a mission runs its points stay as they are and it goes through    *)
(* them in order, once: the index moves forward by one or ends the         *)
(* mission, and an ended mission stays ended until a new start.            *)
MissionInOrder ==
    [][state = "Run" /\ state' = "Run" =>
          /\ points' = points
          /\ waypoint' \in {waypoint, -1} \/ (waypoint >= 0 /\ waypoint' = waypoint + 1)]_vars

(* When the operator pauses or clears the mission the demands stop: the    *)
(* last one sent goes back to missing, unless a new mission starts or the  *)
(* driver has halted.                                                      *)
PauseStops == state = "Record" ~> (demand = NoTarget \/ state = "Run" \/ Halted)

(* No ticker starves while the driver runs: every tick is taken, and the   *)
(* one of 50 ms sends a demand, whatever the ports deliver.                *)
TicksServed == \A t \in Tickers : t \in ticks ~> (t \notin ticks \/ Halted)

(* Nor does the I/O board: a frame it sent is taken, so link.Watch comes   *)
(* back to its port, unless the driver halts.                              *)
FramesServed == frame # <<>> ~> (frame = <<>> \/ Halted)
=============================================================================
