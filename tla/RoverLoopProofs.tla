-------------------------- MODULE RoverLoopProofs --------------------------
(***************************************************************************)
(* What RoverLoop.tla guarantees for every set of positions, levels,       *)
(* frames and sentences: the recorder follows the switch, a mission keeps  *)
(* its points and its order, and a halt is final.                          *)
(***************************************************************************)
EXTENDS RoverLoop, TLAPS

(* What the watcher may stand sending: a press, perhaps with the release   *)
(* of the level it leaves before it, or the expiry of the hold timer.  All *)
(* but the press speak of the level the watcher is still at.               *)
Presses == {Event("Down", level) : level \in 0 .. 2}

Deliverable ==
    \/ sends = <<>>
    \/ \E press \in Presses : sends = <<press>>
    \/ at >= 0 /\ \E release \in Releases, press \in Presses : sends = <<release, press>>
    \/ at >= 0 /\ sends = <<Event("Hold", at)>>

(* Before the first level the hold timer has not been started, and the     *)
(* driver never sends a level it does not have: it goes from input() to    *)
(* the send without a tick between.                                        *)
WatcherOK ==
    /\ Deliverable
    /\ at < 0 => ~armed /\ ~token
    /\ driver = "level" => switch >= 0

(* The state goes with the level the watcher believes in also while events *)
(* are on their way.                                                       *)
RecorderAgrees ==
    /\ at = 2 => state = "Run"
    /\ at = 1 => state = "Record"

IInv == TypeOK /\ WatcherOK /\ RecorderAgrees

LEMMA InitIInv == Init => IInv
<1> SUFFICES ASSUME Init PROVE IInv  OBVIOUS
<1> USE DEF Init, ButtonInit, MissionInit
<1>1. ButtonType
  <2>1. sends \in Seq(Events) /\ Len(sends) <= 2  OBVIOUS
  <2>2. at \in -1 .. 2  OBVIOUS
  <2>3. armed \in BOOLEAN /\ token \in BOOLEAN  OBVIOUS
  <2> QED  BY <2>1, <2>2, <2>3 DEF ButtonType
<1>2. MissionType  BY DEF MissionType, Places
<1>3. TypeOK
  <2>1. frame \in {<<>>} \cup { <<f>> : f \in Frames }  OBVIOUS
  <2>2. sentence \in {<<>>} \cup { <<p>> : p \in Sentences }  OBVIOUS
  <2>3. driver \in {"select", "level"} /\ seen \in BOOLEAN /\ ticks \subseteq Tickers OBVIOUS
  <2>4. switch \in -1 .. 2 OBVIOUS
  <2> QED  BY <1>1, <1>2, <2>1, <2>2, <2>3, <2>4 DEF TypeOK
<1>4. WatcherOK  BY DEF WatcherOK, Deliverable
<1>5. RecorderAgrees  BY DEF RecorderAgrees
<1> QED  BY <1>3, <1>4, <1>5 DEF IInv

(* The ports and the tickers leave the driver, the watcher and the mission *)
(* alone.                                                                  *)
LEMMA PortsKeep ==
    ASSUME IInv, UNCHANGED <<driver, switch>>, UNCHANGED <<button, mission>>,
           seen' \in BOOLEAN, ticks' \subseteq Tickers,
           frame' \in {<<>>} \cup {<<f>> : f \in Frames},
           sentence' \in {<<>>} \cup {<<p>> : p \in Sentences}
    PROVE  IInv'
<1>1. TypeOK'
  <2>1. ButtonType' /\ MissionType'
    BY DEF IInv, TypeOK, ButtonType, MissionType, button, mission
  <2>2. driver' \in {"select", "level"} /\ switch' \in -1 .. 2  BY DEF IInv, TypeOK
  <2> QED  BY <2>1, <2>2 DEF TypeOK
<1>2. WatcherOK'
  BY DEF IInv, WatcherOK, Deliverable, Releases, button
<1>3. RecorderAgrees'  BY DEF IInv, RecorderAgrees, button, mission
<1> QED  BY <1>1, <1>2, <1>3 DEF IInv

LEMMA OfferFrameStep ==
    ASSUME IInv, NEW f \in Frames, OfferFrame(f)
    PROVE  IInv'
BY PortsKeep DEF OfferFrame, IInv, TypeOK

LEMMA OfferSentenceStep ==
    ASSUME IInv, NEW p \in Sentences, OfferSentence(p)
    PROVE  IInv'
BY PortsKeep DEF OfferSentence, IInv, TypeOK

LEMMA ClockStep ==
    ASSUME IInv, Clocks
    PROVE  IInv'
<1>1. ASSUME NEW t \in Tickers, TickerFires(t) PROVE IInv'
  BY <1>1, PortsKeep DEF TickerFires, IInv, TypeOK
<1>2. CASE InputExpires  BY <1>2, PortsKeep DEF InputExpires, IInv, TypeOK
<1>3. CASE HoldExpires
  <2>1. TypeOK'
    BY <1>3 DEF HoldExpires, TimerExpires, loop, IInv, TypeOK, ButtonType, MissionType,
                mission
  <2>2. WatcherOK' /\ RecorderAgrees'
    BY <1>3 DEF HoldExpires, TimerExpires, loop, IInv, WatcherOK, Deliverable, Releases,
                RecorderAgrees, mission
  <2> QED  BY <2>1, <2>2 DEF IInv
<1> QED  BY <1>1, <1>2, <1>3 DEF Clocks

(* The driver's own cases.                                                 *)
LEMMA TakeFrameStep ==
    ASSUME IInv, TakeFrame
    PROVE  IInv'
<1>1. PICK f \in Frames : frame = <<f>>
  BY DEF IInv, TypeOK, TakeFrame
<1>2. f.level \in 0 .. 2
  BY <1>1, LevelAssumption DEF Frames, Frame
<1>3. Head(frame) = f  BY <1>1
<1>4. /\ driver' \in {"select", "level"}
      /\ switch' \in -1 .. 2
      /\ seen' \in BOOLEAN
      /\ driver' = "level" => switch' >= 0
  <2>1. AfterFrame(f) /\ driver = "select"  BY <1>3 DEF TakeFrame
  <2>2. CASE f.kind = "Input"  BY <1>2, <2>1, <2>2 DEF AfterFrame
  <2>3. CASE f.kind # "Input"  BY <2>1, <2>3 DEF AfterFrame, IInv, TypeOK
  <2> QED  BY <2>2, <2>3
<1>5. UNCHANGED <<at, sends, armed, token, mission, sentence, ticks>> /\ frame' = <<>>
  BY DEF TakeFrame, button
<1> QED
  BY <1>4, <1>5
  DEF IInv, TypeOK, ButtonType, MissionType, WatcherOK, Deliverable, Releases,
      RecorderAgrees, mission

LEMMA TakeSentenceStep ==
    ASSUME IInv, TakeSentence
    PROVE  IInv'
<1>1. PICK p \in Sentences : sentence = <<p>>
  BY DEF IInv, TypeOK, TakeSentence
<1>2. fix' \in Places /\ UNCHANGED <<state, points, here, waypoint, demand>>
  BY <1>1, SentenceAssumption
  DEF IInv, TypeOK, MissionType, TakeSentence, Locate, mission, Places
<1> QED
  BY <1>2
  DEF IInv, TypeOK, ButtonType, MissionType, WatcherOK, Deliverable, Releases,
      RecorderAgrees, TakeSentence, button

(* The recorder on an event of the watcher: only presses of the levels 1   *)
(* and 2 and a hold at 0 change its state.                                 *)
LEMMA NextStateResult ==
    ASSUME state \in {"Record", "Run"}, NEW level \in 0 .. 2
    PROVE  /\ NextState(Event("Down", level)) =
                 (IF level = 2 THEN "Run" ELSE IF level = 1 THEN "Record" ELSE state)
           /\ NextState(Event("Short", level)) = state
           /\ NextState(Event("Long", level)) = state
           /\ NextState(Event("Hold", level)) = IF level = 0 THEN "Record" ELSE state
BY DEF NextState, Event, Clears, Starts, Pauses

(* What an event leaves of the mission's types.                            *)
LEMMA SwitchEventType ==
    ASSUME MissionType, NEW e, SwitchEvent(e)
    PROVE  MissionType'
<1>1. state' \in {"Record", "Run"}  BY DEF MissionType, SwitchEvent, NextState
<1>2. points' \in Seq(Places)  BY DEF MissionType, SwitchEvent, NextPoints
<1>3. waypoint' \in Nat \cup {-1}  BY DEF MissionType, SwitchEvent, Restarted
<1> QED  BY <1>1, <1>2, <1>3 DEF MissionType, SwitchEvent

LEMMA TakeEventStep ==
    ASSUME IInv, TakeEvent
    PROVE  IInv'
<1> USE DEF IInv
<1>1. at \in -1 .. 2 /\ state \in {"Record", "Run"} /\ sends # <<>>
  BY DEF TypeOK, ButtonType, MissionType, TakeEvent
<1>2. MissionType'  BY SwitchEventType DEF TypeOK, TakeEvent
<1>3. state' = NextState(Head(sends))  BY DEF TakeEvent, SwitchEvent
<1>4. armed' \in BOOLEAN /\ UNCHANGED <<token, loop>>
  BY DEF TakeEvent, EventTaken, TypeOK, ButtonType
<1>5. ButtonType' /\ Deliverable' /\ RecorderAgrees' /\ (at' < 0 => ~armed' /\ ~token')
  <2>1. CASE \E level \in 0 .. 2 : sends = <<Event("Down", level)>>
    <3>1. PICK level \in 0 .. 2 : sends = <<Event("Down", level)>>  BY <2>1
    <3>2. /\ Head(sends) = Event("Down", level)
          /\ Head(sends).code = "Down" /\ Head(sends).position = level
          /\ Tail(sends) = <<>>
      BY <3>1 DEF Event
    <3>3. sends' = <<>> /\ at' = level  BY <3>2 DEF TakeEvent, EventTaken
    <3>4. state' = IF level = 2 THEN "Run" ELSE IF level = 1 THEN "Record" ELSE state
      BY <1>1, <1>3, <3>2, NextStateResult
    <3>5. ButtonType'
      <4>1. sends' \in Seq(Events) /\ Len(sends') <= 2  BY <3>3
      <4>2. at' \in -1 .. 2  BY <3>3
      <4>3. token' \in BOOLEAN  BY <1>4 DEF TypeOK, ButtonType
      <4> QED  BY <1>4, <4>1, <4>2, <4>3 DEF ButtonType
    <3>6. RecorderAgrees'  BY <3>3, <3>4 DEF RecorderAgrees
    <3> QED  BY <3>3, <3>5, <3>6 DEF Deliverable
  <2>2. CASE at >= 0 /\ \E release \in Releases, press \in Presses : sends = <<release, press>>
    <3>1. PICK code \in {"Short", "Long"}, level \in 0 .. 2 :
              sends = <<Event(code, at), Event("Down", level)>>
      BY <2>2 DEF Releases, Presses
    <3>2. /\ Head(sends) = Event(code, at)
          /\ Head(sends).code # "Down"
          /\ Tail(sends) = <<Event("Down", level)>>
      BY <3>1 DEF Event
    <3>3. sends' = <<Event("Down", level)>> /\ UNCHANGED <<at, armed>>
      BY <3>2 DEF TakeEvent, EventTaken
    <3>4. at \in 0 .. 2  BY <1>1, <2>2
    <3>5. state' = state
      BY <1>1, <1>3, <3>2, <3>4, NextStateResult
    <3>6. ButtonType'
      <4>1. Event("Down", level) \in Events  BY DEF Event, Events
      <4>2. sends' \in Seq(Events) /\ Len(sends') <= 2  BY <3>3, <4>1
      <4> QED  BY <1>1, <1>4, <3>3, <4>2 DEF ButtonType, TypeOK
    <3>7. Deliverable'  BY <3>3 DEF Deliverable, Presses
    <3> QED  BY <1>4, <3>3, <3>4, <3>5, <3>6, <3>7 DEF RecorderAgrees
  <2>3. CASE at >= 0 /\ sends = <<Event("Hold", at)>>
    <3>1. /\ Head(sends) = Event("Hold", at)
          /\ Head(sends).code # "Down"
          /\ Tail(sends) = <<>>
      BY <2>3 DEF Event
    <3>2. sends' = <<>> /\ UNCHANGED <<at, armed>>
      BY <3>1 DEF TakeEvent, EventTaken
    <3>3. at \in 0 .. 2  BY <1>1, <2>3
    <3>4. state' = IF at = 0 THEN "Record" ELSE state
      BY <1>1, <1>3, <3>1, <3>3, NextStateResult
    <3>5. ButtonType'
      <4>1. sends' \in Seq(Events) /\ Len(sends') <= 2  BY <3>2
      <4> QED  BY <1>1, <1>4, <3>2, <4>1 DEF ButtonType, TypeOK
    <3> QED  BY <1>4, <3>2, <3>3, <3>4, <3>5 DEF RecorderAgrees, Deliverable
  <2> QED  BY <1>1, <2>1, <2>2, <2>3 DEF WatcherOK, Deliverable, Presses
<1> QED
  BY <1>2, <1>4, <1>5 DEF TypeOK, WatcherOK, TakeEvent, loop

LEMMA TickStep ==
    ASSUME IInv, TakeTick \/ TakeHeartbeat
    PROVE  IInv'
<1>1. CASE TakeTick
  <2>1. UNCHANGED <<at, sends, armed, token, state, points, fix, driver, seen, frame, sentence>>
    BY <1>1 DEF TakeTick, Step, button
  <2>2. driver = "select" /\ ticks' \subseteq Tickers /\ switch' \in -1 .. 2
    BY <1>1 DEF TakeTick, IInv, TypeOK
  <2>3. here' \in Places  BY <1>1 DEF TakeTick, Step, IInv, TypeOK, MissionType
  <2>4. waypoint' \in Nat \cup {-1}
    BY <1>1 DEF TakeTick, Step, NextWaypoint, Ahead, Arrived, IInv, TypeOK, MissionType
  <2>5. demand' \in Places \cup {NoTarget}
    <3>1. CASE state = "Run" /\ Ahead
      <4>1. waypoint + 1 \in 1 .. Len(points) /\ points \in Seq(Places)
        BY <3>1 DEF Ahead, IInv, TypeOK, MissionType
      <4>2. Target \in Places  BY <4>1 DEF Target
      <4> QED  BY <1>1, <3>1, <4>2 DEF TakeTick, Step
    <3>2. CASE ~(state = "Run" /\ Ahead)  BY <1>1, <3>2 DEF TakeTick, Step
    <3> QED  BY <3>1, <3>2
  <2> QED
    BY <2>1, <2>2, <2>3, <2>4, <2>5
    DEF IInv, TypeOK, ButtonType, MissionType, WatcherOK, Deliverable, Releases, RecorderAgrees
<1>2. CASE TakeHeartbeat
  BY <1>2
  DEF IInv, TypeOK, ButtonType, MissionType, WatcherOK, Deliverable, Releases,
      RecorderAgrees, TakeHeartbeat, button, mission
<1> QED  BY <1>1, <1>2

(* The level that is passed on is one of the operator's, so the watcher    *)
(* never goes back to where it began.                                      *)
LEMMA PassLevelStep ==
    ASSUME IInv, PassLevel
    PROVE  IInv'
<1>1. switch \in 0 .. 2 /\ at \in -1 .. 2
  BY DEF PassLevel, IInv, WatcherOK, TypeOK, ButtonType
<1>2. /\ sends' \in IF switch = at THEN {<<>>} ELSE Edges(switch)
      /\ UNCHANGED <<at, armed, token>>
  BY <1>1 DEF PassLevel, ReceiveLevel, IInv, TypeOK, ButtonType
<1>3. /\ Event("Down", switch) \in Presses \cap Events
      /\ at >= 0 => Releases \subseteq Events
  BY <1>1 DEF Presses, Releases, Event, Events
<1>4. \/ sends' = <<>>
      \/ sends' = <<Event("Down", switch)>>
      \/ at >= 0 /\ \E release \in Releases : sends' = <<release, Event("Down", switch)>>
  <2>1. CASE at < 0 \/ switch = at  BY <1>1, <1>2, <2>1 DEF Edges
  <2>2. CASE at >= 0 /\ switch # at
    <3>1. sends' \in {<<release, Event("Down", switch)>> : release \in Releases}
      BY <1>1, <1>2, <2>2 DEF Edges
    <3> QED  BY <2>2, <3>1
  <2> QED  BY <1>1, <2>1, <2>2
<1>5. Deliverable' /\ sends' \in Seq(Events) /\ Len(sends') <= 2
  <2>1. CASE sends' = <<>> \/ sends' = <<Event("Down", switch)>>
    <3>1. PICK press \in Presses \cap Events : press = Event("Down", switch)  BY <1>3
    <3>2. sends' = <<>> \/ sends' = <<press>>  BY <2>1, <3>1
    <3>3. Deliverable'  BY <3>1, <3>2 DEF Deliverable, Presses
    <3>4. sends' \in Seq(Events) /\ Len(sends') <= 2
      <4>1. CASE sends' = <<>>  BY <4>1
      <4>2. CASE sends' = <<press>>
        <5>1. press \in Events  BY <3>1
        <5> QED  BY <4>2, <5>1
      <4> QED  BY <3>2, <4>1, <4>2
    <3> QED  BY <3>3, <3>4
  <2>2. ASSUME at >= 0, NEW release \in Releases, sends' = <<release, Event("Down", switch)>>
        PROVE  Deliverable' /\ sends' \in Seq(Events) /\ Len(sends') <= 2
    <3>1. release \in Events /\ release \in Releases'  BY <1>2, <1>3, <2>2 DEF Releases
    <3>2. at' >= 0  BY <1>2, <2>2
    <3> QED  BY <1>3, <2>2, <3>1, <3>2 DEF Deliverable
  <2> QED  BY <1>4, <2>1, <2>2
<1>6. UNCHANGED <<switch, seen, frame, sentence, ticks, mission>> /\ driver' = "select"
  BY DEF PassLevel
<1> QED
  BY <1>2, <1>5, <1>6
  DEF IInv, TypeOK, ButtonType, MissionType, WatcherOK, RecorderAgrees, mission

LEMMA WatchHoldStep ==
    ASSUME IInv, WatchHold
    PROVE  IInv'
<1>1. at \in 0 .. 2
  BY DEF WatchHold, TakeExpiry, IInv, WatcherOK, TypeOK, ButtonType
<1>2. sends' = <<Event("Hold", at)>> /\ token' = FALSE /\ UNCHANGED <<at, armed>>
  BY DEF WatchHold, TakeExpiry
<1>3. Event("Hold", at) \in Events  BY <1>1 DEF Event, Events
<1>4. sends' \in Seq(Events) /\ Len(sends') <= 2  BY <1>2, <1>3
<1>5. Deliverable'  BY <1>1, <1>2 DEF Deliverable
<1>6. UNCHANGED <<loop, mission>>  BY DEF WatchHold
<1> QED
  BY <1>1, <1>2, <1>4, <1>5, <1>6
  DEF IInv, TypeOK, ButtonType, MissionType, WatcherOK, RecorderAgrees, loop, mission

LEMMA NextIInv == IInv /\ [Next]_vars => IInv'
<1> SUFFICES ASSUME IInv, [Next]_vars PROVE IInv'  OBVIOUS
<1>1. CASE Ports  BY <1>1, OfferFrameStep, OfferSentenceStep DEF Ports
<1>2. CASE Clocks  BY <1>2, ClockStep
<1>3. CASE Driver
  BY <1>3, TakeFrameStep, TakeSentenceStep, TakeEventStep, TickStep DEF Driver
<1>4. CASE Watcher  BY <1>4, PassLevelStep, WatchHoldStep DEF Watcher
<1>5. CASE UNCHANGED vars
  BY <1>5
  DEF IInv, TypeOK, ButtonType, MissionType, WatcherOK, Deliverable, Releases,
      RecorderAgrees, vars
<1> QED  BY <1>1, <1>2, <1>3, <1>4, <1>5 DEF Next

THEOREM Invariance == Spec => []IInv
BY InitIInv, NextIInv, PTL DEF Spec

(* Every variable of the goroutines keeps its type; no event ever speaks   *)
(* of a position the switch does not have, although the watcher starts at  *)
(* none (button.go, at = -1).                                              *)
THEOREM TypeCorrect == Spec => []TypeOK
<1>1. IInv => TypeOK  BY DEF IInv
<1> QED  BY <1>1, Invariance, PTL

(* RecorderFollowsSwitch: when the watcher has delivered what it had to,   *)
(* the mission runs at 2 and does not run at 1, whatever events and levels *)
(* crossed on the way (Button.Watch, Recorder.Switch).                     *)
THEOREM RecorderAgreesWithSwitch == Spec => []RecorderFollowsSwitch
<1>1. IInv => RecorderFollowsSwitch  BY DEF IInv, RecorderAgrees, RecorderFollowsSwitch
<1> QED  BY <1>1, Invariance, PTL

(* The position the watcher will be at once it has delivered what it has   *)
(* to.  In its select the driver has read no newer one: a level is sent    *)
(* before the next frame is taken, and received only when the events of    *)
(* the one before have been.                                               *)
Expected == IF sends = <<>> THEN at ELSE sends[Len(sends)].position

SwitchAgrees ==
    driver = "select" /\ (sends # <<>> \/ at >= 0) => switch \in {Expected, -1}

LEMMA SwitchAgreesStep ==
    ASSUME IInv, IInv', SwitchAgrees, [Next]_vars
    PROVE  SwitchAgrees'
<1>1. CASE UNCHANGED <<at, sends, driver>> /\ switch' \in {switch, -1}
  BY <1>1 DEF SwitchAgrees, Expected
<1>2. CASE TakeFrame
  <2>1. UNCHANGED <<at, sends>>  BY <1>2 DEF TakeFrame, button
  <2>2. driver' = "level" \/ UNCHANGED <<driver, switch>>
    BY <1>2 DEF TakeFrame, AfterFrame
  <2> QED  BY <2>1, <2>2 DEF SwitchAgrees, Expected
<1>3. CASE TakeEvent
  <2>1. /\ sends # <<>> /\ sends' = Tail(sends) /\ UNCHANGED <<driver, switch>>
        /\ at' = IF Head(sends).code = "Down" THEN Head(sends).position ELSE at
    BY <1>3 DEF TakeEvent, EventTaken, loop
  <2>2. CASE \E press \in Presses : sends = <<press>>
    <3>1. PICK press \in Presses : sends = <<press>>  BY <2>2
    <3>2. press.code = "Down"  BY DEF Presses, Event
    <3>3. sends' = <<>> /\ at' = press.position /\ Expected = press.position
      BY <2>1, <3>1, <3>2 DEF Expected
    <3> QED  BY <2>1, <3>3 DEF SwitchAgrees, Expected
  <2>3. CASE \E release \in Releases, press \in Presses : sends = <<release, press>>
    <3>1. PICK release \in Releases, press \in Presses : sends = <<release, press>>
      BY <2>3
    <3>2. sends' = <<press>> /\ Expected = press.position /\ Expected' = press.position
      BY <2>1, <3>1 DEF Expected
    <3> QED  BY <2>1, <3>2 DEF SwitchAgrees
  <2>4. CASE sends = <<Event("Hold", at)>>
    <3>1. sends' = <<>> /\ at' = at /\ Expected = at  BY <2>1, <2>4 DEF Expected, Event
    <3> QED  BY <2>1, <3>1 DEF SwitchAgrees, Expected
  <2> QED  BY <2>1, <2>2, <2>3, <2>4 DEF IInv, WatcherOK, Deliverable
<1>4. CASE PassLevel
  <2>1. /\ switch \in 0 .. 2 /\ UNCHANGED <<at, switch>>
        /\ sends' \in IF switch = at THEN {<<>>} ELSE Edges(switch)
    BY <1>4 DEF PassLevel, ReceiveLevel, IInv, WatcherOK, TypeOK, ButtonType
  <2>2. CASE switch = at  BY <2>1, <2>2 DEF SwitchAgrees, Expected
  <2>3. CASE switch # at
    <3>1. \/ sends' = <<Event("Down", switch)>>
          \/ \E release \in Releases : sends' = <<release, Event("Down", switch)>>
      <4>1. CASE at < 0  BY <2>1, <2>3, <4>1 DEF Edges
      <4>2. CASE ~(at < 0)
        <5>1. sends' \in {<<release, Event("Down", switch)>> : release \in Releases}
          BY <2>1, <2>3, <4>2 DEF Edges
        <5> QED  BY <5>1
      <4> QED  BY <4>1, <4>2
    <3>2. ASSUME NEW release, NEW press, press = Event("Down", switch),
                 sends' \in {<<press>>, <<release, press>>}
          PROVE  Expected' = press.position
      BY <3>2 DEF Expected
    <3>3. Expected' = switch  BY <3>1, <3>2 DEF Event
    <3> QED  BY <2>1, <3>3 DEF SwitchAgrees
  <2> QED  BY <2>2, <2>3
<1>5. CASE WatchHold
  <2>1. /\ sends = <<>> /\ sends' = <<Event("Hold", at)>> /\ token
        /\ UNCHANGED <<at, driver, switch>>
    BY <1>5 DEF WatchHold, TakeExpiry, Selecting, loop
  <2>2. at >= 0  BY <2>1 DEF IInv, WatcherOK, TypeOK, ButtonType
  <2>3. Expected = at /\ Expected' = at  BY <2>1 DEF Expected, Event
  <2> QED  BY <2>1, <2>2, <2>3 DEF SwitchAgrees
<1> QED
  BY <1>1, <1>2, <1>3, <1>4, <1>5
  DEF Next, Ports, OfferFrame, OfferSentence, Clocks, TickerFires, InputExpires,
      HoldExpires, TimerExpires, Driver, TakeSentence, TakeTick, TakeHeartbeat, Watcher,
      button, loop, vars

(* EventsCurrent: a press or a hold that the driver takes speaks of the    *)
(* position its last Input frame had, or the frames have stopped           *)
(* (Driver.input and Driver.button against Button.Watch).                  *)
THEOREM EventsAreCurrent == Spec => []EventsCurrent
<1>1. Init => SwitchAgrees
  BY DEF Init, ButtonInit, SwitchAgrees, Expected
<1>2. SwitchAgrees => EventsCurrent
  BY DEF SwitchAgrees, Expected, EventsCurrent
<1>3. IInv /\ IInv' /\ SwitchAgrees /\ [Next]_vars => SwitchAgrees'
  BY SwitchAgreesStep
<1> QED  BY <1>1, <1>2, <1>3, Invariance, PTL DEF Spec

(* HaltIsFinal: when the driver sends a level while the watcher sends an   *)
(* event, neither goes on, and the mission stays as it is: no demand is    *)
(* sent (Driver.input and Button.Watch).                                   *)
THEOREM HaltLasts == Spec => HaltIsFinal
<1>1. ASSUME IInv, [Next]_vars PROVE [Halted => Halted' /\ UNCHANGED mission]_vars
  <2> SUFFICES ASSUME Halted PROVE Halted' /\ UNCHANGED mission  OBVIOUS
  <2>1. CASE Ports
    BY <2>1 DEF Ports, OfferFrame, OfferSentence, Halted, button
  <2>2. CASE Clocks
    BY <2>2 DEF Clocks, TickerFires, InputExpires, HoldExpires, TimerExpires, Halted, button, loop
  <2>3. CASE Driver
    BY <2>3 DEF Driver, TakeFrame, TakeSentence, TakeEvent, TakeTick, TakeHeartbeat, Halted
  <2>4. CASE Watcher
    BY <2>4 DEF Watcher, PassLevel, WatchHold, ReceiveLevel, TakeExpiry, Selecting, Halted
  <2>5. CASE UNCHANGED vars  BY <2>5 DEF vars, mission, Halted
  <2> QED  BY <1>1, <2>1, <2>2, <2>3, <2>4, <2>5 DEF Next
<1> QED  BY <1>1, Invariance, PTL DEF Spec, HaltIsFinal

(* MissionInOrder: a running mission keeps its points and goes through     *)
(* them one by one, to its end (WaypointController.Step, Recorder.Switch). *)
THEOREM MissionKeepsOrder == Spec => MissionInOrder
<1> DEFINE InOrder ==
        state = "Run" /\ state' = "Run" =>
          /\ points' = points
          /\ waypoint' \in {waypoint, -1} \/ (waypoint >= 0 /\ waypoint' = waypoint + 1)
<1>1. ASSUME [Next]_vars PROVE [InOrder]_vars
  <2>1. CASE UNCHANGED mission  BY <2>1 DEF mission
  <2>2. CASE TakeSentence
    BY <2>2 DEF TakeSentence, Locate, mission
  <2>3. CASE TakeEvent
    BY <2>3 DEF TakeEvent, SwitchEvent, NextState, NextPoints, Marks
  <2>4. CASE TakeTick
    BY <2>4 DEF TakeTick, Step, NextWaypoint, Ahead
  <2>5. Next => \/ UNCHANGED mission \/ TakeSentence \/ TakeEvent \/ TakeTick
    BY DEF Next, Ports, OfferFrame, OfferSentence, Clocks, TickerFires, InputExpires,
           HoldExpires, Driver, TakeFrame, TakeHeartbeat, Watcher, PassLevel, WatchHold
  <2> QED  BY <1>1, <2>1, <2>2, <2>3, <2>4, <2>5
<1> QED  BY <1>1, PTL DEF Spec, MissionInOrder
=============================================================================
