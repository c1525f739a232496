------------------------------- MODULE Button -------------------------------
(***************************************************************************)
(* The goroutine that turns the level of the mode switch into events:      *)
(* Button.Watch of button/button.go.  Both of its channels are unbuffered, *)
(* so between two selects it may stand in a send: `sends` is what it still *)
(* has to deliver before it selects again, first event first.              *)
(***************************************************************************)
EXTENDS Integers, Sequences

VARIABLES
    at,         \* the level Watch believes in, -1 before the first
    sends,      \* the events it stands blocked on, <<>> in its select
    armed,      \* the hold timer runs
    token       \* the timer's channel holds an expiry

button == <<at, sends, armed, token>>

Event(code, level) == [code |-> code, position |-> level]

Events == [code : {"Down", "Short", "Long", "Hold"}, position : 0 .. 2]

ButtonType ==
    /\ at \in -1 .. 2
    /\ sends \in Seq(Events) /\ Len(sends) <= 2
    /\ armed \in BOOLEAN
    /\ token \in BOOLEAN

ButtonInit ==
    /\ at = -1
    /\ sends = <<>>
    /\ armed = FALSE
    /\ token = FALSE

Selecting == sends = <<>>

(* Whether the old level was held for two seconds is read off a clock of   *)
(* its own (time.Since(down)), set after the timer was started: a Short    *)
(* may follow the expiry of the timer, and a Long come before it.          *)
Releases == {Event("Short", at), Event("Long", at)}

(* What one new level has to deliver: the release of the old, the press of *)
(* the new.                                                                *)
Edges(level) ==
    IF at < 0 THEN {<<Event("Down", level)>>}
    ELSE {<<release, Event("Down", level)>> : release \in Releases}

(* Mutant of ReceiveLevel: the receive waits for a new level.              *)
ReceiveLevel_New(level) ==
    /\ Selecting
    /\ level # at
    /\ sends' \in Edges(level)
    /\ UNCHANGED <<at, armed, token>>

(* case level := <-s.Level                                                 *)
ReceiveLevel(level) ==
    /\ Selecting
    /\ sends' \in IF level < 0 \/ level = at THEN {<<>>} ELSE Edges(level)
    /\ at' = IF level < 0 THEN level ELSE at
    /\ armed' = (armed /\ level >= 0)
    /\ UNCHANGED token

(* A send completes.  After Down the timer restarts, but an expiry that is *)
(* already in the timer's channel stays there.                             *)
EventTaken ==
    /\ ~Selecting
    /\ sends' = Tail(sends)
    /\ IF Head(sends).code = "Down"
       THEN at' = Head(sends).position /\ armed' = TRUE
       ELSE UNCHANGED <<at, armed>>
    /\ UNCHANGED token

(* case <-timer.C                                                          *)
TakeExpiry ==
    /\ Selecting
    /\ token /\ token' = FALSE
    /\ sends' = <<Event("Hold", at)>>
    /\ UNCHANGED <<at, armed>>

(* Two seconds have passed since the timer was started.                    *)
TimerExpires ==
    /\ armed /\ armed' = FALSE
    /\ token' = TRUE
    /\ UNCHANGED <<at, sends>>
=============================================================================
