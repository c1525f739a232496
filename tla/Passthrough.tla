---------------------------- MODULE Passthrough ----------------------------
(***************************************************************************)
(* From the remote's sticks to the servos: the receiver of PwmIn.tla, the  *)
(* generator of Servos.tla, and between them the main loop, which copies   *)
(* widths to positions while both are interrupting it (poll_pwmin() and    *)
(* update_servos() of roverif/main.cc with the remote in control;          *)
(* Supervisor.tla says when it is).  The three keep their own time: any    *)
(* number of edges and overflows may come between two reads of the loop.   *)
(***************************************************************************)
EXTENDS PwmIn, Servos

VARIABLES
    loop,       \* what the main loop does next
    todo,       \* the channels it has still to do that with
    channels    \* the local array of poll_pwmin()

vars == <<receiver, generator, position, loop, todo, channels>>

Copied == Channels \cap ServoChannels
ASSUME CopiedAssumption == Copied # {}

First == CHOOSE c \in todo : \A d \in todo : c <= d

Steps(from, to) ==
    /\ todo' = IF todo = {First} THEN Copied ELSE todo \ {First}
    /\ loop' = IF todo = {First} THEN to ELSE from

Poll ==
    /\ loop = "poll" /\ cycle
    /\ cycle' = FALSE
    /\ loop' = "good"
    /\ UNCHANGED <<stick, level, input, sent, generator, position, todo, channels>>

(* get() reads the count of good pulses, and then the width.               *)
ReadGood ==
    /\ loop = "good"
    /\ IF Trusted(First)
       THEN loop' = "width" /\ UNCHANGED <<todo, channels>>
       ELSE /\ channels' = [channels EXCEPT ![First] = Missing]
            /\ Steps("good", "set")
    /\ UNCHANGED <<receiver, generator, position>>

ReadWidth ==
    /\ loop = "width"
    /\ channels' = [channels EXCEPT ![First] = input[First].width]
    /\ Steps("good", "set")
    /\ UNCHANGED <<receiver, generator, position>>

(* update_servos() for one channel.                                        *)
SetServo ==
    /\ loop = "set"
    /\ position' = [position EXCEPT ![First] =
                       IF channels[First] > Missing THEN Mid + channels[First] ELSE @]
    /\ Steps("set", "poll")
    /\ channels' = [channels EXCEPT ![First] = Missing]
    /\ UNCHANGED <<receiver, generator>>

Init ==
    /\ ReceiverInit /\ GeneratorInit
    /\ loop = "poll" /\ todo = Copied
    /\ channels = [c \in Copied |-> Missing]

MainLoop == Poll \/ ReadGood \/ ReadWidth \/ SetServo

Next ==
    \/ ReceiverNext /\ UNCHANGED <<generator, position, loop, todo, channels>>
    \/ GeneratorNext /\ UNCHANGED <<receiver, loop, todo, channels>>
    \/ MainLoop

Spec == Init /\ [][Next]_vars

-----------------------------------------------------------------------------
(* The pulses a servo may be given: one count longer than a pulse of its   *)
(* channel (Bias and Center are rounded apart), or the middle it starts    *)
(* at.                                                                     *)
Sources(c) == {Bias - 1} \cup (IF c \in Channels THEN sent[c] ELSE {})

(* Once the port has been reset for the first time, a pulse that ends has  *)
(* a length between the shortest and the longest that the remote has sent  *)
(* on its channel.  The main loop and the interrupts share widths and      *)
(* positions without a lock (pwmin.cc:71, servos.cc:79); the first pulse   *)
(* after the start may be seen in part only; a toggle missed or doubled    *)
(* would turn the pin over for good.                                       *)
ServosFollowSticks ==
    [][\A s \in Sides :
          (settled /\ at + s \in pins \ pins') =>
              \E t \in due[s] \ due'[s], low, high \in Sources(at + s) :
                  low <= t - rose[s] - 1 /\ t - rose[s] - 1 <= high]_vars

(* After that every pin is low when the next two channels are begun, so    *)
(* the reset of the port never cuts a pulse short, however late within a   *)
(* full deflection the overflow is served (overflow() of servos.cc).       *)
ResetCutsNothing ==
    [][(settled /\ half = "Start" /\ half' = "Centre") => pins = {}]_vars
=============================================================================
