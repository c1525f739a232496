------------------------------- MODULE PwmIn -------------------------------
(***************************************************************************)
(* The receiver of the remote's pulses (roverif/pwmin.cc).  Every edge of  *)
(* an input pin interrupts; the interrupt takes the time from a timer of   *)
(* eight bits, which wraps within a pulse, and measures each pulse as the  *)
(* signed byte by which it differs from the centre.                        *)
(*                                                                         *)
(* The remote raises the channels of a frame together and drops each when  *)
(* its pulse is over.  A channel may be missing from any frame, and the    *)
(* board may be switched on in the middle of one.  Nothing ever calls      *)
(* PWMIn::expire(), so no count of good pulses goes down.  An edge is      *)
(* timed when it happens; the counts it waits for its interrupt would be   *)
(* added to the width or taken from it.                                    *)
(***************************************************************************)
EXTENDS Integers

CONSTANTS
    Channels,       \* the channels of the receiver that are connected
    Durations,      \* the lengths of the remote's pulses, in counts
    Saturate,       \* where the count of good pulses ends
    FrameStart      \* the timer as the pulses of a frame rise

(* A pulse of 0.82 to 2.17 ms is measured by a signed byte that is not     *)
(* Missing.                                                                *)
ASSUME ReceiverAssumption ==
    /\ Channels \subseteq 0 .. 5
    /\ Durations \subseteq 153 .. 407
    /\ Saturate \in Nat /\ Saturate >= 4
    /\ FrameStart \in 0 .. 255

Missing == -128
CenterCounts == (187 * 150) \div 100    \* Timer0PerMillisecond*Center/100

SignedByte(n) == ((n + 128) % 256) - 128

VARIABLES
    stick,      \* the lengths of the pulses that are high
    level,      \* PWMIn::level_
    input,      \* PWMIn::inputs_
    cycle,      \* cycles has moved on since the main loop read it
    sent        \* history: the lengths of the pulses that ended, by channel

receiver == <<stick, level, input, cycle, sent>>

Timer0(elapsed) == (FrameStart + elapsed) % 256

Measured(now, rose) == SignedByte(now - rose - CenterCounts)

Risen(i, now) == [i EXCEPT !.rose_at = now]
Fallen(i, now) == [i EXCEPT !.width = Measured(now, i.rose_at),
                            !.good = IF @ < Saturate THEN @ + 1 ELSE @]

(* The interrupt: `pins` are high, and TCNT0 reads `now`.                  *)
Pcint(pins, now) ==
    LET changed == (level \cup pins) \ (level \cap pins)
    IN  /\ level' = pins
        /\ input' = [c \in Channels |->
                        CASE c \in changed \cap pins -> Risen(input[c], now)
                          [] c \in changed \ pins   -> Fallen(input[c], now)
                          [] OTHER                  -> input[c]]
        /\ cycle' = (cycle \/ 0 \in changed \ pins)

FrameRises(pulses) ==
    /\ DOMAIN stick = {}
    /\ stick' = pulses
    /\ Pcint(DOMAIN pulses, Timer0(0))
    /\ UNCHANGED sent

(* The shortest pulses that are still high end.                            *)
PulsesFall ==
    \E shortest \in {stick[c] : c \in DOMAIN stick} :
        LET rest == {c \in DOMAIN stick : stick[c] # shortest}
        IN  /\ \A c \in rest : stick[c] > shortest
            /\ stick' = [c \in rest |-> stick[c]]
            /\ Pcint(rest, Timer0(shortest))
            /\ sent' = [c \in Channels |->
                           IF c \in DOMAIN stick \ rest
                           THEN sent[c] \cup {shortest} ELSE sent[c]]

Frames == UNION {[some -> Durations] : some \in SUBSET Channels}

ReceiverInit ==
    /\ stick \in Frames
    /\ level = {}
    /\ input = [c \in Channels |-> [width |-> 0, rose_at |-> 0, good |-> 0]]
    /\ cycle = FALSE
    /\ sent = [c \in Channels |-> {}]

ReceiverNext ==
    \/ \E pulses \in Frames : DOMAIN pulses # {} /\ FrameRises(pulses)
    \/ PulsesFall

-----------------------------------------------------------------------------
(* get(), in the two reads it makes while the interrupt may come between.  *)

(* Mutant of Trusted: one pulse is enough.                                 *)
Trusted_AtOnce(c) == input[c].good >= 1

Trusted(c) == input[c].good >= Saturate \div 2
=============================================================================
