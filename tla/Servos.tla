------------------------------- MODULE Servos -------------------------------
(***************************************************************************)
(* The generator of the servo pulses (roverif/servos.cc).  A pulse spans   *)
(* two periods of an eight-bit timer: the overflow that begins the first   *)
(* sets the compare register for the rising edge, the overflow that begins *)
(* the second sets it for the falling edge, and the compare interrupts     *)
(* toggle the pins.  Two channels are served at a time, one by compare_a() *)
(* and one by compare_b(), which are the two sides.                        *)
(***************************************************************************)
EXTENDS Integers

CONSTANTS
    Sides,          \* {0, 1}: the channels at_+0 and at_+1
    Lateness        \* the counts the overflow may wait for its interrupt

(* A rising edge of the longest pulse is due 52 counts into its period.    *)
ASSUME ServoAssumption == Sides \subseteq {0, 1} /\ Lateness \subseteq 0 .. 51

NumChannels == 4
ServoChannels == 0 .. (NumChannels - 1)
Bias == ((187500 * 3) \div 2) \div 1000 \* F_CPU/Prescaler*3/2/1000 at 12 MHz
Mid == 0

VARIABLES
    at,         \* Servos::at_
    half,       \* Servos::state_
    position,   \* Servos::position_
    ocr,        \* the compare register of each side
    due,        \* the times at which a side will yet toggle in this period
    pins,       \* the pins of the port that are high
    rose,       \* history: when the pin of a side rose, on this period's clock
    settled     \* history: a cycle has begun since the start

generator == <<at, half, ocr, due, pins, rose, settled>>

Toggled(high, some) == (high \cup some) \ (high \cap some)

RisesAt(p) == 256 - ((p + Bias) \div 2)

FallsAt(p) == (p + Bias + 1) \div 2

(* Mutant of PortAfter: the port is never reset.                           *)
PortAfter_Kept(next, high) == high

(* "Be conservative and reset the port each cycle."                        *)
PortAfter(next, high) == IF half = "Start" /\ next = 0 THEN {} ELSE high

(* The register still holds what the period before left in it until the    *)
(* interrupt has run: that time may have come again by then, and a new one *)
(* that has passed is missed.                                              *)
Repeated(late) == {s \in Sides : ocr[s] < late}
Missed(edge, late) == edge <= late

(* A toggle that is repeated is served before the overflow it waits with,  *)
(* as the compare interrupts have the higher priority, or behind it when   *)
(* its time comes with the overflow's interrupt already begun.             *)
Overflow(late) ==
    /\ \A s \in Sides : due[s] = {}
    /\ \E early \in SUBSET Repeated(late) :
       LET next == IF half = "Start" THEN (at + 2) % NumChannels ELSE at
           Edge(s) == IF half = "Start" THEN RisesAt(position[next + s])
                      ELSE FallsAt(position[next + s])
       IN  /\ at' = next
           /\ half' = IF half = "Start" THEN "Centre" ELSE "Start"
           /\ ocr' = [s \in Sides |-> Edge(s)]
           /\ due' = [s \in Sides |-> {ocr[r] : r \in {s} \cap (Repeated(late) \ early)}
                                      \cup {t \in {Edge(s)} : ~Missed(t, late)}]
           /\ pins' = PortAfter(next, Toggled(pins, {at + s : s \in early}))
           /\ rose' = [s \in Sides |-> rose[s] - 256]
           /\ settled' = (settled \/ (half = "Start" /\ next = 0))
    /\ UNCHANGED position

(* compare_a() and compare_b()                                             *)
Compare(s) ==
    \E t \in due[s] :
        /\ \A u \in due[s] : t <= u
        /\ due' = [due EXCEPT ![s] = @ \ {t}]
        /\ pins' = Toggled(pins, {at + s})
        /\ rose' = IF at + s \in pins THEN [rose EXCEPT ![s] = 0] ELSE [rose EXCEPT ![s] = t]
        /\ UNCHANGED <<at, half, position, ocr, settled>>

(* The registers are zero when the timer starts, so each side may toggle   *)
(* its first pin before the first overflow has been served.                *)
GeneratorInit ==
    /\ at = 0
    /\ half = "Start"
    /\ position = [c \in ServoChannels |-> Mid]
    /\ ocr = [s \in Sides |-> 0]
    /\ due = [s \in Sides |-> {}]
    /\ pins \in SUBSET Sides
    /\ rose = [s \in Sides |-> 0]
    /\ settled = FALSE

GeneratorNext == (\E late \in Lateness : Overflow(late)) \/ (\E s \in Sides : Compare(s))
=============================================================================
