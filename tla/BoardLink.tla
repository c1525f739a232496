----------------------------- MODULE BoardLink -----------------------------
(***************************************************************************)
(* The serial line between the boards, both ways.  Reports go up as in     *)
(* BoardTx.tla and commands come down as in BoardRx.tla.  The directions   *)
(* have no variable in common (each has its wire, its interrupt, its       *)
(* buffer and its checks), so a step of one is no step of the other, and   *)
(* whatever holds of each with the other at rest holds of the two at once. *)
(* A behaviour here therefore uses one of them.                            *)
(***************************************************************************)
EXTENDS BoardTx

CONSTANTS
    Orders,         \* the payloads the driver sends
    RxBufferSize    \* 12

VARIABLES
    direction,
    down_out, down_rx, down_rx_full, down_rx_xor, down_todo, down_lost,
    down_line, down_last, down_clean, down_intact

down == <<down_out, down_rx, down_rx_full, down_rx_xor, down_todo, down_lost,
          down_line, down_last, down_clean, down_intact>>

Down == INSTANCE BoardRx WITH
    Frames <- Orders, out <- down_out, rx <- down_rx, rx_full <- down_rx_full,
    rx_xor <- down_rx_xor, todo <- down_todo, lost <- down_lost,
    line <- down_line, last <- down_last, clean <- down_clean,
    intact <- down_intact

ASSUME OrderAssumption == Down!FrameAssumption

LinkInit == direction \in {"up", "down"} /\ Init /\ Down!Init

Up == direction = "up" /\ Next /\ UNCHANGED <<direction, down>>

Downward == direction = "down" /\ Down!Next /\ UNCHANGED <<direction, vars>>

LinkNext == Up \/ Downward

LinkSpec ==
    /\ LinkInit /\ [][LinkNext]_<<direction, vars, down>>
    /\ Fairness

(* The types of both; the buffers keep within their arrays, the one that   *)
(* rx_next() fills and the one that Link.Watch gives up at MaxFrame.       *)
LinkTypeOK == TypeOK /\ Down!TypeOK

OrderReadings == [f \in Orders |-> Readings(f)]
OrderReadAs(f) == OrderReadings[f]

(* The I/O board handles only commands that were sent, in order, whole and *)
(* once, whatever the line loses, whatever comes in while a frame waits or *)
(* is being discarded (poll_link and discard() against rx_next()).         *)
OrderLink == INSTANCE LossyLink WITH
    Frames <- Orders, Readings <- OrderReadAs, line <- down_line,
    box <- Down!Box, last <- down_last
OrdersImplementLink == OrderLink!Spec

(* The line down recovers within two frames: a command of which every byte *)
(* is heard, sent after two others heard in full, is there for peek().     *)
OrdersRecover == Down!Recovers
=============================================================================
