----------------------------- MODULE LossyLink -----------------------------
(***************************************************************************)
(* What the serial line promises in either direction: a frame that comes   *)
(* out is one that went in, whole and once, and frames come out in the     *)
(* order they went in; frames may be lost, and a frame may be misread in   *)
(* the ways Readings admits.  The receiver takes a frame as it arrives, or *)
(* keeps it in a box that holds one.                                       *)
(***************************************************************************)
EXTENDS Naturals, Sequences

CONSTANTS
    Frames,         \* the payloads that are sent
    Readings(_),    \* what a payload may come out as
    None            \* no frame

VARIABLES
    line,       \* the frames sent whose fate is open, oldest first
    box,        \* the frame that has arrived but is not yet taken, or None
    last        \* the frame taken last, and a bit that flips with each

vars == <<line, box, last>>

Taken(f) == last' = [frame |-> f, flip |-> ~last.flip]

(* The i-th frame leaves the line; those before it, and perhaps some       *)
(* behind it, are lost.                                                    *)
Leaves(i) ==
    \E j \in i + 1 .. Len(line) + 1 : line' = SubSeq(line, j, Len(line))

Init == line = <<>> /\ box = None /\ last = [frame |-> None, flip |-> FALSE]

Begin(f) ==
    /\ line' = Append(line, f)
    /\ UNCHANGED <<box, last>>

Deliver ==
    \E i \in 1 .. Len(line) :
        (\E f \in Readings(line[i]) : Taken(f)) /\ Leaves(i) /\ UNCHANGED box

Arrive ==
    \E i \in 1 .. Len(line) :
        box = None /\ box' \in Readings(line[i]) /\ Leaves(i) /\ UNCHANGED last

Take ==
    /\ box # None /\ box' = None
    /\ Taken(box)
    /\ UNCHANGED line

Lose == Leaves(0) /\ UNCHANGED <<box, last>>

Next == (\E f \in Frames : Begin(f)) \/ Deliver \/ Arrive \/ Take \/ Lose

Spec == Init /\ [][Next]_vars
=============================================================================
