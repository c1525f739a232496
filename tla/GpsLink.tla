------------------------------ MODULE GpsLink ------------------------------
(***************************************************************************)
(* The GPS reader of gps/gps.go, character by character: the receiver      *)
(* sends lines, the serial line may lose characters, Read collects a frame *)
(* and dispatch() hands the message to the driver over the unbuffered      *)
(* channel Sentences, in whose send the reader stands until it is taken.   *)
(***************************************************************************)
EXTENDS Nmea
LOCAL INSTANCE SequencesExt

CONSTANTS
    Texts,      \* the sentences the receiver sends, from '$' to '*'
    MaxLost     \* bound: the characters the line loses

(* What matcher asks of a sentence; the characters that end or begin a     *)
(* line are in none.                                                       *)
ASSUME TextAssumption ==
    \A text \in Texts :
        /\ text \in Seq((0 .. 127) \ {Dollar, Cr, Lf})
        /\ \E k \in 2 .. Len(text) - 1 :
              text[k] = Comma /\ \A j \in 1 .. k - 1 : IsLetter(text[j])

VARIABLES
    out,        \* the characters on their way, those the port holds included
    frame,      \* the local of Read
    box,        \* the message in link.Sentences <- msg, or None
    lost,
    line,       \* history: the texts sent since a line end was last heard
    last,       \* history: the message taken last, as in LossyLink
    clean       \* history: every character of the line in out has been heard

vars == <<out, frame, box, lost, line, last, clean>>

-----------------------------------------------------------------------------
(* The receiver: a line goes out behind the one before it, so the model    *)
(* lets it begin when that one has been read.                              *)
Send(text) ==
    /\ out = <<>> /\ out' = Line(text)
    /\ line' = Append(line, text)
    /\ clean' = TRUE
    /\ UNCHANGED <<frame, box, lost, last>>

LoseByte ==
    /\ out # <<>> /\ out' = Tail(out)
    /\ lost < MaxLost /\ lost' = lost + 1
    /\ clean' = FALSE
    /\ UNCHANGED <<frame, box, line, last>>

-----------------------------------------------------------------------------
(* The reader.                                                             *)

(* Mutant of Collect: a '$' does not start the frame anew.                 *)
Collect_NoReset(ch) ==
    frame' = IF ch = Cr THEN frame ELSE Append(frame, ch)

Collect(ch) ==
    frame' = IF ch = Dollar THEN <<Dollar>>
             ELSE IF ch = Cr THEN frame ELSE Append(frame, ch)

Dispatch ==
    /\ box' = Message(frame)
    /\ frame' = <<>>
    /\ line' = <<>>

(* Read, for the next character of the port.                               *)
ReadByte ==
    /\ box = None
    /\ out # <<>> /\ out' = Tail(out)
    /\ IF Head(out) = Lf THEN Dispatch
       ELSE Collect(Head(out)) /\ UNCHANGED <<box, line>>
    /\ UNCHANGED <<lost, last, clean>>

(* The driver's select receives from Sentences.                            *)
Take ==
    /\ box # None /\ box' = None
    /\ last' = [frame |-> box, flip |-> ~last.flip]
    /\ UNCHANGED <<out, frame, lost, line, clean>>

Init ==
    /\ out = <<>> /\ frame = <<>> /\ box = None
    /\ lost = 0
    /\ line = <<>> /\ last = [frame |-> None, flip |-> FALSE] /\ clean = FALSE

Next == (\E text \in Texts : Send(text)) \/ LoseByte \/ ReadByte \/ Take

Spec == Init /\ [][Next]_vars

-----------------------------------------------------------------------------
(* What a sentence may be taken for when two characters are lost: two that *)
(* are equal cancel out in the checksum, and without the line end and the  *)
(* next '$' a sentence is joined to the one behind it, which goes          *)
(* unnoticed when the first has the checksum 5C.                           *)
Shortened(text) ==
    LET twins == {pair \in (DOMAIN text) \X (DOMAIN text) :
                     pair[1] < pair[2] /\ text[pair[1]] = text[pair[2]]}
    IN  {RemoveAt(RemoveAt(text, pair[2]), pair[1]) : pair \in twins}

Joined(text) ==
    {read \in {text \o <<Star>> \o Hex(Checksum(text)) \o next : next \in Texts} :
        Checksum(text \o <<Star>> \o Hex(Checksum(text))) = 0}

Readable ==
    [text \in Texts |->
        {Decode(read) : read \in {text} \cup Shortened(text) \cup Joined(text)}]
Readings(text) == Readable[text] \ {None}

(* The driver is given only positions and speeds the receiver sent, whole, *)
(* once and in order, whatever the line loses and however long the driver  *)
(* lets the reader wait; and no two lost characters turn a sentence into   *)
(* anything but the readings above.                                        *)
Link == INSTANCE LossyLink WITH Frames <- Texts
ImplementsLink == Link!Spec

(* No loss outlives its line: a sentence of which every character is heard *)
(* is handed to the driver, whatever came before it, if it has all of its  *)
(* fields.                                                                 *)
Recovers == [][(ReadByte /\ Len(out) = 1 /\ clean /\ Head(out) = Lf) =>
                 box' = Decode(line[Len(line)])]_vars
=============================================================================
