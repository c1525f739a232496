------------------------------ MODULE BoardTx ------------------------------
(***************************************************************************)
(* A report on its way from the I/O board to the command board, byte by    *)
(* byte: Link::send and the transmit interrupt of roverif/link.cc, a line  *)
(* that may lose bytes, and the reader of link/link.go.                    *)
(*                                                                         *)
(* The main loop and the interrupt share tx_at_ and tx_end_, which are not *)
(* volatile: the two plain stores of send() may come in either order, and  *)
(* the interrupt may run between them.  They do not move past the volatile *)
(* register write that enables the interrupt.  HAL::init() enables it as   *)
(* well, so it runs from the start.                                        *)
(***************************************************************************)
EXTENDS Framing

CONSTANTS
    Frames,     \* the payloads the main loop sends
    MaxFrame,   \* 100: where the reader gives a frame up
    MaxLost     \* bound: the bytes the line loses

ASSUME FrameAssumption ==
    /\ MaxFrame \in Nat /\ MaxLost \in Nat
    /\ \A f \in Frames : /\ f \in Seq(0 .. 255) /\ Valid(Sealed(f), Reports)
                         /\ Len(f) < MaxFrame

None == <<>>

VARIABLES
    todo,       \* the stores send() has still to do
    length,     \* the argument of send()
    tx,         \* Link::tx_ as far as it was ever filled
    tx_at,
    tx_end,
    udrie,      \* the transmit interrupt is enabled
    got,        \* the reader's frame so far
    xor,        \* the reader has seen an escape
    lost,
    line,       \* history: the frames sent since a mark was last heard
    last,       \* history: the frame taken last, as in LossyLink
    clean,      \* history: the frame being sent has lost no byte
    intact      \* history: so many frames before it had lost none, up to 1

sender == <<todo, length, tx, tx_at, tx_end, udrie>>
reader == <<got, xor, last>>
vars == <<todo, length, tx, tx_at, tx_end, udrie, got, xor, lost, line, last, clean, intact>>

-----------------------------------------------------------------------------
(* The main loop.                                                          *)

(* start(), the fill_ function of the report, and send() up to its stores. *)
Fill(f) ==
    /\ todo = {} /\ tx_at > tx_end
    /\ length' = Len(f)
    /\ tx' = Sealed(f) \o SubSeq(tx, Len(f) + 2, Len(tx))
    /\ todo' = {"tx_end", "tx_at", "enable"}
    /\ line' = Append(line, f)
    /\ clean' = ~udrie
    /\ UNCHANGED <<tx_at, tx_end, udrie, reader, lost, intact>>

StoreEnd ==
    /\ "tx_end" \in todo /\ todo' = todo \ {"tx_end"}
    /\ tx_end' = length + 1
    /\ UNCHANGED <<length, tx, tx_at, udrie, reader, lost, line, clean, intact>>

StoreAt ==
    /\ "tx_at" \in todo /\ todo' = todo \ {"tx_at"}
    /\ tx_at' = 0
    /\ UNCHANGED <<length, tx, tx_end, udrie, reader, lost, line, clean, intact>>

(* Mutant of EnableTx: the interrupt is enabled before the stores.         *)
EnableTx_Early ==
    /\ "enable" \in todo /\ todo' = todo \ {"enable"}
    /\ udrie' = TRUE
    /\ UNCHANGED <<length, tx, tx_at, tx_end, reader, lost, line, clean, intact>>

EnableTx ==
    /\ todo = {"enable"} /\ todo' = {}
    /\ udrie' = TRUE
    /\ UNCHANGED <<length, tx, tx_at, tx_end, reader, lost, line, clean, intact>>

-----------------------------------------------------------------------------
(* The reader: Link.Watch and Link.dispatch.                               *)

(* Mutant of HearByte: the escape is not forgotten.                        *)
HearByte_StaysEscaped(byte) ==
    /\ got' = IF Len(got) = MaxFrame THEN <<>>
              ELSE Append(got, IF xor THEN Flip(byte) ELSE byte)
    /\ UNCHANGED <<xor, last>>

HearByte(byte) ==
    /\ got' = IF Len(got) = MaxFrame THEN <<>>
              ELSE Append(got, IF xor THEN Flip(byte) ELSE byte)
    /\ xor' = FALSE
    /\ UNCHANGED last

(* Mutant of HearMark: the frame is not reset.                             *)
HearMark_Keeps ==
    /\ last' = IF Valid(got, Reports)
               THEN [frame |-> Payload(got), flip |-> ~last.flip] ELSE last
    /\ UNCHANGED <<got, xor>>

HearMark ==
    /\ got' = <<>>
    /\ last' = IF Valid(got, Reports)
               THEN [frame |-> Payload(got), flip |-> ~last.flip] ELSE last
    /\ UNCHANGED xor

Hear(byte) ==
    CASE byte = Mark   -> HearMark
      [] byte = Escape -> xor' = TRUE /\ UNCHANGED <<got, last>>
      [] OTHER         -> HearByte(byte)

(* putch(): the byte reaches the reader, or the line loses it.             *)
Put(byte) == Hear(byte) /\ UNCHANGED <<lost, clean>>
LoseByte == lost < MaxLost /\ lost' = lost + 1 /\ clean' = FALSE /\ UNCHANGED reader

-----------------------------------------------------------------------------
(* The transmit interrupt, when the UART is ready: tx_next().  With nothing *)
(* to send it changes nothing.                                             *)

(* The interrupt started at the first byte and goes on to the last: the    *)
(* mark now sent ends the frame.                                           *)
Whole == "tx_at" \notin todo /\ tx_end > length

PutMark ==
    /\ udrie /\ udrie' = FALSE
    /\ tx_at = tx_end /\ tx_at' = tx_at + 1
    /\ \/ Put(Mark) /\ line' = IF Whole THEN <<>> ELSE <<line[Len(line)]>>
       \/ LoseByte /\ UNCHANGED line
    /\ intact' = IF ~Whole THEN intact ELSE IF clean' THEN 1 ELSE 0
    /\ UNCHANGED <<todo, length, tx, tx_end>>

PutByte ==
    /\ udrie
    /\ tx_at < tx_end
    /\ LET next == tx[tx_at + 1]
           Send(byte) == Put(byte) \/ LoseByte
       IN  IF Special(next)
           THEN Send(Escape) /\ tx' = [tx EXCEPT ![tx_at + 1] = Flip(next)] /\ UNCHANGED tx_at
           ELSE Send(next) /\ tx_at' = tx_at + 1 /\ UNCHANGED tx
    /\ UNCHANGED <<todo, length, tx_end, udrie, line, intact>>

-----------------------------------------------------------------------------
Init ==
    /\ todo = {} /\ length = 0
    /\ tx = <<>> /\ tx_at = 1 /\ tx_end = 0
    /\ udrie = TRUE
    /\ got = <<>> /\ xor = FALSE
    /\ lost = 0
    /\ line = <<>> /\ last = [frame |-> None, flip |-> FALSE]
    /\ clean = FALSE /\ intact = 0

Stores == StoreEnd \/ StoreAt \/ EnableTx
Interrupt == PutMark \/ PutByte
Next == (\E f \in Frames : Fill(f)) \/ Stores \/ Interrupt

(* The main loop goes on, and the UART becomes ready again and again.      *)
Fairness == WF_vars(Stores) /\ WF_vars(Interrupt)

Spec == Init /\ [][Next]_vars /\ Fairness

-----------------------------------------------------------------------------
Readable == [f \in Frames |-> Readings(f)]
ReadableAs(f) == Readable[f]

TypeOK ==
    /\ todo \subseteq {"tx_end", "tx_at", "enable"}
    /\ length \in 0 .. 21
    /\ tx \in Seq(0 .. 255)
    /\ tx_at \in 0 .. 23 /\ tx_end \in 0 .. 22
    /\ udrie \in BOOLEAN /\ xor \in BOOLEAN
    /\ got \in Seq(0 .. 255) /\ Len(got) <= MaxFrame
    /\ lost \in 0 .. MaxLost
    /\ line \in Seq(Frames) /\ last.frame \in Seq(0 .. 255)
    /\ clean \in BOOLEAN /\ intact \in 0 .. 1

(* The command board takes only reports that were sent, whole and once,    *)
(* whatever the interrupt does between the stores and the line loses.      *)
Link == INSTANCE LossyLink WITH box <- None, Readings <- ReadableAs
ImplementsLink == Link!Spec

(* The line recovers within a frame: a report that loses no byte, sent     *)
(* after another that lost none, is taken.                                 *)
Recovers == [][(PutMark /\ Whole /\ clean' /\ intact = 1) =>
                 last' = [frame |-> line[Len(line)], flip |-> ~last.flip]]_vars

(* A buffer that was filled drains, so start() returns it again: no order  *)
(* of the stores leaves the interrupt off with a frame in the buffer.      *)
Drains == (todo # {} \/ tx_at <= tx_end) ~> (todo = {} /\ tx_at > tx_end)
=============================================================================
