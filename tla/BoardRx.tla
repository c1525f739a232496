------------------------------ MODULE BoardRx ------------------------------
(***************************************************************************)
(* A command on its way from the command board to the I/O board, byte by   *)
(* byte: Link.Send of link/link.go, a line that may lose bytes, and the    *)
(* receive interrupt, peek() and discard() of roverif/link.cc.             *)
(*                                                                         *)
(* The interrupt fills a single buffer; from a mark until the main loop    *)
(* has discarded the frame every byte is dropped.  The two plain stores of *)
(* discard() may come in either order, and the interrupt may run between   *)
(* them.                                                                   *)
(***************************************************************************)
EXTENDS Framing

CONSTANTS
    Frames,         \* the payloads the driver sends
    RxBufferSize,   \* 12
    MaxLost         \* bound: the bytes the line loses

(* Assumed of the constants; BoardLink.tla states it.                      *)
FrameAssumption ==
    /\ RxBufferSize \in Nat /\ MaxLost \in Nat
    /\ \A f \in Frames : /\ f \in Seq(0 .. 255) /\ Valid(Sealed(f), Commands)
                         /\ Len(f) < RxBufferSize

None == <<>>

VARIABLES
    out,        \* the bytes written to the port and not yet on the line
    rx,         \* Link::rx_ up to rx_at_
    rx_full,
    rx_xor,     \* Link::rx_xor_ is set
    todo,       \* the stores discard() has still to do
    lost,
    line,       \* history: the frames sent since a mark last reached the board
    last,       \* history: the frame handled last, as in LossyLink
    clean,      \* history: every byte of the frame being sent has been heard
    intact      \* history: so many frames before it were clean, up to 2

board == <<rx, rx_full, rx_xor>>
vars == <<out, rx, rx_full, rx_xor, todo, lost, line, last, clean, intact>>

-----------------------------------------------------------------------------
(* The driver: Link.Send.  A frame is written behind the one before it, so *)
(* the model lets it begin when that one is on the line.                   *)
Send(f) ==
    /\ out = <<>> /\ out' = Encoded(f)
    /\ line' = Append(line, f)
    /\ clean' = TRUE
    /\ UNCHANGED <<board, todo, lost, last, intact>>

-----------------------------------------------------------------------------
(* The receive interrupt: rx_next().                                       *)

(* Mutant of Store: no limit.                                              *)
Store_Endless(byte) ==
    /\ rx' = Append(rx, IF rx_xor THEN Flip(byte) ELSE byte)
    /\ rx_xor' = FALSE

(* Mutant of Store: the escape is not forgotten.                           *)
Store_StaysEscaped(byte) ==
    /\ rx' = IF Len(rx) = RxBufferSize THEN rx
             ELSE Append(rx, IF rx_xor THEN Flip(byte) ELSE byte)
    /\ UNCHANGED rx_xor

(* A byte that overflows the buffer is dropped and leaves the escape set.  *)
Store(byte) ==
    IF Len(rx) = RxBufferSize THEN UNCHANGED <<rx, rx_xor>>
    ELSE /\ rx' = Append(rx, IF rx_xor THEN Flip(byte) ELSE byte)
         /\ rx_xor' = FALSE

(* Mutant of Hear: bytes are heard while a frame waits in the buffer.      *)
Hear_WhileFull(byte) ==
    CASE byte = Mark   -> rx_full' = TRUE /\ UNCHANGED <<rx, rx_xor>>
      [] byte = Escape -> rx_xor' = TRUE /\ UNCHANGED <<rx, rx_full>>
      [] OTHER         -> Store(byte) /\ UNCHANGED rx_full

Hear(byte) ==
    IF rx_full THEN UNCHANGED board
    ELSE CASE byte = Mark   -> rx_full' = TRUE /\ UNCHANGED <<rx, rx_xor>>
           [] byte = Escape -> rx_xor' = TRUE /\ UNCHANGED <<rx, rx_full>>
           [] OTHER         -> Store(byte) /\ UNCHANGED rx_full

(* The byte heard or lost is the next of the frame; the mark ends it.      *)
Passes ==
    /\ out' = Tail(out)
    /\ intact' = IF Len(out) > 1 THEN intact
                 ELSE IF clean' THEN IF intact = 2 THEN 2 ELSE intact + 1
                 ELSE 0
    /\ UNCHANGED <<todo, last>>

RxNext ==
    /\ out # <<>>
    /\ Hear(Head(out))
    /\ clean' = (clean /\ ~rx_full /\ todo = {})
    /\ Passes
    /\ line' = IF Head(out) = Mark THEN <<>> ELSE line
    /\ UNCHANGED lost

LoseByte ==
    /\ out # <<>>
    /\ lost < MaxLost /\ lost' = lost + 1
    /\ clean' = FALSE
    /\ Passes
    /\ UNCHANGED <<board, line>>

-----------------------------------------------------------------------------
(* The main loop: peek() and the handlers of poll_link(), then discard().  *)
Peek ==
    /\ rx_full /\ todo = {}
    /\ last' = IF Valid(rx, Commands)
               THEN [frame |-> Payload(rx), flip |-> ~last.flip] ELSE last
    /\ todo' = {"rx_at", "rx_full"}
    /\ UNCHANGED <<out, board, lost, line, clean, intact>>

StoreAt ==
    /\ "rx_at" \in todo /\ todo' = todo \ {"rx_at"}
    /\ rx' = <<>>
    /\ UNCHANGED <<out, rx_full, rx_xor, lost, line, last, clean, intact>>

StoreFull ==
    /\ "rx_full" \in todo /\ todo' = todo \ {"rx_full"}
    /\ rx_full' = FALSE
    /\ UNCHANGED <<out, rx, rx_xor, lost, line, last, clean, intact>>

-----------------------------------------------------------------------------
Init ==
    /\ out = <<>>
    /\ rx = <<>> /\ rx_full = FALSE /\ rx_xor = FALSE
    /\ todo = {}
    /\ lost = 0
    /\ line = <<>> /\ last = [frame |-> None, flip |-> FALSE]
    /\ clean = FALSE /\ intact = 0

Next ==
    \/ \E f \in Frames : Send(f)
    \/ RxNext \/ LoseByte
    \/ Peek \/ StoreAt \/ StoreFull

Spec == Init /\ [][Next]_vars

-----------------------------------------------------------------------------
TypeOK ==
    /\ out \in Seq(0 .. 255)
    /\ rx \in Seq(0 .. 255) /\ Len(rx) <= RxBufferSize
    /\ rx_full \in BOOLEAN /\ rx_xor \in BOOLEAN
    /\ todo \subseteq {"rx_at", "rx_full"}
    /\ lost \in 0 .. MaxLost
    /\ line \in Seq(Frames) /\ last.frame \in Seq(0 .. 255)
    /\ clean \in BOOLEAN /\ intact \in 0 .. 2

(* The frame peek() would return.                                          *)
Box == IF rx_full /\ todo = {} /\ Valid(rx, Commands) THEN Payload(rx) ELSE None

(* The line recovers within two frames: a command of which every byte is   *)
(* heard, sent after two others heard in full, is there for peek().  One   *)
(* is not enough: it may overflow the buffer behind the rest of a broken   *)
(* frame and leave an escape behind.                                       *)
Recovers == [][(RxNext /\ Len(out) = 1 /\ clean' /\ intact = 2) =>
                 Box' = line[Len(line)]]_vars
=============================================================================
