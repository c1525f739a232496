------------------------------ MODULE Framing ------------------------------
(***************************************************************************)
(* The frames of the serial line between the two boards: a payload whose   *)
(* first byte is its code, a checksum, escapes for the two special bytes,  *)
(* and a mark at the end.  Both boards compute the same checksum           *)
(* (Link::checksum in roverif/link.cc, checksum in link/link.go).          *)
(***************************************************************************)
EXTENDS Bits, Sequences

Mark == 10
Escape == 94

Special(byte) == byte \in {Mark, Escape}

(* byte ^ 0x20                                                             *)
Flip(byte) == IF (byte \div 32) % 2 = 1 THEN byte - 32 ELSE byte + 32

(* Each sum stays below 255, so that one subtraction is a remainder.       *)
Checksum(payload) ==
    LET first[i \in 0 .. Len(payload)] ==
            IF i = 0 THEN 18 ELSE (first[i - 1] + payload[i]) % 255
        second[i \in 0 .. Len(payload)] ==
            IF i = 0 THEN 52 ELSE (second[i - 1] + first[i]) % 255
    IN  ExclusiveOr(first[Len(payload)], second[Len(payload)])

Sealed(payload) == Append(payload, Checksum(payload))

(* How one byte is written, and the first i bytes.                         *)
Written(byte) == IF Special(byte) THEN <<Escape, Flip(byte)>> ELSE <<byte>>

Escapings(bytes) ==
    LET done[i \in 0 .. Len(bytes)] ==
            IF i = 0 THEN <<>> ELSE done[i - 1] \o Written(bytes[i])
    IN  done

Escaped(bytes) == Escapings(bytes)[Len(bytes)]

(* What the command board's Send writes to the port.                       *)
Encoded(payload) == Append(Escaped(Sealed(payload)), Mark)

(* The codes and lengths each side knows.                                  *)
Reports ==
    [code \in {99, 104, 105, 109, 112, 115, 118} |->
        CASE code = 104 -> 3 [] code = 105 -> 8 [] code = 112 -> 1 [] code = 118 -> 19
          [] code = 115 -> 2 [] code = 99 -> 5 [] code = 109 -> 14]
Commands == [code \in {82, 100} |-> IF code = 82 THEN 2 ELSE 8]

Payload(frame) == SubSeq(frame, 1, Len(frame) - 1)

(* A received frame is taken when its checksum matches and its code is     *)
(* known and has that length.                                              *)
Valid(frame, sizes) ==
    /\ Len(frame) >= 2
    /\ frame[Len(frame)] = Checksum(Payload(frame))
    /\ Payload(frame)[1] \in DOMAIN sizes
    /\ Len(Payload(frame)) = sizes[Payload(frame)[1]]

(* What the checksum cannot tell from the payload: an escape that is lost  *)
(* leaves its byte flipped, and the two sums of the checksum change by the *)
(* same amount when that byte is the last.                                 *)
Readings(payload) ==
    LET places == {i \in 1 .. Len(payload) : Special(payload[i])}
        FlippedAt(some) ==
            [i \in 1 .. Len(payload) |->
                IF i \in some THEN Flip(payload[i]) ELSE payload[i]]
    IN  {read \in {FlippedAt(some) : some \in SUBSET places} :
            Checksum(read) = Checksum(payload)}
=============================================================================
