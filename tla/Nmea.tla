-------------------------------- MODULE Nmea --------------------------------
(***************************************************************************)
(* The sentences of the GPS receiver and what gps/gps.go makes of one: the *)
(* shape asked of a line, the exclusive-or checksum, and the fields each   *)
(* type of message is built from.  Characters are their ASCII codes, below *)
(* 128: checksum() ranges over runes, which are bytes only there.  The     *)
(* numbers stay the texts they are parsed from.                            *)
(***************************************************************************)
EXTENDS Bits, Sequences
LOCAL INSTANCE SequencesExt

Dollar == 36
Star == 42
Comma == 44
Cr == 13
Lf == 10

RMC == <<71, 80, 82, 77, 67>>   \* "GPRMC"
GGA == <<71, 80, 71, 71, 65>>   \* "GPGGA"
VTG == <<71, 80, 86, 84, 71>>   \* "GPVTG"

IsDigit(ch) == ch \in 48 .. 57
IsLetter(ch) == ch \in 65 .. 90
IsWord(ch) == IsDigit(ch) \/ IsLetter(ch) \/ ch \in 97 .. 122 \/ ch = 95

Checksum(text) ==
    LET sum[i \in 0 .. Len(text)] ==
            IF i = 0 THEN 0 ELSE ExclusiveOr(sum[i - 1], text[i])
    IN  sum[Len(text)]

HexDigit(n) == IF n < 10 THEN 48 + n ELSE 55 + n
Hex(sum) == <<HexDigit(sum \div 16), HexDigit(sum % 16)>>

(* A line as the receiver sends it.                                        *)
Line(text) == <<Dollar>> \o text \o <<Star>> \o Hex(Checksum(text)) \o <<Cr, Lf>>

(* What matcher accepts.  No line holds a second '$', and the end of the   *)
(* line fixes the place of the star.                                       *)
Shaped(frame) ==
    /\ Len(frame) > 4
    /\ Head(frame) = Dollar
    /\ frame[Len(frame) - 2] = Star
    /\ IsWord(frame[Len(frame) - 1]) /\ IsWord(frame[Len(frame)])
    /\ \E k \in 3 .. Len(frame) - 4 :
          frame[k] = Comma /\ \A j \in 2 .. k - 1 : IsLetter(frame[j])

Text(frame) == SubSeq(frame, 2, Len(frame) - 3)

(* strconv.ParseUint takes the digits above nine in either case.           *)
HexDigits(n) == IF n < 10 THEN {48 + n} ELSE {55 + n, 87 + n}

Summed(frame) ==
    LET sum == Checksum(Text(frame))
    IN  /\ frame[Len(frame) - 1] \in HexDigits(sum \div 16)
        /\ frame[Len(frame)] \in HexDigits(sum % 16)

(* strings.Split(frame, ",")                                               *)
Split(text) ==
    FoldLeft(LAMBDA fields, ch :
                 IF ch = Comma THEN Append(fields, <<>>)
                 ELSE Append(Front(fields), Append(Last(fields), ch)),
             << <<>> >>, text)

(* strconv.ParseFloat, for the signs, digits and points a receiver sends.  *)
IsFloat(field) ==
    LET sign == IF field # <<>> /\ Head(field) \in {43, 45} THEN {1} ELSE {}
        number == DOMAIN field \ sign
        points == {i \in number : field[i] = 46}
    IN  /\ \A i \in number \ points : IsDigit(field[i])
        /\ points # number
        /\ \A i, j \in points : i = j

(* strconv.ParseInt with base 0: a leading zero makes it octal.            *)
IsInt(field) ==
    /\ field # <<>>
    /\ \A i \in DOMAIN field : IsDigit(field[i])
    /\ Len(field) > 1 /\ Head(field) = 48 => \A i \in DOMAIN field : field[i] < 56

(* The fields decode() gets, counted from 0: times, other floats with the  *)
(* latitude and longitude, integers, and texts with the directions.        *)
Layouts ==
    {[name |-> RMC, times |-> {1}, floats |-> {3, 5, 7, 8}, ints |-> {},
      texts |-> {2, 4, 6, 9, 12}],
     [name |-> GGA, times |-> {1}, floats |-> {2, 4, 8, 9}, ints |-> {6, 7},
      texts |-> {3, 5}],
     [name |-> VTG, times |-> {}, floats |-> {1, 5, 7}, ints |-> {},
      texts |-> {9}]}

Got(layout) == layout.times \cup layout.floats \cup layout.ints \cup layout.texts

(* A field out of range or a number that does not parse is an error; so is *)
(* an empty time, which has no fallback of its own.                        *)
Sound(fields, layout) ==
    LET field(i) == fields[i + 1]
    IN  /\ \A i \in Got(layout) : i < Len(fields)
        /\ \A i \in layout.times : IsFloat(field(i))
        /\ \A i \in layout.floats : field(i) = <<>> \/ IsFloat(field(i))
        /\ \A i \in layout.ints : field(i) = <<>> \/ IsInt(field(i))

Full(fields, layout) == \A i \in Got(layout) : fields[i + 1] # <<>>

None == <<>>

(* decode(): the fields of the message, or None for an error, an empty     *)
(* field or an unknown type.                                               *)
Decode(text) ==
    LET fields == Split(text)
        good == {layout \in Layouts : /\ layout.name = Head(fields)
                                      /\ Sound(fields, layout)
                                      /\ Full(fields, layout)}
    IN  IF good = {} THEN None
        ELSE [i \in {0} \cup UNION {Got(layout) : layout \in good} |-> fields[i + 1]]

(* Mutant of Message: the checksum is counted but does not reject.         *)
Message_Unchecked(frame) == IF Shaped(frame) THEN Decode(Text(frame)) ELSE None

(* dispatch(): what is sent on for a line.                                 *)
Message(frame) ==
    IF Shaped(frame) /\ Summed(frame) THEN Decode(Text(frame)) ELSE None
=============================================================================
