--------------------------- MODULE GpsLinkProofs ---------------------------
(***************************************************************************)
(* What GpsLink.tla guarantees for every set of sentences and any number   *)
(* of lost characters: no loss outlives its line.                          *)
(***************************************************************************)
EXTENDS GpsLink, Arithmetic
LOCAL INSTANCE SequenceTheorems

Char == 0 .. 255

-----------------------------------------------------------------------------
(* Lines.                                                                  *)

LEMMA ChecksumResult ==
    ASSUME NEW text \in Seq(Char)
    PROVE  Checksum(text) \in Char
<1> DEFINE g == [p \in Char \X Nat |-> ExclusiveOr(p[1], text[p[2]])]
           sum == CHOOSE s : s = [i \in 0 .. Len(text) |->
                                     IF i = 0 THEN 0 ELSE ExclusiveOr(s[i - 1], text[i])]
<1>1. Checksum(text) = sum[Len(text)]  BY DEF Checksum
<1>2. g \in [Char \X Nat -> Char]  BY ExclusiveOrResult DEF Char
<1>3. \A k \in Char, i \in Nat : g[<<k, i>>] = ExclusiveOr(k, text[i])  OBVIOUS
<1> HIDE DEF g
<1>4. PICK n \in Nat : n = Len(text)  BY LenProperties
<1>5. PICK h : Solves(h, Char, 0, g, n)
  <2>1. 0 \in Char  BY DEF Char
  <2> QED  BY <1>2, <2>1, Recursion
<1>6. \A i \in 1 .. n : h[i] = ExclusiveOr(h[i - 1], text[i])
  <2> SUFFICES ASSUME NEW i \in 1 .. n PROVE h[i] = ExclusiveOr(h[i - 1], text[i])
    OBVIOUS
  <2>1. i - 1 \in 0 .. n /\ i \in Nat  OBVIOUS
  <2>2. h[i - 1] \in Char /\ h[i] = g[<<h[i - 1], i>>]  BY <1>5, <2>1 DEF Solves
  <2> QED  BY ONLY <1>3, <2>1, <2>2
<1>7. h = [i \in 0 .. n |-> IF i = 0 THEN 0 ELSE ExclusiveOr(h[i - 1], text[i])]
  BY <1>5, <1>6 DEF Solves
<1>8. sum = [i \in 0 .. n |-> IF i = 0 THEN 0 ELSE ExclusiveOr(sum[i - 1], text[i])]
  BY <1>4, <1>7
<1> HIDE DEF sum
<1>9. CASE n = 0  BY <1>1, <1>4, <1>8, <1>9 DEF Char
<1>10. CASE n # 0
  <2>1. sum[n] = ExclusiveOr(sum[n - 1], text[n])  BY <1>8, <1>10
  <2> QED  BY <1>1, <1>4, <2>1, ExclusiveOrResult DEF Char
<1> QED  BY <1>9, <1>10

(* The two digits of a checksum.                                           *)
LEMMA HexResult ==
    ASSUME NEW sum \in Char
    PROVE  /\ Hex(sum) = <<Hex(sum)[1], Hex(sum)[2]>>
           /\ \A i \in {1, 2} : /\ Hex(sum)[i] \in Char \ {Dollar, Cr, Lf}
                                /\ IsWord(Hex(sum)[i])
<1>1. sum \div 16 \in 0 .. 15 /\ sum % 16 \in 0 .. 15  BY DEF Char
<1>2. \A n \in 0 .. 15 : HexDigit(n) \in 48 .. 57 \/ HexDigit(n) \in 65 .. 70
  BY DEF HexDigit
<1>3. \A x : x \in 48 .. 57 \/ x \in 65 .. 70 =>
                x \in Char \ {Dollar, Cr, Lf} /\ IsWord(x)
  BY DEF Char, Dollar, Cr, Lf, IsWord, IsDigit, IsLetter
<1> QED  BY <1>1, <1>2, <1>3 DEF Hex

(* A line, character by character.                                         *)
LEMMA LineResult ==
    ASSUME NEW text \in Texts
    PROVE  LET n == Len(text)  sum == Hex(Checksum(text))
           IN  /\ text \in Seq(Char) /\ n \in Nat /\ n >= 3
               /\ Line(text) \in Seq(Char) /\ Len(Line(text)) = n + 6
               /\ Line(text)[1] = Dollar
               /\ \A i \in 1 .. n : Line(text)[i + 1] = text[i]
               /\ Line(text)[n + 2] = Star
               /\ Line(text)[n + 3] = sum[1] /\ Line(text)[n + 4] = sum[2]
               /\ Line(text)[n + 5] = Cr /\ Line(text)[n + 6] = Lf
<1>1. text \in Seq(Char)  BY TextAssumption DEF Char
<1>2. PICK n \in Nat : n = Len(text)  BY <1>1, LenProperties
<1>3. n >= 3  BY <1>2, TextAssumption
<1>4. PICK a, b : /\ Hex(Checksum(text)) = <<a, b>> /\ a \in Char /\ b \in Char
                  /\ a = Hex(Checksum(text))[1] /\ b = Hex(Checksum(text))[2]
  BY <1>1, ChecksumResult, HexResult
<1> DEFINE one == <<Dollar>> \o text
           two == one \o <<Star>>
           three == two \o <<a, b>>
           four == three \o <<Cr, Lf>>
<1>5. Line(text) = four  BY <1>4 DEF Line
<1>6. Dollar \in Char /\ Star \in Char /\ Cr \in Char /\ Lf \in Char
  BY DEF Char, Dollar, Star, Cr, Lf
<1>7. /\ one \in Seq(Char) /\ Len(one) = n + 1 /\ one[1] = Dollar
      /\ \A i \in 1 .. n : one[i + 1] = text[i]
  <2>1. <<Dollar>> \in Seq(Char) /\ Len(<<Dollar>>) = 1 /\ <<Dollar>>[1] = Dollar  BY <1>6
  <2> QED  BY <1>1, <1>2, <2>1, ConcatProperties
<1> HIDE DEF one
<1>8. /\ two \in Seq(Char) /\ Len(two) = n + 2 /\ two[n + 2] = Star
      /\ \A i \in 1 .. n + 1 : two[i] = one[i]
  <2>1. <<Star>> \in Seq(Char) /\ Len(<<Star>>) = 1 /\ <<Star>>[1] = Star  BY <1>6
  <2> QED  BY <1>7, <2>1, ConcatProperties
<1> HIDE DEF two
<1>9. /\ three \in Seq(Char) /\ Len(three) = n + 4
      /\ three[n + 3] = a /\ three[n + 4] = b
      /\ \A i \in 1 .. n + 2 : three[i] = two[i]
  <2>1. <<a, b>> \in Seq(Char) /\ Len(<<a, b>>) = 2  BY <1>4
  <2>2. <<a, b>>[1] = a /\ <<a, b>>[2] = b  OBVIOUS
  <2> QED  BY <1>8, <2>1, <2>2, ConcatProperties
<1> HIDE DEF three
<1>10. /\ four \in Seq(Char) /\ Len(four) = n + 6
       /\ four[n + 5] = Cr /\ four[n + 6] = Lf
       /\ \A i \in 1 .. n + 4 : four[i] = three[i]
  <2>1. <<Cr, Lf>> \in Seq(Char) /\ Len(<<Cr, Lf>>) = 2  BY <1>6
  <2>2. <<Cr, Lf>>[1] = Cr /\ <<Cr, Lf>>[2] = Lf  OBVIOUS
  <2> QED  BY <1>9, <2>1, <2>2, ConcatProperties
<1> HIDE DEF four
<1>11. \A i \in 1 .. n : four[i + 1] = text[i]
  <2> SUFFICES ASSUME NEW i \in 1 .. n PROVE four[i + 1] = text[i]  OBVIOUS
  <2>1. i + 1 \in 1 .. n + 1 /\ i + 1 \in 1 .. n + 2 /\ i + 1 \in 1 .. n + 4  OBVIOUS
  <2> QED  BY <1>7, <1>8, <1>9, <1>10, <2>1
<1>12. four[1] = Dollar /\ four[n + 2] = Star /\ four[n + 3] = a /\ four[n + 4] = b
  <2>1. /\ 1 \in 1 .. n + 1 /\ 1 \in 1 .. n + 2 /\ 1 \in 1 .. n + 4
        /\ n + 2 \in 1 .. n + 2 /\ n + 2 \in 1 .. n + 4
        /\ n + 3 \in 1 .. n + 4 /\ n + 4 \in 1 .. n + 4
    OBVIOUS
  <2>2. four[1] = Dollar  BY ONLY <1>7, <1>8, <1>9, <1>10, <2>1
  <2>3. four[n + 2] = Star  BY ONLY <1>8, <1>9, <1>10, <2>1
  <2>4. four[n + 3] = a /\ four[n + 4] = b  BY ONLY <1>9, <1>10, <2>1
  <2> QED  BY <2>2, <2>3, <2>4
<1> QED  BY <1>1, <1>2, <1>3, <1>4, <1>5, <1>10, <1>11, <1>12

(* Where the characters stand that the reader treats apart.                *)
LEMMA LineMarks ==
    ASSUME NEW text \in Texts, NEW i \in 1 .. Len(Line(text))
    PROVE  /\ Line(text)[i] = Dollar <=> i = 1
           /\ Line(text)[i] = Cr <=> i = Len(Line(text)) - 1
           /\ Line(text)[i] = Lf <=> i = Len(Line(text))
<1>1. text \in Seq(Char \ {Dollar, Cr, Lf})  BY TextAssumption DEF Char
<1>2. PICK n \in Nat : n = Len(text)  BY <1>1, LenProperties
<1>3. PICK L : L = Line(text)  OBVIOUS
<1>4. PICK a, b : /\ a = Hex(Checksum(text))[1] /\ b = Hex(Checksum(text))[2]
                  /\ a \notin {Dollar, Cr, Lf} /\ b \notin {Dollar, Cr, Lf}
  <2>1. Checksum(text) \in Char  BY LineResult, ChecksumResult
  <2> QED  BY <2>1, HexResult
<1>5. /\ n >= 3 /\ Len(L) = n + 6 /\ L[1] = Dollar
      /\ \A j \in 1 .. n : L[j + 1] = text[j]
      /\ L[n + 2] = Star /\ L[n + 3] = a /\ L[n + 4] = b
      /\ L[n + 5] = Cr /\ L[n + 6] = Lf
  BY <1>2, <1>3, <1>4, LineResult
<1>6. Dollar = 36 /\ Cr = 13 /\ Lf = 10 /\ Star = 42  BY DEF Dollar, Cr, Lf, Star
<1>7. i \in 1 .. n + 6  BY <1>3, <1>5
<1>8. CASE i \in 2 .. n + 1
  <2>1. PICK j \in 1 .. n : i = j + 1
    <3>1. i - 1 \in 1 .. n /\ i = (i - 1) + 1  BY <1>8
    <3> QED  BY <3>1
  <2>2. L[i] = text[j] /\ text[j] \notin {Dollar, Cr, Lf}
    BY <1>1, <1>2, <1>5, <2>1, ElementOfSeq
  <2>3. i # 1 /\ i # n + 5 /\ i # n + 6  BY <1>8
  <2> QED  BY <1>3, <1>5, <2>2, <2>3
<1>9. CASE i \in {1, n + 2, n + 3, n + 4, n + 5, n + 6}
  BY <1>3, <1>4, <1>5, <1>6, <1>9
<1> QED  BY <1>7, <1>8, <1>9

(* dispatch() takes a line that is all there: its shape is what matcher    *)
(* asks for, and its digits are those of its checksum.                     *)
LEMMA MessageResult ==
    ASSUME NEW text \in Texts, NEW got \in Seq(Char),
           Len(got) = Len(Line(text)) - 2,
           \A i \in 1 .. Len(got) : got[i] = Line(text)[i]
    PROVE  Message(got) = Decode(text)
<1>1. PICK n \in Nat : n = Len(text)  BY LineResult, LenProperties
<1>2. PICK a, b : /\ Hex(Checksum(text)) = <<a, b>> /\ IsWord(a) /\ IsWord(b)
                  /\ a = Hex(Checksum(text))[1] /\ b = Hex(Checksum(text))[2]
  <2>1. Checksum(text) \in Char  BY LineResult, ChecksumResult
  <2> QED  BY <2>1, HexResult
<1>3. /\ text \in Seq(Char) /\ n >= 3
      /\ Len(Line(text)) = n + 6 /\ Line(text)[1] = Dollar
      /\ \A j \in 1 .. n : Line(text)[j + 1] = text[j]
      /\ Line(text)[n + 2] = Star /\ Line(text)[n + 3] = a /\ Line(text)[n + 4] = b
  BY <1>1, <1>2, LineResult
<1>4. Len(got) = n + 4  BY <1>3
<1>5. got[1] = Dollar /\ got[n + 2] = Star /\ got[n + 3] = a /\ got[n + 4] = b
  BY <1>3, <1>4
<1>6. \A j \in 1 .. n : got[j + 1] = text[j]
  <2> SUFFICES ASSUME NEW j \in 1 .. n PROVE got[j + 1] = text[j]  OBVIOUS
  <2>1. j + 1 \in 1 .. n + 4  OBVIOUS
  <2> QED  BY <1>3, <1>4, <2>1
<1>7. Text(got) = text
  <2>1. Len(got) - 3 = n + 1 /\ 2 \in 1 .. n + 5 /\ n + 1 \in 1 .. n + 4  BY <1>4
  <2>2. PICK t : t = SubSeq(got, 2, n + 1)  OBVIOUS
  <2>3. t \in Seq(Char) /\ Len(t) = n /\ \A j \in 1 .. n : t[j] = got[j + 1]
    BY <1>4, <2>1, <2>2, SubSeqProperties
  <2>4. t = text  BY <1>1, <1>3, <1>6, <2>3, SeqEqual
  <2> QED  BY <2>1, <2>2, <2>4 DEF Text
<1>8. Summed(got)
  <2>1. Len(got) - 1 = n + 3 /\ Len(got) = n + 4  BY <1>4
  <2>2. \A k : HexDigit(k) \in HexDigits(k)  BY DEF HexDigit, HexDigits
  <2>3. /\ a = HexDigit(Checksum(text) \div 16)
        /\ b = HexDigit(Checksum(text) % 16)
    BY <1>2 DEF Hex
  <2> QED  BY <1>5, <1>7, <2>1, <2>2, <2>3 DEF Summed
<1>9. Shaped(got)
  <2>1. Len(got) > 4 /\ Head(got) = Dollar  BY <1>3, <1>4, <1>5
  <2>2. /\ got[Len(got) - 2] = Star
        /\ IsWord(got[Len(got) - 1]) /\ IsWord(got[Len(got)])
    <3>1. Len(got) - 2 = n + 2 /\ Len(got) - 1 = n + 3  BY <1>4
    <3> QED  BY <1>2, <1>4, <1>5, <3>1
  <2>3. PICK k \in 2 .. n - 1 : text[k] = Comma /\ \A j \in 1 .. k - 1 : IsLetter(text[j])
    BY <1>1, TextAssumption
  <2>4. k + 1 \in 3 .. Len(got) - 4 /\ k \in 1 .. n  BY <1>4
  <2>5. got[k + 1] = Comma  BY <1>6, <2>3, <2>4
  <2>6. ASSUME NEW j \in 2 .. (k + 1) - 1 PROVE IsLetter(got[j])
    <3>1. j - 1 \in 1 .. k - 1 /\ j - 1 \in 1 .. n /\ j = (j - 1) + 1  OBVIOUS
    <3> QED  BY <1>6, <2>3, <3>1
  <2> QED  BY <2>1, <2>2, <2>4, <2>5, <2>6 DEF Shaped
<1> QED  BY <1>7, <1>8, <1>9 DEF Message

-----------------------------------------------------------------------------
(* The inductive invariant.                                                *)

GpsTypeOK ==
    /\ out \in Seq(Char) /\ frame \in Seq(Char)
    /\ line \in Seq(Texts) /\ clean \in BOOLEAN

(* What is on its way is the end of the line sent last.                    *)
EndOf(text) ==
    /\ Len(out) <= Len(Line(text))
    /\ \A i \in 1 .. Len(out) :
          out[i] = Line(text)[Len(Line(text)) - Len(out) + i]

(* Once its '$' is heard, and as long as no character is lost, the reader  *)
(* has what is gone from it but for the carriage return.                   *)
StartOf(text) ==
    /\ Len(out) > 1 => Len(frame) = Len(Line(text)) - Len(out)
    /\ Len(out) = 1 => Len(frame) = Len(Line(text)) - 2
    /\ \A i \in 1 .. Len(frame) : frame[i] = Line(text)[i]

LineAgrees ==
    out # <<>> =>
        /\ line # <<>>
        /\ EndOf(line[Len(line)])
        /\ clean /\ Len(out) < Len(Line(line[Len(line)])) => StartOf(line[Len(line)])

IInv == GpsTypeOK /\ LineAgrees

LEMMA InitIInv == Init => IInv
<1> SUFFICES ASSUME Init PROVE IInv  OBVIOUS
<1>1. out = <<>> /\ frame = <<>> /\ line = <<>> /\ clean = FALSE  BY DEF Init
<1>2. GpsTypeOK  BY <1>1, EmptySeq DEF GpsTypeOK
<1>3. LineAgrees  BY <1>1 DEF LineAgrees
<1> QED  BY <1>2, <1>3 DEF IInv

LEMMA SendStep ==
    ASSUME IInv, NEW text \in Texts, Send(text)
    PROVE  IInv'
<1>1. out' = Line(text) /\ line' = Append(line, text) /\ clean' = TRUE /\ frame' = frame
  BY DEF Send
<1>2. line \in Seq(Texts) /\ frame \in Seq(Char)  BY DEF IInv, GpsTypeOK
<1>3. line' \in Seq(Texts) /\ line' # <<>> /\ line'[Len(line')] = text
  BY <1>1, <1>2, AppendProperties
<1>4. Line(text) \in Seq(Char)  BY LineResult
<1>5. GpsTypeOK'  BY <1>1, <1>2, <1>3, <1>4 DEF GpsTypeOK
<1>6. PICK w \in Nat : w = Len(Line(text))  BY <1>4, LenProperties
<1>7. \A i \in 1 .. w : w - w + i = i  OBVIOUS
<1>8. EndOf(text)'  BY <1>1, <1>6, <1>7 DEF EndOf
<1>9. ~(Len(out') < Len(Line(text)))  BY <1>1, <1>6
<1>10. LineAgrees'  BY <1>3, <1>8, <1>9 DEF LineAgrees
<1> QED  BY <1>5, <1>10 DEF IInv

(* The next character that passes is the next of the line.                 *)
LEMMA NextOfLine ==
    ASSUME IInv, out # <<>>, out' = Tail(out), NEW text \in Texts, EndOf(text)
    PROVE  LET w == Len(Line(text))  m == Len(out)
           IN  /\ w \in Nat /\ m \in 1 .. w /\ out' \in Seq(Char) /\ Len(out') = m - 1
               /\ Head(out) = Line(text)[w - m + 1]
               /\ EndOf(text)'
<1>1. out \in Seq(Char)  BY DEF IInv, GpsTypeOK
<1>2. PICK w \in Nat : w = Len(Line(text))  BY LineResult, LenProperties
<1>3. PICK m \in Nat : m = Len(out)  BY <1>1, LenProperties
<1>4. m # 0  BY <1>1, <1>3, EmptySeq
<1>5. m \in 1 .. w /\ \A i \in 1 .. m : out[i] = Line(text)[w - m + i]
  BY <1>2, <1>3, <1>4 DEF EndOf
<1>6. /\ out' \in Seq(Char) /\ Len(out') = m - 1 /\ Head(out) = out[1]
      /\ \A i \in 1 .. m - 1 : out'[i] = out[i + 1]
  BY <1>1, <1>3, HeadTailProperties
<1>7. Head(out) = Line(text)[w - m + 1]  BY <1>4, <1>5, <1>6
<1>8. ASSUME NEW i \in 1 .. m - 1 PROVE out'[i] = Line(text)[w - (m - 1) + i]
  <2>1. i + 1 \in 1 .. m /\ w - m + (i + 1) = w - (m - 1) + i  BY ONLY <1>8, m \in Nat, w \in Nat
  <2> QED  BY <1>5, <1>6, <2>1
<1>9. EndOf(text)'
  <2>1. m - 1 <= w  BY <1>5
  <2> QED  BY <1>2, <1>6, <1>8, <2>1 DEF EndOf
<1> QED  BY <1>2, <1>3, <1>5, <1>6, <1>7, <1>9

LEMMA LoseStep ==
    ASSUME IInv, LoseByte
    PROVE  IInv'
<1>1. out # <<>> /\ out' = Tail(out) /\ clean' = FALSE /\ frame' = frame /\ line' = line
  BY DEF LoseByte
<1>2. PICK text : text = line[Len(line)]  OBVIOUS
<1>3. line # <<>> /\ EndOf(text)  BY <1>1, <1>2 DEF IInv, LineAgrees
<1>4. text \in Texts  BY <1>2, <1>3, ElementOfSeq, EmptySeq DEF IInv, GpsTypeOK
<1>5. out' \in Seq(Char) /\ EndOf(text)'  BY <1>1, <1>3, <1>4, NextOfLine
<1>6. GpsTypeOK'  BY <1>1, <1>5 DEF IInv, GpsTypeOK
<1>7. LineAgrees'  BY <1>1, <1>2, <1>3, <1>5 DEF LineAgrees
<1> QED  BY <1>6, <1>7 DEF IInv

(* The reader: the line feed ends the line, and nothing else does.         *)
LEMMA ReadStep ==
    ASSUME IInv, ReadByte
    PROVE  IInv'
<1>1. /\ out # <<>> /\ out' = Tail(out) /\ clean' = clean
      /\ IF Head(out) = Lf THEN Dispatch ELSE Collect(Head(out)) /\ UNCHANGED <<box, line>>
  BY DEF ReadByte
<1>2. PICK text : text = line[Len(line)]  OBVIOUS
<1>3. line # <<>> /\ EndOf(text)  BY <1>1, <1>2 DEF IInv, LineAgrees
<1>4. text \in Texts  BY <1>2, <1>3, ElementOfSeq, EmptySeq DEF IInv, GpsTypeOK
<1>5. PICK w \in Nat, m \in Nat : w = Len(Line(text)) /\ m = Len(out)
  BY <1>1, <1>3, <1>4, NextOfLine, LineResult, LenProperties
<1>6. /\ m \in 1 .. w /\ out' \in Seq(Char) /\ Len(out') = m - 1
      /\ Head(out) = Line(text)[w - m + 1] /\ EndOf(text)'
  BY <1>1, <1>3, <1>4, <1>5, NextOfLine
<1>7. w - m + 1 \in 1 .. w  BY ONLY <1>6, w \in Nat, m \in Nat
<1>8. PICK ch : ch = Head(out)  OBVIOUS
<1>9. /\ ch = Line(text)[w - m + 1] /\ ch \in Char
      /\ ch = Dollar <=> w - m + 1 = 1
      /\ ch = Cr <=> w - m + 1 = w - 1
      /\ ch = Lf <=> w - m + 1 = w
  <2>1. PICK p : p = w - m + 1  OBVIOUS
  <2>2. p \in 1 .. Len(Line(text)) /\ ch = Line(text)[p]  BY ONLY <1>5, <1>6, <1>7, <1>8, <2>1
  <2>3. ch \in Char
    <3>1. Line(text) \in Seq(Char)  BY <1>4, LineResult
    <3> QED  BY ONLY <2>2, <3>1, ElementOfSeq
  <2>4. /\ ch = Dollar <=> p = 1
        /\ ch = Cr <=> p = Len(Line(text)) - 1
        /\ ch = Lf <=> p = Len(Line(text))
    BY ONLY <1>4, <2>2, LineMarks
  <2> QED  BY ONLY <1>5, <2>1, <2>2, <2>3, <2>4
<1>10. w >= 9  BY <1>4, <1>5, LineResult
<1>11. frame \in Seq(Char) /\ line \in Seq(Texts) /\ clean \in BOOLEAN
  BY DEF IInv, GpsTypeOK
<1>12. CASE ch = Lf
  <2>1. frame' = <<>> /\ line' = <<>>  BY <1>1, <1>8, <1>12 DEF Dispatch
  <2>2. m = 1  BY ONLY <1>9, <1>12, <1>6, w \in Nat, m \in Nat
  <2>3. out' = <<>>  BY <1>6, <2>2, EmptySeq
  <2>4. GpsTypeOK'  BY <1>1, <1>6, <1>11, <2>1 DEF GpsTypeOK
  <2> QED  BY <2>3, <2>4 DEF IInv, LineAgrees
<1>13. CASE ch # Lf
  <2>1. /\ line' = line
        /\ frame' = IF ch = Dollar THEN <<Dollar>>
                    ELSE IF ch = Cr THEN frame ELSE Append(frame, ch)
    BY <1>1, <1>8, <1>13 DEF Collect
  <2>2. m # 1  BY ONLY <1>9, <1>13, w \in Nat
  <2>3. PICK n \in Nat : n = Len(frame)  BY <1>11, LenProperties
  <2>4. frame' \in Seq(Char)
    <3>1. Dollar \in Char  BY DEF Dollar, Char
    <3> QED  BY <1>9, <1>11, <2>1, <3>1, AppendProperties
  <2>5. GpsTypeOK'  BY <1>1, <1>6, <1>11, <2>1, <2>4 DEF GpsTypeOK
  <2>6. clean => StartOf(text)'
    <3> SUFFICES ASSUME clean PROVE StartOf(text)'  OBVIOUS
    <3>1. CASE m = w
      <4>1. ch = Dollar /\ frame' = <<Dollar>>  BY <1>9, <2>1, <3>1
      <4>2. Len(frame') = 1 /\ frame'[1] = Line(text)[1]  BY <1>9, <3>1, <4>1
      <4>3. Len(out') # 1 /\ Len(out') = w - 1 /\ w - (w - 1) = 1  BY <1>6, <1>10, <3>1
      <4> QED  BY <1>5, <4>2, <4>3 DEF StartOf
    <3>2. CASE m # w
      <4>1. StartOf(text)  BY <1>2, <1>3, <1>1, <1>5, <1>6, <3>2 DEF IInv, LineAgrees
      <4>2. n = w - m /\ \A i \in 1 .. n : frame[i] = Line(text)[i]
        BY <1>5, <1>6, <2>2, <2>3, <4>1 DEF StartOf
      <4>3. ch # Dollar  BY ONLY <1>9, <3>2, w \in Nat, m \in Nat
      <4>4. CASE m = 2
        <5>1. ch = Cr  BY ONLY <1>9, <4>4, w \in Nat
        <5>2. frame' = frame  BY <2>1, <4>3, <5>1
        <5>3. Len(out') = 1 /\ ~(1 > 1) /\ n = w - 2  BY <1>6, <4>2, <4>4
        <5> QED  BY <1>5, <2>3, <4>2, <5>2, <5>3 DEF StartOf
      <4>5. CASE m # 2
        <5>1. ch # Cr  BY ONLY <1>9, <4>5, w \in Nat, m \in Nat
        <5>2. frame' = Append(frame, ch)  BY <2>1, <4>3, <5>1
        <5>3. /\ Len(frame') = n + 1 /\ frame'[n + 1] = ch
              /\ \A i \in 1 .. n : frame'[i] = frame[i]
          BY <1>9, <1>11, <2>3, <5>2, AppendProperties
        <5>4. n + 1 = w - m + 1 /\ n + 1 = w - (m - 1) /\ m - 1 # 1
          BY ONLY <4>2, <4>5, w \in Nat, m \in Nat
        <5>5. ASSUME NEW i \in 1 .. n + 1 PROVE frame'[i] = Line(text)[i]
          <6>1. CASE i = n + 1  BY <1>9, <5>3, <5>4, <6>1
          <6>2. CASE i # n + 1  BY <4>2, <5>3, <6>2
          <6> QED  BY <6>1, <6>2
        <5> QED  BY <1>5, <1>6, <5>3, <5>4, <5>5 DEF StartOf
      <4> QED  BY <4>4, <4>5
    <3> QED  BY <3>1, <3>2
  <2>7. LineAgrees'  BY <1>1, <1>2, <1>3, <1>6, <2>1, <2>6 DEF LineAgrees
  <2> QED  BY <2>5, <2>7 DEF IInv
<1> QED  BY <1>12, <1>13

LEMMA Invariance == Spec => []IInv
<1>1. IInv /\ [Next]_vars => IInv'
  <2> SUFFICES ASSUME IInv, [Next]_vars PROVE IInv'  OBVIOUS
  <2>1. ASSUME UNCHANGED <<out, frame, line, clean>> PROVE IInv'
    BY <2>1 DEF IInv, GpsTypeOK, LineAgrees, EndOf, StartOf
  <2>2. CASE \E text \in Texts : Send(text)  BY <2>2, SendStep
  <2>3. CASE LoseByte  BY <2>3, LoseStep
  <2>4. CASE ReadByte  BY <2>4, ReadStep
  <2>5. CASE Take  BY <2>1, <2>5 DEF Take
  <2>6. CASE UNCHANGED vars  BY <2>1, <2>6 DEF vars
  <2> QED  BY <2>2, <2>3, <2>4, <2>5, <2>6 DEF Next
<1> QED  BY InitIInv, <1>1, PTL DEF Spec

(* What is handed over at the end of a line of which nothing was lost.     *)
LEMMA WholeHeard ==
    ASSUME IInv, ReadByte, Len(out) = 1, clean, Head(out) = Lf
    PROVE  line # <<>> /\ line[Len(line)] \in Texts /\ box' = Decode(line[Len(line)])
<1>1. PICK text : text = line[Len(line)]  OBVIOUS
<1>2. out # <<>> /\ box' = Message(frame)  BY DEF ReadByte, Dispatch
<1>3. line # <<>> /\ (1 < Len(Line(text)) => StartOf(text))
  BY <1>1, <1>2 DEF IInv, LineAgrees
<1>4. text \in Texts  BY <1>1, <1>3, ElementOfSeq, EmptySeq DEF IInv, GpsTypeOK
<1>5. 1 < Len(Line(text))  BY <1>4, LineResult
<1>6. /\ frame \in Seq(Char) /\ Len(frame) = Len(Line(text)) - 2
      /\ \A i \in 1 .. Len(frame) : frame[i] = Line(text)[i]
  BY <1>3, <1>5 DEF StartOf, IInv, GpsTypeOK
<1> QED  BY <1>1, <1>2, <1>3, <1>4, <1>6, MessageResult

(* A sentence of which every character is heard is handed to the driver,   *)
(* if it has all its fields, whatever was lost of the lines before it.     *)
THEOREM SentencesRecover == Spec => Recovers
<1>1. ASSUME IInv, ReadByte, Len(out) = 1, clean, Head(out) = Lf
      PROVE  box' = Decode(line[Len(line)])
  BY <1>1, WholeHeard
<1> QED  BY Invariance, <1>1, PTL DEF Spec, Recovers

-----------------------------------------------------------------------------
(* The promise of the line.                                                *)

LEMMA OnlyTheEnd ==
    ASSUME IInv, ReadByte, Head(out) = Lf
    PROVE  Len(out) = 1
<1>1. out # <<>> /\ out' = Tail(out)  BY DEF ReadByte
<1>2. PICK text : text = line[Len(line)]  OBVIOUS
<1>3. line # <<>> /\ EndOf(text)  BY <1>1, <1>2 DEF IInv, LineAgrees
<1>4. text \in Texts  BY <1>2, <1>3, ElementOfSeq, EmptySeq DEF IInv, GpsTypeOK
<1>5. PICK w \in Nat, m \in Nat : w = Len(Line(text)) /\ m = Len(out)
  BY <1>1, <1>3, <1>4, NextOfLine, LineResult, LenProperties
<1>6. m \in 1 .. w /\ Line(text)[w - m + 1] = Lf  BY <1>1, <1>3, <1>4, <1>5, NextOfLine
<1>7. w - m + 1 \in 1 .. w  BY ONLY <1>6, w \in Nat, m \in Nat
<1>8. w - m + 1 = w  BY <1>4, <1>5, <1>6, <1>7, LineMarks
<1>9. m = 1  BY ONLY <1>8, w \in Nat, m \in Nat
<1> QED  BY <1>5, <1>9

(* A line that lost a character is dispatched, and passes every check.     *)
Undetected == ReadByte /\ Head(out) = Lf /\ ~clean /\ box' # None

(* But for such a line the reader does what LossyLink promises: sentences  *)
(* come out as they went in, whole, once and in order.                     *)
THEOREM ImplementsButForDamage ==
    Spec => Link!Init /\ [][Undetected \/ [Link!Next]_(Link!vars)]_vars
<1>1. Init => Link!Init  BY DEF Init, Link!Init
<1>2. ASSUME IInv, Next PROVE Undetected \/ [Link!Next]_(Link!vars)
  <2>1. ASSUME NEW text \in Texts, Send(text) PROVE Link!Next
    BY <2>1 DEF Send, Link!Begin, Link!Next
  <2>2. CASE LoseByte  BY <2>2 DEF LoseByte, Link!vars
  <2>3. CASE ReadByte /\ Head(out) # Lf  BY <2>3 DEF ReadByte, Link!vars
  <2>4. CASE ReadByte /\ Head(out) = Lf
    <3>1. box = None /\ line' = <<>> /\ last' = last  BY <2>4 DEF ReadByte, Dispatch
    <3>2. line \in Seq(Texts)  BY <1>2 DEF IInv, GpsTypeOK
    <3>3. PICK n \in Nat : n = Len(line)  BY <3>2, LenProperties
    <3>4. SubSeq(line, n + 1, n) = <<>>  BY <3>2, <3>3, SubSeqProperties, EmptySeq
    <3>5. CASE box' = None
      <4>1. 1 <= n + 1 /\ n + 1 \in 0 + 1 .. Len(line) + 1  BY <3>3
      <4>2. Link!Leaves(0)  BY <3>1, <3>3, <3>4, <4>1 DEF Link!Leaves
      <4> QED  BY <3>1, <3>5, <4>2 DEF Link!Lose, Link!Next
    <3>6. CASE box' # None /\ ~clean  BY <2>4, <3>6 DEF Undetected
    <3>7. CASE box' # None /\ clean
      <4>1. line # <<>> /\ line[n] \in Texts /\ box' = Decode(line[n])
        BY <1>2, <2>4, <3>3, <3>7, OnlyTheEnd, WholeHeard
      <4>2. n \in 1 .. Len(line) /\ n + 1 \in n + 1 .. Len(line) + 1
        BY <3>2, <3>3, <4>1, EmptySeq
      <4>3. Link!Leaves(n)  BY <3>1, <3>3, <3>4, <4>2 DEF Link!Leaves
      <4>4. box' \in Readings(line[n])  BY <3>7, <4>1 DEF Readings, Readable
      <4> QED  BY <3>1, <4>2, <4>3, <4>4 DEF Link!Arrive, Link!Next
    <3> QED  BY <3>5, <3>6, <3>7
  <2>5. CASE Take  BY <2>5 DEF Take, Link!Take, Link!Taken, Link!Next
  <2> QED  BY <1>2, <2>1, <2>2, <2>3, <2>4, <2>5 DEF Next
<1>3. IInv /\ [Next]_vars => [Undetected \/ [Link!Next]_(Link!vars)]_vars
  BY <1>2 DEF vars
<1> QED  BY Invariance, <1>1, <1>3, PTL DEF Spec
=============================================================================
