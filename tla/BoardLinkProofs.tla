-------------------------- MODULE BoardLinkProofs --------------------------
(***************************************************************************)
(* What BoardLink.tla guarantees for every set of payloads, every buffer   *)
(* that holds them and any number of lost bytes: the buffers keep within   *)
(* their arrays, a filled buffer is never left with the interrupt off, and *)
(* both directions recover from a loss.                                    *)
(***************************************************************************)
EXTENDS BoardLink, Arithmetic
LOCAL INSTANCE SequenceTheorems

-----------------------------------------------------------------------------
(* Bytes and frames.                                                       *)

LEMMA FlipResult ==
    ASSUME NEW byte \in 0 .. 255
    PROVE  /\ Flip(byte) \in 0 .. 255
           /\ Special(byte) => Flip(Flip(byte)) = byte /\ ~Special(Flip(byte))
<1>1. CASE Special(byte)
  <2>1. byte \in {10, 94}  BY <1>1 DEF Special, Mark, Escape
  <2>2. Flip(10) = 42 /\ Flip(42) = 10 /\ Flip(94) = 126 /\ Flip(126) = 94  BY DEF Flip
  <2> QED  BY <2>1, <2>2 DEF Special, Mark, Escape
<1>2. CASE ~Special(byte)  BY <1>2 DEF Flip
<1> QED  BY <1>1, <1>2

LEMMA SealedResult ==
    ASSUME NEW f \in Seq(0 .. 255)
    PROVE  /\ Sealed(f) \in Seq(0 .. 255)
           /\ Len(Sealed(f)) = Len(f) + 1
           /\ Payload(Sealed(f)) = f
<1>1. Checksum(f) \in 0 .. 255  BY ExclusiveOrResult DEF Checksum
<1>2. Append(f, Checksum(f)) \in Seq(0 .. 255)  BY <1>1
<1>3. /\ Len(Append(f, Checksum(f))) = Len(f) + 1
      /\ \A i \in 1 .. Len(f) : Append(f, Checksum(f))[i] = f[i]
  OBVIOUS
<1>4. SubSeq(Append(f, Checksum(f)), 1, Len(f)) = f  BY <1>2, <1>3
<1> QED  BY <1>2, <1>3, <1>4 DEF Sealed, Payload

(* A report has at most 19 bytes, and at least its code.                   *)
LEMMA FrameLength ==
    ASSUME NEW f \in Frames
    PROVE  f \in Seq(0 .. 255) /\ Len(f) \in 1 .. 19 /\ Len(f) < MaxFrame
<1>1. f \in Seq(0 .. 255) /\ Valid(Sealed(f), Reports) /\ Len(f) < MaxFrame
  BY FrameAssumption
<1>2. f[1] \in DOMAIN Reports /\ Len(f) = Reports[f[1]]
  BY <1>1, SealedResult DEF Valid
<1>3. \A code \in DOMAIN Reports : Reports[code] \in 1 .. 19  BY DEF Reports
<1> QED  BY <1>1, <1>2, <1>3

-----------------------------------------------------------------------------
(* Reports, on their way up.                                               *)

(* The stores of send() and the interrupt: a buffer is filled before it is *)
(* drained, and with something to send the interrupt is on.                *)
BufferAgrees ==
    /\ todo # {} => "enable" \in todo /\ length + 1 <= Len(tx)
    /\ tx_end <= Len(tx)
    /\ length = 0 => todo = {} /\ tx_at > tx_end
    /\ length > 0 /\ "tx_end" \notin todo => tx_end = length + 1
    /\ udrie /\ (todo \ {"enable"}) # {} => line # <<>>
    /\ todo = {} /\ tx_at <= tx_end => udrie

(* While a frame is sent of which no byte is lost, the interrupt waits for *)
(* the stores, and an escape is behind the reader when the last byte is.   *)
CleanAgrees ==
    clean => /\ todo # {} => ~udrie
             /\ todo # {} /\ "tx_at" \notin todo => tx_at = 0
             /\ todo = {} /\ xor /\ tx_at > 0 => tx_at < tx_end

Idle == todo = {} /\ tx_at > tx_end
Between == todo # {} \/ Idle

(* What the reader has of frame f, and what is left in the buffer.         *)
Halfway(f) ==
    /\ length = Len(f)
    /\ todo # {} => \A i \in 1 .. length + 1 : tx[i] = Sealed(f)[i]
    /\ todo = {} =>
          /\ Len(got) = tx_at
          /\ \A i \in 1 .. tx_at : got[i] = Sealed(f)[i]
          /\ \A i \in tx_at + 1 .. tx_end :
                tx[i] = IF xor /\ i = tx_at + 1 THEN Flip(Sealed(f)[i]) ELSE Sealed(f)[i]
          /\ xor => tx_at < tx_end /\ Special(Sealed(f)[tx_at + 1])

(* After a frame that lost no byte the reader starts afresh, and as long   *)
(* as the next one loses none it has what was sent.                        *)
IntactAgrees ==
    intact = 1 => /\ Between => ~udrie /\ got = <<>> /\ ~xor
                  /\ todo # {} => clean
                  /\ clean /\ ~Idle => line # <<>> /\ Halfway(line[Len(line)])

UpInv == TypeOK /\ BufferAgrees /\ CleanAgrees /\ IntactAgrees

LEMMA UpInit == Init => UpInv
<1> SUFFICES ASSUME Init PROVE UpInv  OBVIOUS
<1>1. /\ todo = {} /\ length = 0 /\ tx_at = 1 /\ tx_end = 0
      /\ udrie = TRUE /\ xor = FALSE /\ lost = 0 /\ clean = FALSE /\ intact = 0
      /\ tx = <<>> /\ got = <<>> /\ line = <<>> /\ last.frame = <<>>
  BY DEF Init, None
<1>2. \A S : <<>> \in Seq(S)  OBVIOUS
<1>3. Len(tx) = 0 /\ Len(got) = 0  BY <1>1
<1>4. TypeOK
  <2>1. udrie \in BOOLEAN /\ xor \in BOOLEAN /\ clean \in BOOLEAN  BY <1>1
  <2>2. tx \in Seq(0 .. 255) /\ got \in Seq(0 .. 255) /\ line \in Seq(Frames)
        /\ last.frame \in Seq(0 .. 255)
    BY <1>1, <1>2
  <2>3. Len(got) <= MaxFrame /\ lost \in 0 .. MaxLost  BY <1>1, <1>3, FrameAssumption
  <2> QED  BY <1>1, <2>1, <2>2, <2>3 DEF TypeOK
<1>5. BufferAgrees /\ CleanAgrees /\ IntactAgrees
  BY <1>1, <1>3 DEF BufferAgrees, CleanAgrees, IntactAgrees
<1> QED  BY <1>4, <1>5 DEF UpInv

LEMMA FillKeeps ==
    ASSUME UpInv, NEW f \in Frames, Fill(f)
    PROVE  UpInv'
<1> DEFINE rest == SubSeq(tx, Len(f) + 2, Len(tx))
<1>1. TypeOK /\ BufferAgrees /\ CleanAgrees /\ IntactAgrees  BY DEF UpInv
<1>2. /\ todo = {} /\ tx_at > tx_end /\ length' = Len(f) /\ tx' = Sealed(f) \o rest
      /\ todo' = {"tx_end", "tx_at", "enable"} /\ line' = Append(line, f)
      /\ clean' = ~udrie
      /\ UNCHANGED <<tx_at, tx_end, udrie, got, xor, last, lost, intact>>
  BY DEF Fill, reader
<1>3. f \in Seq(0 .. 255) /\ Len(f) \in 1 .. 19  BY FrameLength
<1>4. Sealed(f) \in Seq(0 .. 255) /\ Len(Sealed(f)) = Len(f) + 1  BY <1>3, SealedResult
<1>5. tx \in Seq(0 .. 255) /\ Len(tx) \in Nat /\ tx_end \in 0 .. 22  BY <1>1 DEF TypeOK
<1>6. /\ rest \in Seq(0 .. 255)
      /\ Len(rest) = IF Len(f) + 2 <= Len(tx) THEN Len(tx) - Len(f) - 1 ELSE 0
  <2>1. \A i \in Len(f) + 2 .. Len(tx) : tx[i] \in 0 .. 255
    <3>1. \A i \in Len(f) + 2 .. Len(tx) : i \in 1 .. Len(tx)  BY <1>3, <1>5
    <3> QED  BY <1>5, <3>1, ElementOfSeq
  <2>2. Len(f) + 2 \in 1 .. Len(tx) + 1 \/ Len(tx) < Len(f) + 2  BY <1>3, <1>5
  <2> QED  BY <1>3, <1>5, <2>1, SubSeqProperties
<1> HIDE DEF rest
<1>7. /\ tx' \in Seq(0 .. 255) /\ Len(tx') >= Len(f) + 1 /\ Len(tx') >= Len(tx)
      /\ \A i \in 1 .. Len(f) + 1 : tx'[i] = Sealed(f)[i]
  <2> DEFINE both == Sealed(f) \o rest
  <2>1. /\ both \in Seq(0 .. 255)
        /\ Len(both) = Len(Sealed(f)) + Len(rest)
        /\ \A i \in 1 .. Len(Sealed(f)) + Len(rest) :
              both[i] = IF i <= Len(Sealed(f)) THEN Sealed(f)[i]
                        ELSE rest[i - Len(Sealed(f))]
    BY ONLY <1>4, <1>6, ConcatProperties
  <2> HIDE DEF both
  <2>2. tx' = both  BY <1>2 DEF both
  <2>3. Len(rest) \in Nat /\ Len(Sealed(f)) \in Nat  BY <1>4, <1>6
  <2>4. ASSUME NEW i \in 1 .. Len(Sealed(f))
        PROVE  both[i] = Sealed(f)[i]
    <3>1. i \in 1 .. Len(Sealed(f)) + Len(rest) /\ i <= Len(Sealed(f))  BY <2>3
    <3> QED  BY <2>1, <3>1
  <2>5. Len(both) >= Len(Sealed(f)) /\ Len(both) >= Len(tx)
    <3>1. Len(rest) >= Len(tx) - Len(f) - 1  BY <1>3, <1>5, <1>6
    <3>2. Len(f) \in Nat  BY <1>3
    <3>3. Len(both) = Len(f) + 1 + Len(rest)  BY <1>4, <2>1
    <3> QED  BY ONLY <1>4, <1>5, <2>3, <3>1, <3>2, <3>3
  <2> QED  BY ONLY <1>4, <2>1, <2>2, <2>4, <2>5
<1>8. line' \in Seq(Frames) /\ line' # <<>> /\ line'[Len(line')] = f
  BY <1>1, <1>2 DEF TypeOK
<1>9. TypeOK'
  <2>1. length' \in 0 .. 21
    <3>1. length' = Len(f)  BY <1>2
    <3>2. Len(f) \in 1 .. 19  BY <1>3
    <3>3. \A n \in 1 .. 19 : n \in 0 .. 21  OBVIOUS
    <3> QED  BY ONLY <3>1, <3>2, <3>3
  <2>2. clean' \in BOOLEAN  BY <1>2
  <2>3. todo' \subseteq {"tx_end", "tx_at", "enable"}  BY <1>2
  <2> QED  BY <1>1, <1>2, <1>7, <1>8, <2>1, <2>2, <2>3 DEF TypeOK
<1>10. BufferAgrees'
  <2>1. tx_end' <= Len(tx')  BY <1>1, <1>2, <1>5, <1>7 DEF BufferAgrees
  <2>0. length' = Len(f)  BY <1>2
  <2>2. length' > 0 /\ length' + 1 <= Len(tx')  BY ONLY <2>0, <1>3, <1>7
  <2>3. "tx_end" \in todo' /\ "enable" \in todo' /\ todo' # {}  BY <1>2
  <2> QED  BY <1>3, <1>2, <1>8, <2>1, <2>2, <2>3 DEF BufferAgrees
<1>11. CleanAgrees'  BY <1>1, <1>2 DEF CleanAgrees
<1>12. IntactAgrees'
  <2> SUFFICES ASSUME intact = 1 PROVE IntactAgrees'  BY <1>2 DEF IntactAgrees
  <2>1. ~udrie /\ got = <<>> /\ ~xor  BY <1>1, <1>2 DEF IntactAgrees, Between, Idle
  <2>2. Halfway(f)'  BY <1>2, <1>7 DEF Halfway
  <2> QED  BY <1>2, <1>8, <2>1, <2>2 DEF IntactAgrees, Idle, Between, Halfway
<1> QED  BY <1>9, <1>10, <1>11, <1>12 DEF UpInv

LEMMA StoresKeep ==
    ASSUME UpInv, Stores
    PROVE  UpInv'
<1>1. TypeOK /\ BufferAgrees /\ CleanAgrees /\ IntactAgrees  BY DEF UpInv
<1>2. UNCHANGED <<length, tx, got, xor, last, lost, line, clean, intact>>
  BY DEF Stores, StoreEnd, StoreAt, EnableTx, reader
<1>3. todo # {}  BY DEF Stores, StoreEnd, StoreAt, EnableTx
<1>4. /\ "enable" \in todo /\ length + 1 <= Len(tx) /\ length \in 0 .. 21
      /\ length > 0 /\ tx_end \in 0 .. 22
  BY <1>1, <1>3 DEF TypeOK, BufferAgrees
<1>5. CASE StoreEnd
  <2>1. /\ todo' = todo \ {"tx_end"} /\ tx_end' = length + 1
        /\ UNCHANGED <<tx_at, udrie>>
    BY <1>5 DEF StoreEnd
  <2>2. length + 1 \in 0 .. 22  BY <1>4
  <2>3. "enable" \in todo' /\ todo' # {}  BY <1>4, <2>1
  <2>4. TypeOK'  BY <1>1, <1>2, <2>1, <2>2 DEF TypeOK
  <2>5. BufferAgrees'  BY <1>1, <1>2, <1>4, <2>1, <2>3 DEF BufferAgrees
  <2>6. CleanAgrees'  BY <1>1, <1>2, <1>3, <2>1, <2>3 DEF CleanAgrees
  <2>7. IntactAgrees'
    BY <1>1, <1>2, <1>3, <2>1, <2>3 DEF IntactAgrees, Between, Idle, Halfway
  <2> QED  BY <2>4, <2>5, <2>6, <2>7 DEF UpInv
<1>6. CASE StoreAt
  <2>1. /\ todo' = todo \ {"tx_at"} /\ tx_at' = 0
        /\ UNCHANGED <<tx_end, udrie>>
    BY <1>6 DEF StoreAt
  <2>3. "enable" \in todo' /\ todo' # {}  BY <1>4, <2>1
  <2>4. TypeOK'  BY <1>1, <1>2, <2>1 DEF TypeOK
  <2>5. BufferAgrees'  BY <1>1, <1>2, <1>4, <2>1, <2>3 DEF BufferAgrees
  <2>6. CleanAgrees'  BY <1>1, <1>2, <1>3, <2>1, <2>3 DEF CleanAgrees
  <2>7. IntactAgrees'
    BY <1>1, <1>2, <1>3, <2>1, <2>3 DEF IntactAgrees, Between, Idle, Halfway
  <2> QED  BY <2>4, <2>5, <2>6, <2>7 DEF UpInv
<1>7. CASE EnableTx
  <2>1. /\ todo = {"enable"} /\ todo' = {} /\ udrie' = TRUE
        /\ UNCHANGED <<tx_at, tx_end>>
    BY <1>7 DEF EnableTx
  <2>2. tx_end = length + 1  BY <1>1, <1>4, <2>1 DEF BufferAgrees
  <2>3. clean => tx_at = 0  BY <1>1, <2>1 DEF CleanAgrees
  <2>4. TypeOK'  BY <1>1, <1>2, <2>1 DEF TypeOK
  <2>5. BufferAgrees'  BY <1>1, <1>2, <1>4, <2>1, <2>2 DEF BufferAgrees
  <2>6. CleanAgrees'  BY <1>1, <1>2, <2>1, <2>3 DEF CleanAgrees
  <2>7. IntactAgrees'
    <3> SUFFICES ASSUME intact = 1 PROVE IntactAgrees'  BY <1>2 DEF IntactAgrees
    <3>1. PICK f : f = line[Len(line)]  OBVIOUS
    <3>2. got = <<>> /\ ~xor /\ clean /\ line # <<>> /\ Halfway(f)
      BY <1>1, <1>3, <3>1 DEF IntactAgrees, Between, Idle
    <3>3. ~Between'  BY <1>2, <1>4, <2>1, <2>2, <2>3, <3>2 DEF Between, Idle
    <3>4. length = Len(f) /\ \A i \in 1 .. length + 1 : tx[i] = Sealed(f)[i]
      BY <1>3, <3>2 DEF Halfway
    <3>5. tx_at' = 0 /\ Len(got') = 0 /\ tx_end' = length + 1 /\ ~xor'
      BY <1>2, <2>1, <2>2, <2>3, <3>2
    <3>6. Halfway(f)'  BY <1>2, <2>1, <3>4, <3>5 DEF Halfway
    <3> QED  BY <1>2, <2>1, <3>1, <3>2, <3>3, <3>6 DEF IntactAgrees
  <2> QED  BY <2>4, <2>5, <2>6, <2>7 DEF UpInv
<1> QED  BY <1>5, <1>6, <1>7 DEF Stores

(* With something to send, the interrupt has a buffer that was once filled.*)
LEMMA SendingAgrees ==
    ASSUME UpInv, udrie, tx_at <= tx_end
    PROVE  /\ length \in 1 .. 21 /\ tx_end <= Len(tx) /\ tx_at \in 0 .. 22
           /\ clean \/ intact = 1 => todo = {}
           /\ todo = {} => tx_end = length + 1
           /\ ~Whole => line # <<>>
<1>1. TypeOK /\ BufferAgrees /\ CleanAgrees /\ IntactAgrees  BY DEF UpInv
<1>2. /\ length \in 0 .. 21 /\ tx_end \in 0 .. 22 /\ tx_at \in 0 .. 23
      /\ todo \subseteq {"tx_end", "tx_at", "enable"}
  BY <1>1 DEF TypeOK
<1>3. length # 0  BY <1>1, <1>2 DEF BufferAgrees
<1>4. clean \/ intact = 1 => todo = {}
  BY <1>1 DEF CleanAgrees, IntactAgrees, Between
<1>5. "tx_end" \notin todo => tx_end = length + 1  BY <1>1, <1>2, <1>3 DEF BufferAgrees
<1>6. ~Whole => "tx_at" \in todo \/ "tx_end" \in todo  BY <1>2, <1>5 DEF Whole
<1>7. ~Whole => line # <<>>  BY <1>1, <1>6 DEF BufferAgrees
<1> QED  BY <1>1, <1>2, <1>3, <1>4, <1>5, <1>7 DEF BufferAgrees

(* The payload of what the reader has is a sequence of bytes.              *)
LEMMA PayloadBytes ==
    ASSUME NEW frame \in Seq(0 .. 255)
    PROVE  Payload(frame) \in Seq(0 .. 255)
<1>1. \A i \in 1 .. Len(frame) - 1 : frame[i] \in 0 .. 255
  <2>1. \A i \in 1 .. Len(frame) - 1 : i \in 1 .. Len(frame)  OBVIOUS
  <2> QED  BY <2>1, ElementOfSeq
<1>2. Len(frame) \in Nat  OBVIOUS
<1>3. Len(frame) - 1 \in Int  BY <1>2
<1> QED  BY <1>1, <1>3, SubSeqProperties DEF Payload

(* The reader keeps within its frame.                                      *)
LEMMA ReaderTypes ==
    ASSUME TypeOK, NEW byte \in 0 .. 255, Hear(byte)
    PROVE  /\ got' \in Seq(0 .. 255) /\ Len(got') <= MaxFrame
           /\ xor' \in BOOLEAN /\ last'.frame \in Seq(0 .. 255)
<1>1. /\ got \in Seq(0 .. 255) /\ Len(got) <= MaxFrame /\ xor \in BOOLEAN
      /\ last.frame \in Seq(0 .. 255) /\ MaxFrame \in Nat
  BY FrameAssumption DEF TypeOK
<1>2. Len(<<>>) = 0 /\ <<>> \in Seq(0 .. 255)  OBVIOUS
<1>3. CASE byte = Mark
  <2>1. HearMark  BY <1>3 DEF Hear, Mark, Escape
  <2>2. Payload(got) \in Seq(0 .. 255)  BY <1>1, PayloadBytes
  <2> QED  BY <1>1, <1>2, <2>1, <2>2 DEF HearMark
<1>4. CASE byte = Escape
  <2>1. xor' = TRUE /\ UNCHANGED <<got, last>>  BY <1>4 DEF Hear, Mark, Escape
  <2> QED  BY <1>1, <2>1
<1>5. CASE byte # Mark /\ byte # Escape
  <2>1. HearByte(byte)  BY <1>5 DEF Hear
  <2> DEFINE heard == IF xor THEN Flip(byte) ELSE byte
  <2>2. heard \in 0 .. 255  BY FlipResult
  <2> HIDE DEF heard
  <2>3. xor' = FALSE /\ UNCHANGED last
        /\ got' = IF Len(got) = MaxFrame THEN <<>> ELSE Append(got, heard)
    BY <2>1 DEF HearByte, heard
  <2>4. Append(got, heard) \in Seq(0 .. 255) /\ Len(Append(got, heard)) = Len(got) + 1
    BY <1>1, <2>2
  <2>5. got' \in Seq(0 .. 255) /\ Len(got') <= MaxFrame
    <3>1. CASE Len(got) = MaxFrame  BY <1>1, <1>2, <2>3, <3>1
    <3>2. CASE Len(got) # MaxFrame
      <4>1. Len(got) \in Nat  BY <1>1
      <4>2. Len(got) + 1 <= MaxFrame  BY <1>1, <3>2, <4>1
      <4>3. got' = Append(got, heard)  BY <2>3, <3>2
      <4> QED  BY <2>4, <4>2, <4>3
    <3> QED  BY <3>1, <3>2
  <2> QED  BY <1>1, <2>3, <2>5
<1> QED  BY <1>3, <1>4, <1>5

LEMMA MarkKeeps ==
    ASSUME UpInv, PutMark
    PROVE  UpInv'
<1>1. TypeOK /\ BufferAgrees /\ CleanAgrees /\ IntactAgrees  BY DEF UpInv
<1>2. /\ udrie /\ udrie' = FALSE /\ tx_at = tx_end /\ tx_at' = tx_at + 1
      /\ intact' = IF ~Whole THEN intact ELSE IF clean' THEN 1 ELSE 0
      /\ UNCHANGED <<todo, length, tx, tx_end>>
  BY DEF PutMark
<1>3. tx_at \in 0 .. 23 /\ tx_end \in 0 .. 22 /\ length \in 0 .. 21  BY <1>1 DEF TypeOK
<1>4. /\ length \in 1 .. 21 /\ tx_end <= Len(tx) /\ tx_at \in 0 .. 22
      /\ clean \/ intact = 1 => todo = {}
      /\ todo = {} => tx_end = length + 1
      /\ ~Whole => line # <<>>
  BY <1>2, <1>3, SendingAgrees
<1>5. (todo = {}) => Whole  BY <1>3, <1>4 DEF Whole
<1>6. /\ got' \in Seq(0 .. 255) /\ Len(got') <= MaxFrame
      /\ xor' \in BOOLEAN /\ last'.frame \in Seq(0 .. 255)
      /\ lost' \in 0 .. MaxLost /\ clean' \in BOOLEAN
      /\ clean' => clean /\ HearMark
      /\ line' \in Seq(Frames)
  <2>1. CASE Put(Mark) /\ line' = IF Whole THEN <<>> ELSE <<line[Len(line)]>>
    <3>1. HearMark  BY <2>1 DEF Put, Hear, Mark, Escape
    <3>2. Hear(Mark) /\ UNCHANGED <<lost, clean>>  BY <2>1 DEF Put
    <3>3. line' \in Seq(Frames)
      <4>1. ~Whole => line[Len(line)] \in Frames  BY <1>1, <1>4 DEF TypeOK
      <4>2. \A f \in Frames : <<f>> \in Seq(Frames)  OBVIOUS
      <4>3. <<>> \in Seq(Frames)  OBVIOUS
      <4> QED  BY <2>1, <4>1, <4>2, <4>3
    <3>4. Mark \in 0 .. 255  BY DEF Mark
    <3>5. /\ got' \in Seq(0 .. 255) /\ Len(got') <= MaxFrame
          /\ xor' \in BOOLEAN /\ last'.frame \in Seq(0 .. 255)
      BY <1>1, <3>2, <3>4, ReaderTypes
    <3> QED  BY <1>1, <3>1, <3>2, <3>3, <3>5 DEF TypeOK
  <2>2. CASE LoseByte /\ UNCHANGED line
    <3>1. lost < MaxLost /\ lost' = lost + 1 /\ clean' = FALSE /\ UNCHANGED <<got, xor, last>>
      BY <2>2 DEF LoseByte, reader
    <3>2. lost' \in 0 .. MaxLost  BY <1>1, <3>1, FrameAssumption DEF TypeOK
    <3> QED  BY <1>1, <2>2, <3>1, <3>2 DEF TypeOK
  <2> QED  BY <2>1, <2>2 DEF PutMark
<1>7. TypeOK'
  <2>1. tx_at' \in 0 .. 23  BY <1>2, <1>4
  <2>2. intact' \in 0 .. 1  BY <1>1, <1>2 DEF TypeOK
  <2>3. udrie' \in BOOLEAN  BY <1>2
  <2> QED  BY <1>1, <1>2, <1>6, <2>1, <2>2, <2>3 DEF TypeOK
<1>8. tx_at' > tx_end' /\ tx_at' > 0  BY <1>2, <1>3
<1>9. BufferAgrees'  BY <1>1, <1>2, <1>4, <1>8 DEF BufferAgrees
<1>10. clean' => todo = {} /\ ~xor /\ HearMark
  <2>1. clean' => clean /\ todo = {} /\ HearMark  BY <1>4, <1>6
  <2>2. clean' => tx_at > 0  BY <1>2, <1>4, <2>1
  <2>3. ~(tx_at < tx_end)  BY <1>2, <1>3
  <2> QED  BY <1>1, <2>1, <2>2, <2>3 DEF CleanAgrees
<1>11. clean' => todo' = {} /\ ~xor' /\ got' = <<>>  BY <1>2, <1>10 DEF HearMark
<1>12. CleanAgrees'  BY <1>11 DEF CleanAgrees
<1>13. IntactAgrees'
  <2> SUFFICES ASSUME intact' = 1 PROVE IntactAgrees'  BY DEF IntactAgrees
  <2>1. clean'
    <3>1. Whole  BY <1>2, <1>4, <1>5
    <3> QED  BY <1>2, <3>1
  <2>2. Idle'  BY <1>8, <1>11, <2>1 DEF Idle
  <2> QED  BY <1>2, <1>11, <2>1, <2>2 DEF IntactAgrees
<1> QED  BY <1>7, <1>9, <1>12, <1>13 DEF UpInv

LEMMA ByteKeeps ==
    ASSUME UpInv, PutByte
    PROVE  UpInv'
<1>1. TypeOK /\ BufferAgrees /\ CleanAgrees /\ IntactAgrees  BY DEF UpInv
<1> DEFINE next == tx[tx_at + 1]
           Send(byte) == Put(byte) \/ LoseByte
<1>2. /\ udrie /\ tx_at < tx_end
      /\ IF Special(next)
         THEN Send(Escape) /\ tx' = [tx EXCEPT ![tx_at + 1] = Flip(next)] /\ UNCHANGED tx_at
         ELSE Send(next) /\ tx_at' = tx_at + 1 /\ UNCHANGED tx
      /\ UNCHANGED <<todo, length, tx_end, udrie, line, intact>>
  BY DEF PutByte
<1>3. tx_at \in 0 .. 23 /\ tx_end \in 0 .. 22 /\ tx \in Seq(0 .. 255)  BY <1>1 DEF TypeOK
<1>4. /\ length \in 1 .. 21 /\ tx_end <= Len(tx) /\ tx_at \in 0 .. 22
      /\ clean \/ intact = 1 => todo = {}
      /\ todo = {} => tx_end = length + 1
  BY <1>2, <1>3, SendingAgrees
<1>5. tx_at + 1 \in 1 .. Len(tx) /\ Len(tx) \in Nat /\ next \in 0 .. 255
  <2>1. Len(tx) \in Nat  BY <1>3
  <2>2. tx_at + 1 \in 1 .. Len(tx)  BY <1>2, <1>3, <1>4, <2>1
  <2> QED  BY <1>3, <2>1, <2>2, ElementOfSeq
<1>6. Flip(next) \in 0 .. 255 /\ (Special(next) => Flip(Flip(next)) = next /\ ~Special(Flip(next)))
  BY <1>5, FlipResult
<1> HIDE DEF next
(* What is sent is heard or lost.                                          *)
<1> DEFINE byte == IF Special(next) THEN Escape ELSE next
<1>7. byte \in 0 .. 255 /\ byte # Mark /\ (byte = Escape <=> Special(next))
  BY <1>5 DEF Special, Mark, Escape
<1>8. Put(byte) \/ LoseByte  BY <1>2
<1>9. /\ Special(next) => tx' = [tx EXCEPT ![tx_at + 1] = Flip(next)] /\ tx_at' = tx_at
      /\ ~Special(next) => tx' = tx /\ tx_at' = tx_at + 1
  BY <1>2
<1> HIDE DEF byte
<1>10. /\ tx' \in Seq(0 .. 255) /\ Len(tx') = Len(tx)
       /\ \A i \in 1 .. Len(tx) :
             tx'[i] = IF Special(next) /\ i = tx_at + 1 THEN Flip(next) ELSE tx[i]
  <2>1. CASE Special(next)
    <3>1. tx' = [tx EXCEPT ![tx_at + 1] = Flip(next)]  BY <1>9, <2>1
    <3> QED  BY <1>3, <1>5, <1>6, <2>1, <3>1
  <2>2. CASE ~Special(next)  BY <1>3, <1>9, <2>2
  <2> QED  BY <2>1, <2>2
<1>11. tx_at' \in 0 .. 22 /\ tx_at' <= tx_end /\ (Special(next) => tx_at' < tx_end)
  <2>1. tx_at < tx_end  BY <1>2
  <2>2. tx_at' = tx_at \/ tx_at' = tx_at + 1  BY <1>9
  <2>3. Special(next) => tx_at' = tx_at  BY <1>9
  <2>4. /\ tx_at \in 0 .. 22 /\ tx_at <= tx_end
        /\ tx_at + 1 \in 0 .. 22 /\ tx_at + 1 <= tx_end
    BY ONLY <1>3, <2>1
  <2>5. tx_at' \in 0 .. 22 /\ tx_at' <= tx_end  BY ONLY <2>2, <2>4
  <2> QED  BY <2>1, <2>3, <2>5
<1>12. /\ got' \in Seq(0 .. 255) /\ Len(got') <= MaxFrame
       /\ xor' \in BOOLEAN /\ last'.frame \in Seq(0 .. 255)
       /\ lost' \in 0 .. MaxLost /\ clean' \in BOOLEAN
       /\ clean' => clean /\ Hear(byte)
  <2>1. CASE Put(byte)
    <3>1. Hear(byte) /\ UNCHANGED <<lost, clean>>  BY <2>1 DEF Put
    <3>2. /\ got' \in Seq(0 .. 255) /\ Len(got') <= MaxFrame
          /\ xor' \in BOOLEAN /\ last'.frame \in Seq(0 .. 255)
      BY <1>1, <1>7, <3>1, ReaderTypes
    <3> QED  BY <1>1, <3>1, <3>2 DEF TypeOK
  <2>2. CASE LoseByte
    <3>1. lost < MaxLost /\ lost' = lost + 1 /\ clean' = FALSE /\ UNCHANGED <<got, xor, last>>
      BY <2>2 DEF LoseByte, reader
    <3>2. lost' \in 0 .. MaxLost  BY <1>1, <3>1, FrameAssumption DEF TypeOK
    <3> QED  BY <1>1, <2>2, <3>1, <3>2 DEF TypeOK
  <2> QED  BY <1>8, <2>1, <2>2
<1>13. TypeOK'
  BY <1>1, <1>2, <1>10, <1>11, <1>12 DEF TypeOK
<1>14. BufferAgrees'  BY <1>1, <1>2, <1>4, <1>10, <1>11 DEF BufferAgrees
<1>15. CASE ~clean'
  <2>1. CleanAgrees'  BY <1>15 DEF CleanAgrees
  <2>2. intact = 1 => ~Between'  BY <1>2, <1>4, <1>11 DEF Between, Idle
  <2>3. intact = 1 => todo' = {}  BY <1>2, <1>4
  <2>4. IntactAgrees'  BY <1>2, <1>15, <2>2, <2>3 DEF IntactAgrees
  <2> QED  BY <1>13, <1>14, <2>1, <2>4 DEF UpInv
<1>16. CASE clean'
  <2>1. todo = {} /\ tx_end = length + 1 /\ Hear(byte) /\ clean  BY <1>4, <1>12, <1>16
  <2>2. Special(next) => xor' = TRUE /\ UNCHANGED <<got, last>>
    BY <1>7, <2>1 DEF Hear, Mark, Escape
  <2>3. ~Special(next) => HearByte(next)  BY <1>7, <2>1 DEF Hear, byte
  <2>4. CleanAgrees'
    <3>1. ~Special(next) => ~xor'  BY <2>3 DEF HearByte
    <3> QED  BY <1>2, <1>11, <2>1, <3>1 DEF CleanAgrees
  <2>5. IntactAgrees'
    <3> SUFFICES ASSUME intact = 1 PROVE IntactAgrees'  BY <1>2 DEF IntactAgrees
    <3>1. PICK f : f = line[Len(line)]  OBVIOUS
    <3>2. ~Idle /\ ~Idle'  BY <1>2, <1>3, <1>11 DEF Idle
    <3>3. line # <<>> /\ Halfway(f)  BY <1>1, <2>1, <3>1, <3>2 DEF IntactAgrees
    <3> SUFFICES Halfway(f)'
      BY <1>2, <2>1, <3>1, <3>2, <3>3 DEF IntactAgrees, Between
    <3>4. f \in Frames  BY <1>1, <3>1, <3>3 DEF TypeOK
    <3>5. /\ f \in Seq(0 .. 255) /\ Len(f) \in 1 .. 19 /\ Len(f) < MaxFrame
          /\ Sealed(f) \in Seq(0 .. 255) /\ Len(Sealed(f)) = Len(f) + 1
      BY <3>4, FrameLength, SealedResult
    <3> DEFINE whole == Sealed(f)
               due == whole[tx_at + 1]
    <3>6. /\ length = Len(f) /\ Len(got) = tx_at
          /\ \A i \in 1 .. tx_at : got[i] = whole[i]
          /\ \A i \in tx_at + 1 .. tx_end :
                tx[i] = IF xor /\ i = tx_at + 1 THEN Flip(whole[i]) ELSE whole[i]
          /\ xor => tx_at < tx_end /\ Special(due)
      BY <2>1, <3>3 DEF Halfway
    <3>7. due \in 0 .. 255
      <4>1. tx_at + 1 \in 1 .. Len(whole)  BY <1>2, <1>3, <2>1, <3>5, <3>6
      <4> QED  BY <3>5, <4>1, ElementOfSeq
    <3>8. Special(due) => Flip(Flip(due)) = due /\ ~Special(Flip(due))  BY <3>7, FlipResult
    <3> HIDE DEF whole
    <3>9. next = IF xor THEN Flip(due) ELSE due
      <4>1. tx_at + 1 \in tx_at + 1 .. tx_end  BY <1>2, <1>3
      <4> QED  BY <3>6, <4>1 DEF next
    <3> HIDE DEF due
    <3>10. CASE Special(next)
      <4>1. ~xor /\ next = due  BY <3>6, <3>8, <3>9, <3>10
      <4>2. \A i \in tx_at + 1 .. tx_end :
               tx'[i] = IF i = tx_at + 1 THEN Flip(whole[i]) ELSE whole[i]
        <5> SUFFICES ASSUME NEW i \in tx_at + 1 .. tx_end
                     PROVE  tx'[i] = IF i = tx_at + 1 THEN Flip(whole[i]) ELSE whole[i]
          OBVIOUS
        <5>1. i \in 1 .. Len(tx)  BY <1>3, <1>4, <1>5
        <5>2. tx'[i] = IF i = tx_at + 1 THEN Flip(next) ELSE tx[i]  BY <1>10, <3>10, <5>1
        <5>3. tx[i] = whole[i]  BY <3>6, <4>1
        <5> QED  BY <4>1, <5>2, <5>3 DEF due
      <4>3. xor' = TRUE /\ got' = got /\ tx_at' = tx_at /\ UNCHANGED <<todo, length, tx_end>>
        BY <1>2, <1>9, <2>2, <3>10
      <4> QED  BY <1>2, <2>1, <3>6, <3>10, <4>1, <4>2, <4>3 DEF Halfway, due, whole
    <3>11. CASE ~Special(next)
      <4>1. xor' = FALSE /\ tx_at' = tx_at + 1 /\ tx' = tx /\ UNCHANGED <<todo, length, tx_end>>
        BY <1>2, <1>9, <2>3, <3>11 DEF HearByte
      <4>2. (IF xor THEN Flip(next) ELSE next) = due  BY <3>6, <3>8, <3>9
      <4>3. Len(got) # MaxFrame  BY <1>2, <1>3, <2>1, <3>5, <3>6, FrameAssumption
      <4>4. got' = Append(got, due)  BY <2>3, <3>11, <4>2, <4>3 DEF HearByte
      <4>5. got \in Seq(0 .. 255)  BY <1>1 DEF TypeOK
      <4>6. /\ Len(Append(got, due)) = Len(got) + 1
            /\ \A i \in 1 .. Len(got) : Append(got, due)[i] = got[i]
            /\ Append(got, due)[Len(got) + 1] = due
        BY <3>7, <4>5
      <4>7. Len(got') = tx_at' /\ \A i \in 1 .. tx_at' : got'[i] = whole[i]
        <5>1. \A i \in 1 .. tx_at + 1 : i \in 1 .. tx_at \/ i = tx_at + 1  BY <1>3
        <5> QED  BY <3>6, <4>1, <4>4, <4>6, <5>1 DEF due
      <4>8. \A i \in tx_at' + 1 .. tx_end : tx[i] = whole[i]
        <5>1. \A i \in tx_at + 1 + 1 .. tx_end : i \in tx_at + 1 .. tx_end /\ i # tx_at + 1
          BY <1>3
        <5> QED  BY <3>6, <4>1, <5>1
      <4> QED  BY <2>1, <3>6, <4>1, <4>7, <4>8 DEF Halfway, whole
    <3> QED  BY <3>10, <3>11
  <2> QED  BY <1>13, <1>14, <2>4, <2>5 DEF UpInv
<1> QED  BY <1>15, <1>16

-----------------------------------------------------------------------------
(* What holds of the line at every moment.                                 *)

LEMMA UpInvariant == LinkSpec => []UpInv
<1>1. LinkInit => UpInv  BY UpInit DEF LinkInit
<1>2. UpInv /\ [LinkNext]_<<direction, vars, down>> => UpInv'
  <2> SUFFICES ASSUME UpInv, [LinkNext]_<<direction, vars, down>> PROVE UpInv'  OBVIOUS
  <2>1. CASE Next
    <3>1. ASSUME NEW f \in Frames, Fill(f) PROVE UpInv'  BY <3>1, FillKeeps
    <3>2. CASE Stores  BY <3>2, StoresKeep
    <3>3. CASE Interrupt  BY <3>3, MarkKeeps, ByteKeeps DEF Interrupt
    <3> QED  BY <2>1, <3>1, <3>2, <3>3 DEF Next
  <2>2. CASE UNCHANGED vars
    BY <2>2 DEF vars, UpInv, TypeOK, BufferAgrees, CleanAgrees, IntactAgrees,
                Idle, Between, Halfway
  <2> QED  BY <2>1, <2>2 DEF LinkNext, Up, Downward
<1> QED  BY <1>1, <1>2, PTL DEF LinkSpec

(* The frame of a report that loses no byte is all there when its mark is. *)
LEMMA WholeHeard ==
    ASSUME UpInv, PutMark, Whole, clean', intact = 1
    PROVE  last' = [frame |-> line[Len(line)], flip |-> ~last.flip]
<1>1. TypeOK /\ BufferAgrees /\ CleanAgrees /\ IntactAgrees  BY DEF UpInv
<1>2. udrie /\ tx_at = tx_end  BY DEF PutMark
<1>3. tx_at \in 0 .. 23 /\ tx_end \in 0 .. 22  BY <1>1 DEF TypeOK
<1>4. todo = {} /\ tx_end = length + 1  BY <1>2, <1>3, SendingAgrees
<1>5. Put(Mark)  BY DEF PutMark, LoseByte
<1>6. HearMark /\ clean  BY <1>5 DEF Put, Hear, Mark, Escape
<1>7. PICK f : f = line[Len(line)]  OBVIOUS
<1>8. line # <<>> /\ Halfway(f)  BY <1>1, <1>2, <1>3, <1>6, <1>7 DEF IntactAgrees, Idle
<1>9. f \in Frames  BY <1>1, <1>7, <1>8 DEF TypeOK
<1>10. /\ f \in Seq(0 .. 255) /\ Sealed(f) \in Seq(0 .. 255)
       /\ Len(Sealed(f)) = Len(f) + 1 /\ Payload(Sealed(f)) = f
       /\ Valid(Sealed(f), Reports)
  BY <1>9, SealedResult, FrameAssumption
<1>11. got = Sealed(f)
  <2>1. got \in Seq(0 .. 255)  BY <1>1 DEF TypeOK
  <2>2. Len(got) = Len(Sealed(f)) /\ \A i \in 1 .. Len(got) : got[i] = Sealed(f)[i]
    BY <1>2, <1>4, <1>8, <1>10 DEF Halfway
  <2> QED  BY <1>10, <2>1, <2>2, SeqEqual
<1> QED  BY <1>6, <1>7, <1>10, <1>11 DEF HearMark

(* A report that loses no byte, sent after another that lost none, is      *)
(* taken, whatever the interrupt does between the stores of send().        *)
THEOREM ReportsRecover == LinkSpec => Recovers
<1>1. UpInv /\ [LinkNext]_<<direction, vars, down>>
      => [(PutMark /\ Whole /\ clean' /\ intact = 1) =>
             last' = [frame |-> line[Len(line)], flip |-> ~last.flip]]_vars
  BY WholeHeard
<1> QED  BY <1>1, UpInvariant, PTL DEF LinkSpec, Recovers

-----------------------------------------------------------------------------
(* What is written for a frame.                                            *)

(* A special byte is written flipped, behind an escape.                    *)
LEMMA WrittenResult ==
    ASSUME NEW byte \in 0 .. 255
    PROVE  /\ Written(byte) \in Seq(0 .. 255) /\ 1 <= Len(Written(byte))
           /\ Special(byte) => Len(Written(byte)) = 2 /\ Written(byte)[1] = Escape
                               /\ Written(byte)[2] = Flip(byte)
           /\ ~Special(byte) => Len(Written(byte)) = 1 /\ Written(byte)[1] = byte
<1>1. CASE Special(byte)
  <2>1. Flip(byte) \in 0 .. 255  BY FlipResult
  <2>2. Escape \in 0 .. 255  BY DEF Escape
  <2>3. Written(byte) = <<Escape, Flip(byte)>>  BY <1>1 DEF Written
  <2>4. \A a, b \in 0 .. 255 : <<a, b>> \in Seq(0 .. 255)
    <3> SUFFICES ASSUME NEW a \in 0 .. 255, NEW b \in 0 .. 255
                 PROVE  <<a, b>> \in Seq(0 .. 255)
      OBVIOUS
    <3> QED  OBVIOUS
  <2>5. \A a, b : Len(<<a, b>>) = 2 /\ <<a, b>>[1] = a /\ <<a, b>>[2] = b  OBVIOUS
  <2>6. Written(byte) \in Seq(0 .. 255)  BY ONLY <2>1, <2>2, <2>3, <2>4
  <2>7. Len(Written(byte)) = 2 /\ Written(byte)[1] = Escape /\ Written(byte)[2] = Flip(byte)
    BY ONLY <2>3, <2>5
  <2>8. 1 <= Len(Written(byte))  BY ONLY <2>7
  <2> QED  BY <1>1, <2>6, <2>7, <2>8
<1>2. CASE ~Special(byte)
  <2>1. Written(byte) = <<byte>>  BY <1>2 DEF Written
  <2>2. \A a \in 0 .. 255 : <<a>> \in Seq(0 .. 255)  OBVIOUS
  <2>3. \A a : Len(<<a>>) = 1 /\ <<a>>[1] = a  OBVIOUS
  <2>4. Len(Written(byte)) = 1 /\ Written(byte)[1] = byte  BY ONLY <2>1, <2>3
  <2>5. 1 <= Len(Written(byte))  BY ONLY <2>4
  <2> QED  BY <1>2, <2>1, <2>2, <2>4, <2>5
<1> QED  BY <1>1, <1>2

(* The first i bytes are written one after another.                        *)
LEMMA EscapingsResult ==
    ASSUME NEW bytes \in Seq(0 .. 255)
    PROVE  /\ Escapings(bytes) \in [0 .. Len(bytes) -> Seq(0 .. 255)]
           /\ Escapings(bytes)[0] = <<>>
           /\ \A i \in 1 .. Len(bytes) :
                 Escapings(bytes)[i] = Escapings(bytes)[i - 1] \o Written(bytes[i])
<1> DEFINE n == Len(bytes)
           A == Seq(0 .. 255)
           g == [p \in A \X Nat |->
                    IF p[2] \in 1 .. n THEN p[1] \o Written(bytes[p[2]]) ELSE p[1]]
           done == CHOOSE d : d = [i \in 0 .. n |->
                                      IF i = 0 THEN <<>> ELSE d[i - 1] \o Written(bytes[i])]
<1>1. Escapings(bytes) = done  BY DEF Escapings
<1>2. n \in Nat  OBVIOUS
<1>3. \A i \in 1 .. n : Written(bytes[i]) \in A
  <2>1. \A i \in 1 .. n : bytes[i] \in 0 .. 255  BY ElementOfSeq
  <2> QED  BY <2>1, WrittenResult
<1>4. g \in [A \X Nat -> A]
  <2> HIDE DEF n
  <2>1. \A a, b \in A : a \o b \in A  OBVIOUS
  <2> HIDE DEF A
  <2>2. \A p \in A \X Nat :
           (IF p[2] \in 1 .. n THEN p[1] \o Written(bytes[p[2]]) ELSE p[1]) \in A
    BY <1>3, <2>1
  <2> QED  BY ONLY <2>2
<1>5. <<>> \in A  OBVIOUS
<1>6. \A a \in A, i \in 1 .. n : g[<<a, i>>] = a \o Written(bytes[i])
  <2> HIDE DEF A, n
  <2>1. \A i \in 1 .. n : i \in Nat  BY <1>2
  <2> QED  BY <2>1
<1> HIDE DEF g, A, n
<1>7. PICK h : Solves(h, A, <<>>, g, n)  BY <1>2, <1>4, <1>5, Recursion
<1>8. \A i \in 1 .. n : h[i - 1] \in A  BY <1>2, <1>7 DEF Solves
<1>9. h = [i \in 0 .. n |-> IF i = 0 THEN <<>> ELSE h[i - 1] \o Written(bytes[i])]
  <2>1. \A i \in 1 .. n : h[i] = h[i - 1] \o Written(bytes[i])
    BY <1>6, <1>7, <1>8 DEF Solves
  <2>2. \A i \in 0 .. n : i = 0 \/ i \in 1 .. n  BY <1>2
  <2> QED  BY <1>7, <2>1, <2>2 DEF Solves
<1>10. done = [i \in 0 .. n |-> IF i = 0 THEN <<>> ELSE done[i - 1] \o Written(bytes[i])]
  BY <1>9
<1> HIDE DEF done
<1>11. done[0] = <<>> /\ \A i \in 1 .. n : done[i] = done[i - 1] \o Written(bytes[i])
  <2>1. 0 \in 0 .. n /\ \A i \in 1 .. n : i \in 0 .. n /\ i # 0  BY <1>2
  <2> QED  BY <1>10, <2>1
<1>12. \A i \in 0 .. n : done[i] \in A
  <2> DEFINE S == {i \in Nat : i <= n => done[i] \in A}
  <2>1. 0 \in S  BY <1>5, <1>11
  <2>2. ASSUME NEW i \in Nat, i \in S PROVE i + 1 \in S
    <3> SUFFICES ASSUME i + 1 <= n PROVE done[i + 1] \in A  OBVIOUS
    <3>1. done[i] \in A /\ i + 1 \in 1 .. n /\ (i + 1) - 1 = i  BY <1>2, <2>2
    <3>2. done[i + 1] = done[i] \o Written(bytes[i + 1])  BY <1>11, <3>1
    <3>3. Written(bytes[i + 1]) \in A  BY <1>3, <3>1
    <3> QED  BY <3>1, <3>2, <3>3 DEF A
  <2>3. Nat \subseteq S
    <3> HIDE DEF S
    <3> QED  BY <2>1, <2>2, Induction
  <2> QED  BY <1>2, <2>3
<1>13. done \in [0 .. n -> A]  BY <1>10, <1>12
<1> QED  BY <1>1, <1>11, <1>13 DEF A, n

(* What is written grows by a byte or two, and what is there stays.        *)
LEMMA EscapingsGrow ==
    ASSUME NEW bytes \in Seq(0 .. 255), NEW k \in 0 .. Len(bytes)
    PROVE  /\ Len(Escapings(bytes)[k]) \in Nat /\ Len(Escapings(bytes)[k]) >= k
           /\ \A j \in k .. Len(bytes) :
                 /\ Len(Escapings(bytes)[k]) <= Len(Escapings(bytes)[j])
                 /\ \A q \in 1 .. Len(Escapings(bytes)[k]) :
                       Escapings(bytes)[j][q] = Escapings(bytes)[k][q]
<1> DEFINE n == Len(bytes)
           done == Escapings(bytes)
<1>1. n \in Nat  OBVIOUS
<1>2. /\ \A i \in 0 .. n : done[i] \in Seq(0 .. 255)
      /\ done[0] = <<>>
      /\ \A i \in 1 .. n : done[i] = done[i - 1] \o Written(bytes[i])
  BY EscapingsResult
<1>3. \A i \in 1 .. n : /\ Written(bytes[i]) \in Seq(0 .. 255)
                         /\ 1 <= Len(Written(bytes[i]))
  <2>1. \A i \in 1 .. n : bytes[i] \in 0 .. 255  BY ElementOfSeq
  <2> HIDE DEF n
  <2>2. \A b \in 0 .. 255 : Written(b) \in Seq(0 .. 255) /\ 1 <= Len(Written(b))
    BY WrittenResult
  <2> QED  BY <2>1, <2>2
<1> HIDE DEF n, done
<1>4. \A i \in 0 .. n : Len(done[i]) \in Nat  BY <1>2
(* One step on.                                                            *)
<1>5. ASSUME NEW i \in 1 .. n
      PROVE  /\ Len(done[i]) >= Len(done[i - 1]) + 1
             /\ \A q \in 1 .. Len(done[i - 1]) : done[i][q] = done[i - 1][q]
  <2>1. i - 1 \in 0 .. n  BY <1>1
  <2>2. PICK a \in Seq(0 .. 255) : a = done[i - 1]  BY <1>2, <2>1
  <2>3. PICK b \in Seq(0 .. 255) : b = Written(bytes[i]) /\ 1 <= Len(b)  BY <1>3
  <2>4. done[i] = a \o b  BY <1>2, <2>2, <2>3
  <2>5. /\ Len(a \o b) = Len(a) + Len(b)
        /\ \A q \in 1 .. Len(a) + Len(b) :
              (a \o b)[q] = IF q <= Len(a) THEN a[q] ELSE b[q - Len(a)]
    BY ConcatProperties
  <2>6. Len(a) \in Nat /\ Len(b) \in Nat  OBVIOUS
  <2>7. ASSUME NEW q \in 1 .. Len(a) PROVE (a \o b)[q] = a[q]
    <3>1. q \in 1 .. Len(a) + Len(b) /\ q <= Len(a)  BY <2>6
    <3> QED  BY <2>5, <3>1
  <2>8. Len(a \o b) >= Len(a) + 1  BY <2>3, <2>5, <2>6
  <2> QED  BY <2>2, <2>4, <2>7, <2>8
<1>6. ASSUME NEW i \in Nat, i + 1 <= n
      PROVE  i \in 0 .. n /\ i + 1 \in 1 .. n /\ i + 1 \in 0 .. n /\ (i + 1) - 1 = i
  BY <1>1, <1>6
<1>7. Len(done[k]) >= k
  <2> DEFINE S == {i \in Nat : i <= n => Len(done[i]) >= i}
  <2>1. 0 \in S
    <3>1. Len(done[0]) = 0  BY <1>2
    <3> QED  BY <3>1
  <2>2. ASSUME NEW i \in Nat, i \in S PROVE i + 1 \in S
    <3> SUFFICES ASSUME i + 1 <= n PROVE Len(done[i + 1]) >= i + 1  OBVIOUS
    <3>1. i <= n /\ i + 1 \in 1 .. n /\ (i + 1) - 1 = i  BY <1>1
    <3>2. Len(done[i]) >= i /\ Len(done[i]) \in Nat  BY <1>4, <1>6, <2>2, <3>1
    <3>3. Len(done[i + 1]) >= Len(done[i]) + 1 /\ Len(done[i + 1]) \in Nat
      BY <1>4, <1>5, <1>6, <3>1
    <3> QED  BY <3>2, <3>3
  <2>3. Nat \subseteq S
    <3> HIDE DEF S
    <3> QED  BY <2>1, <2>2, Induction
  <2>4. k \in Nat /\ k <= n  BY <1>1 DEF n
  <2> QED  BY <2>3, <2>4
<1>8. ASSUME NEW j \in k .. n
      PROVE  /\ Len(done[k]) <= Len(done[j])
             /\ \A q \in 1 .. Len(done[k]) : done[j][q] = done[k][q]
  <2> DEFINE Keeps(i) == /\ Len(done[k]) <= Len(done[i])
                         /\ \A q \in 1 .. Len(done[k]) : done[i][q] = done[k][q]
             S == {i \in Nat : k <= i /\ i <= n => Keeps(i)}
  <2>1. k \in Nat /\ k <= n /\ j \in Nat /\ k <= j /\ j <= n  BY <1>1 DEF n
  <2>2. Len(done[k]) \in Nat /\ Keeps(k)  BY <1>4, <2>1
  <2>3. 0 \in S
    <3>1. k <= 0 => k = 0  BY <2>1
    <3> QED  BY <2>2, <3>1
  <2>4. ASSUME NEW i \in Nat, i \in S PROVE i + 1 \in S
    <3> SUFFICES ASSUME k <= i + 1, i + 1 <= n PROVE Keeps(i + 1)  OBVIOUS
    <3>1. CASE k = i + 1  BY <2>2, <3>1
    <3>2. CASE k # i + 1
      <4>1. k <= i /\ i <= n  BY <1>1, <2>1, <3>2
      <4>2. Keeps(i)  BY <2>4, <4>1
      <4>3. Len(done[i]) \in Nat /\ Len(done[i + 1]) \in Nat  BY <1>4, <1>6
      <4>4. /\ Len(done[i + 1]) >= Len(done[i]) + 1
            /\ \A q \in 1 .. Len(done[i]) : done[i + 1][q] = done[i][q]
        BY <1>5, <1>6
      <4>5. \A q \in 1 .. Len(done[k]) : q \in 1 .. Len(done[i])  BY <2>2, <4>2, <4>3
      <4> QED  BY <2>2, <4>2, <4>3, <4>4, <4>5
    <3> QED  BY <3>1, <3>2
  <2>5. Nat \subseteq S
    <3> HIDE DEF S
    <3> QED  BY <2>3, <2>4, Induction
  <2> QED  BY <2>1, <2>5
<1> QED  BY <1>4, <1>7, <1>8 DEF n, done

(* The bytes of a frame as they are written, and the mark behind them.     *)
LEMMA EncodedResult ==
    ASSUME NEW f \in Seq(0 .. 255)
    PROVE  /\ Encoded(f) \in Seq(0 .. 255)
           /\ Len(Encoded(f)) = Len(Escapings(Sealed(f))[Len(Sealed(f))]) + 1
           /\ Encoded(f)[Len(Encoded(f))] = Mark
           /\ \A q \in 1 .. Len(Escapings(Sealed(f))[Len(Sealed(f))]) :
                 Encoded(f)[q] = Escapings(Sealed(f))[Len(Sealed(f))][q]
<1>1. Sealed(f) \in Seq(0 .. 255)  BY SealedResult
<1>2. Len(Sealed(f)) \in 0 .. Len(Sealed(f))
  <2>1. Len(Sealed(f)) \in Nat  BY <1>1
  <2> QED  BY <2>1
<1>3. PICK a \in Seq(0 .. 255) : a = Escapings(Sealed(f))[Len(Sealed(f))]
  BY <1>1, <1>2, EscapingsResult
<1>4. Encoded(f) = Append(a, Mark)  BY <1>3 DEF Encoded, Escaped
<1>5. Mark \in 0 .. 255  BY DEF Mark
<1>6. /\ Append(a, Mark) \in Seq(0 .. 255) /\ Len(Append(a, Mark)) = Len(a) + 1
      /\ Append(a, Mark)[Len(a) + 1] = Mark
      /\ \A q \in 1 .. Len(a) : Append(a, Mark)[q] = a[q]
  BY <1>5
<1> QED  BY ONLY <1>3, <1>4, <1>6

LEMMA EncodedByte ==
    ASSUME NEW f \in Seq(0 .. 255), NEW k \in Nat, k < Len(Sealed(f))
    PROVE  LET S == Sealed(f)
               at == Len(Escapings(S)[k])
           IN  /\ S[k + 1] \in 0 .. 255
               /\ Len(Escapings(S)[k + 1]) < Len(Encoded(f))
               /\ Special(S[k + 1]) => /\ Len(Escapings(S)[k + 1]) = at + 2
                                       /\ Encoded(f)[at + 1] = Escape
                                       /\ Encoded(f)[at + 2] = Flip(S[k + 1])
               /\ ~Special(S[k + 1]) => /\ Len(Escapings(S)[k + 1]) = at + 1
                                        /\ Encoded(f)[at + 1] = S[k + 1]
<1> DEFINE S == Sealed(f)
           n == Len(S)
           E == Escapings(S)
           next == S[k + 1]
<1>1. S \in Seq(0 .. 255)  BY SealedResult
<1>2. n \in Nat /\ k \in 0 .. n /\ k + 1 \in 1 .. n /\ k + 1 \in 0 .. n
      /\ (k + 1) - 1 = k /\ n \in (k + 1) .. n
  <2>1. n \in Nat  BY <1>1
  <2> QED  BY <2>1
<1>3. next \in 0 .. 255  BY <1>1, <1>2, ElementOfSeq
<1>4. PICK a \in Seq(0 .. 255) : a = E[k]  BY <1>1, <1>2, EscapingsResult
<1>5. PICK b \in Seq(0 .. 255) : b = Written(next)  BY <1>3, WrittenResult
<1>6. E[k + 1] = a \o b  BY <1>1, <1>2, <1>4, <1>5, EscapingsResult
<1>7. /\ Len(E[k + 1]) <= Len(E[n])
      /\ \A q \in 1 .. Len(E[k + 1]) : E[n][q] = E[k + 1][q]
  BY <1>1, <1>2, EscapingsGrow
<1>8. Len(E[k + 1]) \in Nat /\ Len(E[n]) \in Nat
  <2>1. n \in 0 .. n  BY <1>2
  <2> QED  BY <1>1, <1>2, <2>1, EscapingsGrow
<1>9. /\ Len(Encoded(f)) = Len(E[n]) + 1
      /\ \A q \in 1 .. Len(E[n]) : Encoded(f)[q] = E[n][q]
  BY EncodedResult
<1> HIDE DEF S, n, E, next
<1>10. /\ Len(E[k + 1]) = Len(a) + Len(b)
       /\ \A q \in 1 .. Len(a) + Len(b) :
             E[k + 1][q] = IF q <= Len(a) THEN a[q] ELSE b[q - Len(a)]
  BY <1>6, ConcatProperties
<1>11. Len(a) \in Nat /\ Len(b) \in Nat  OBVIOUS
<1>12. ASSUME NEW q \in 1 .. Len(b)
       PROVE  Encoded(f)[Len(a) + q] = b[q]
  <2>1. Len(a) + q \in 1 .. Len(a) + Len(b) /\ ~(Len(a) + q <= Len(a))
        /\ (Len(a) + q) - Len(a) = q
    BY <1>11
  <2>2. Len(a) + q \in 1 .. Len(E[k + 1]) /\ Len(a) + q \in 1 .. Len(E[n])
    BY <1>7, <1>8, <1>10, <1>11, <2>1
  <2> QED  BY <1>7, <1>9, <1>10, <2>1, <2>2
<1>13. /\ Special(next) => Len(b) = 2 /\ b[1] = Escape /\ b[2] = Flip(next)
       /\ ~Special(next) => Len(b) = 1 /\ b[1] = next
  BY <1>3, <1>5, WrittenResult
<1>14. Special(next) => /\ Len(E[k + 1]) = Len(a) + 2
                        /\ Encoded(f)[Len(a) + 1] = Escape
                        /\ Encoded(f)[Len(a) + 2] = Flip(next)
  <2> SUFFICES ASSUME Special(next)
               PROVE  /\ Len(E[k + 1]) = Len(a) + 2
                      /\ Encoded(f)[Len(a) + 1] = Escape
                      /\ Encoded(f)[Len(a) + 2] = Flip(next)
    OBVIOUS
  <2>1. Len(b) = 2 /\ b[1] = Escape /\ b[2] = Flip(next)  BY <1>13
  <2>2. 1 \in 1 .. Len(b) /\ 2 \in 1 .. Len(b)  BY <2>1
  <2> QED  BY <1>10, <1>12, <2>1, <2>2
<1>15. ~Special(next) => /\ Len(E[k + 1]) = Len(a) + 1
                         /\ Encoded(f)[Len(a) + 1] = next
  <2> SUFFICES ASSUME ~Special(next)
               PROVE  Len(E[k + 1]) = Len(a) + 1 /\ Encoded(f)[Len(a) + 1] = next
    OBVIOUS
  <2>1. Len(b) = 1 /\ b[1] = next  BY <1>13
  <2>2. 1 \in 1 .. Len(b)  BY <2>1
  <2> QED  BY <1>10, <1>12, <2>1, <2>2
<1>16. Len(E[k + 1]) < Len(Encoded(f))  BY <1>7, <1>8, <1>9
<1> QED  BY <1>3, <1>4, <1>14, <1>15, <1>16 DEF S, E, next

-----------------------------------------------------------------------------
(* Commands, on their way down.                                            *)

(* Both boards have the same frames.                                       *)
LEMMA SameFraming ==
    /\ Down!Mark = Mark /\ Down!Escape = Escape
    /\ \A byte : Down!Flip(byte) = Flip(byte)
    /\ \A f : Down!Sealed(f) = Sealed(f) /\ Down!Encoded(f) = Encoded(f)
               /\ Down!Payload(f) = Payload(f)
    /\ \A f : Down!Valid(f, Down!Commands) = Valid(f, Commands)
<1>1. Down!Mark = Mark /\ Down!Escape = Escape  BY DEF Down!Mark, Mark, Down!Escape, Escape
<1>2. \A byte : Down!Flip(byte) = Flip(byte)  BY DEF Down!Flip, Flip
<1>3. \A f : Down!Payload(f) = Payload(f)  BY DEF Down!Payload, Payload
<1>4. \A a, b : Down!ExclusiveOr(a, b) = ExclusiveOr(a, b)
  BY DEF Down!ExclusiveOr, ExclusiveOr
<1>5. \A f : Down!Checksum(f) = Checksum(f)  BY <1>4 DEF Down!Checksum, Checksum
<1>6. \A f : Down!Sealed(f) = Sealed(f)  BY <1>5 DEF Down!Sealed, Sealed
<1>7. \A byte : Down!Special(byte) = Special(byte)  BY <1>1 DEF Down!Special, Special
<1>8. \A byte : Down!Written(byte) = Written(byte)
  BY <1>1, <1>2, <1>7 DEF Down!Written, Written
<1>9. \A f : Down!Escapings(f) = Escapings(f)
  BY <1>8 DEF Down!Escapings, Escapings
<1>10. \A f : Down!Encoded(f) = Encoded(f)
  BY <1>1, <1>6, <1>9 DEF Down!Encoded, Encoded, Down!Escaped, Escaped
<1>11. Down!Commands = Commands  BY DEF Down!Commands, Commands
<1>12. \A f : Down!Valid(f, Down!Commands) = Valid(f, Commands)
  BY <1>3, <1>5, <1>11 DEF Down!Valid, Valid
<1> QED  BY <1>1, <1>2, <1>3, <1>6, <1>10, <1>12

(* Of the frame being sent, the first k bytes of what is sealed are on the *)
(* line, and when `half` the escape of the next one.                       *)
Place(f, k, half) ==
    /\ k \in 0 .. Len(Sealed(f)) /\ half \in BOOLEAN
    /\ half => k < Len(Sealed(f)) /\ Special(Sealed(f)[k + 1])
    /\ Len(down_out) = Len(Encoded(f)) - Len(Escapings(Sealed(f))[k]) - (IF half THEN 1 ELSE 0)
    /\ \A i \in 1 .. Len(down_out) :
          down_out[i] = Encoded(f)[Len(Encoded(f)) - Len(down_out) + i]

(* The interrupt has stored those k bytes; after two frames heard in full  *)
(* it has them right.                                                      *)
Heard(f, k, half) ==
    /\ Len(down_rx) = k /\ down_rx_xor = half
    /\ down_intact = 2 => \A i \in 1 .. k : down_rx[i] = Sealed(f)[i]

(* Nothing of the last frame is on the line yet, or all of it is.          *)
Start == down_out = <<>> \/ Len(down_out) = Len(Encoded(down_line[Len(down_line)]))

OrderAgrees ==
    down_out # <<>> =>
        /\ down_line # <<>>
        /\ \E k \in 0 .. Len(Sealed(down_line[Len(down_line)])), half \in BOOLEAN :
              /\ Place(down_line[Len(down_line)], k, half)
              /\ ~Start /\ down_clean /\ down_intact > 0 =>
                    Heard(down_line[Len(down_line)], k, half)

(* A frame that is heard finds the buffer discarded, or goes unheard.      *)
RoomAgrees ==
    /\ Start /\ down_intact > 0 =>
          /\ \/ down_rx = <<>> \/ "rx_at" \in down_todo
             \/ down_rx_full /\ down_todo = {}
          /\ down_intact = 2 => ~down_rx_xor
    /\ ~Start /\ down_clean => ~down_rx_full /\ down_todo = {}

DownInv == Down!TypeOK /\ OrderAgrees /\ RoomAgrees

(* The next byte that passes is the next of the frame, or the escape       *)
(* before it.                                                              *)
LEMMA PlaceNext ==
    ASSUME NEW f \in Seq(0 .. 255), NEW k, NEW half, Place(f, k, half),
           down_out \in Seq(0 .. 255), Len(down_out) > 1, down_out' = Tail(down_out)
    PROVE  LET next == Sealed(f)[k + 1]
           IN  /\ k \in Nat /\ k < Len(Sealed(f)) /\ next \in 0 .. 255
               /\ down_out' # <<>> /\ Len(down_out') # Len(Encoded(f))
               /\ half => /\ Special(next) /\ Head(down_out) = Flip(next)
                          /\ Place(f, k + 1, FALSE)'
               /\ ~half /\ Special(next) => /\ Head(down_out) = Escape
                                            /\ Place(f, k, TRUE)'
               /\ ~half /\ ~Special(next) => /\ Head(down_out) = next
                                             /\ Place(f, k + 1, FALSE)'
<1> DEFINE S == Sealed(f)
           E == Escapings(S)
           e == Encoded(f)
           next == S[k + 1]
           step == IF half THEN 1 ELSE 0
<1>1. /\ k \in 0 .. Len(S) /\ half \in BOOLEAN
      /\ half => k < Len(S) /\ Special(next)
      /\ Len(down_out) = Len(e) - Len(E[k]) - step
      /\ \A i \in 1 .. Len(down_out) : down_out[i] = e[Len(e) - Len(down_out) + i]
  BY DEF Place
<1>2. S \in Seq(0 .. 255) /\ Len(S) \in Nat /\ k \in Nat  BY <1>1, SealedResult
<1>3. Len(e) = Len(E[Len(S)]) + 1 /\ Len(e) \in Nat
  <2>1. Len(e) = Len(E[Len(S)]) + 1 /\ e \in Seq(0 .. 255)  BY EncodedResult
  <2> QED  BY <2>1
<1>4. Len(E[k]) \in Nat  BY <1>1, <1>2, EscapingsGrow
<1>5. k < Len(S)
  <2> SUFFICES ASSUME k = Len(S) PROVE FALSE  BY <1>1, <1>2
  <2>1. ~half  BY <1>1, <1>2
  <2>2. Len(down_out) = Len(e) - Len(E[Len(S)])  BY <1>1, <1>3, <1>4, <2>1
  <2> QED  BY <1>3, <1>4, <2>2
<1>6. /\ next \in 0 .. 255
      /\ Special(next) => /\ Len(E[k + 1]) = Len(E[k]) + 2
                          /\ e[Len(E[k]) + 1] = Escape
                          /\ e[Len(E[k]) + 2] = Flip(next)
      /\ ~Special(next) => /\ Len(E[k + 1]) = Len(E[k]) + 1
                           /\ e[Len(E[k]) + 1] = next
  BY <1>2, <1>5, EncodedByte
<1>7. /\ Tail(down_out) \in Seq(0 .. 255) /\ Len(Tail(down_out)) = Len(down_out) - 1
      /\ \A i \in 1 .. Len(down_out) - 1 : Tail(down_out)[i] = down_out[i + 1]
      /\ Head(down_out) = down_out[1]
  OBVIOUS
<1>8. step \in Nat /\ (half => step = 1) /\ (~half => step = 0)  OBVIOUS
<1> HIDE DEF S, E, e, next, step
(* Positions, as numbers.                                                  *)
<1>9. PICK m \in Nat, w \in Nat, at \in Nat :
         m = Len(down_out) /\ w = Len(e) /\ at = Len(E[k])
  <2>1. Len(down_out) \in Nat  OBVIOUS
  <2> QED  BY <1>3, <1>4, <2>1
<1>10. m = w - at - step /\ 1 < m  BY <1>1, <1>9
<1>11. Head(down_out) = e[at + step + 1]
  <2>1. 1 \in 1 .. m /\ w - m + 1 = at + step + 1
    <3>1. step \in Nat  BY <1>8
    <3>2. m \in Nat /\ w \in Nat /\ at \in Nat  OBVIOUS
    <3> QED  BY ONLY <1>10, <3>1, <3>2
  <2> QED  BY <1>1, <1>7, <1>9, <2>1
<1>12. /\ Len(down_out') = m - 1
       /\ \A i \in 1 .. m - 1 : down_out'[i] = e[w - (m - 1) + i]
  <2>1. Len(down_out') = m - 1  BY <1>7, <1>9
  <2>2. ASSUME NEW i \in 1 .. m - 1
        PROVE  down_out'[i] = e[w - (m - 1) + i]
    <3>1. i + 1 \in 1 .. m /\ w - m + (i + 1) = w - (m - 1) + i  BY ONLY <1>9, <2>2
    <3> QED  BY <1>1, <1>7, <1>9, <3>1
  <2> QED  BY <2>1, <2>2
<1>13. ASSUME NEW j \in 0 .. Len(S), NEW h \in BOOLEAN, h => j < Len(S) /\ Special(S[j + 1]),
              m - 1 = w - Len(E[j]) - (IF h THEN 1 ELSE 0)
       PROVE  Place(f, j, h)'
  BY <1>9, <1>12, <1>13 DEF Place, S, E, e
<1>14. k + 1 \in 0 .. Len(S)  BY <1>2, <1>5
<1>18. down_out' # <<>> /\ Len(down_out') # Len(Encoded(f))
  <2>1. Len(<<>>) = 0  OBVIOUS
  <2>2. m - 1 # 0 /\ m - 1 # w
    <3>1. step \in Nat  BY <1>8
    <3>2. m \in Nat /\ w \in Nat /\ at \in Nat  OBVIOUS
    <3> QED  BY ONLY <1>10, <3>1, <3>2
  <2> QED  BY <1>9, <1>12, <2>1, <2>2 DEF e
<1>15. CASE half
  <2>1. Special(next) /\ step = 1  BY <1>1, <1>8, <1>15
  <2>2. Len(E[k + 1]) = at + 2 /\ e[at + 2] = Flip(next)  BY <1>6, <1>9, <2>1
  <2>3. at + step + 1 = at + 2 /\ m - 1 = w - (at + 2) - 0  BY ONLY <1>9, <1>10, <2>1
  <2>4. Head(down_out) = Flip(next)  BY ONLY <1>11, <2>2, <2>3
  <2>5. Place(f, k + 1, FALSE)'  BY <1>13, <1>14, <2>2, <2>3
  <2> QED  BY <1>2, <1>5, <1>6, <1>18, <1>15, <2>1, <2>4, <2>5 DEF S, next
<1>16. CASE ~half /\ Special(next)
  <2>1. at + step + 1 = at + 1 /\ m - 1 = w - at - 1
    <3>1. step = 0  BY <1>8, <1>16
    <3> QED  BY ONLY <1>9, <1>10, <3>1
  <2>2. Head(down_out) = Escape  BY <1>6, <1>9, <1>11, <1>16, <2>1
  <2>3. Place(f, k, TRUE)'  BY <1>1, <1>5, <1>9, <1>13, <1>16, <2>1 DEF next
  <2> QED  BY <1>2, <1>5, <1>6, <1>18, <1>16, <2>2, <2>3 DEF S, next
<1>17. CASE ~half /\ ~Special(next)
  <2>1. at + step + 1 = at + 1 /\ m - 1 = w - (at + 1) - 0
    <3>1. step = 0  BY <1>8, <1>17
    <3> QED  BY ONLY <1>9, <1>10, <3>1
  <2>2. Len(E[k + 1]) = at + 1 /\ Head(down_out) = next  BY <1>6, <1>9, <1>11, <1>17, <2>1
  <2>3. Place(f, k + 1, FALSE)'  BY <1>13, <1>14, <2>1, <2>2
  <2> QED  BY <1>2, <1>5, <1>6, <1>18, <1>17, <2>2, <2>3 DEF S, next
<1> QED  BY <1>1, <1>15, <1>16, <1>17

(* The last byte is the mark, behind a whole frame.                        *)
LEMMA PlaceLast ==
    ASSUME NEW f \in Seq(0 .. 255), NEW k, NEW half, Place(f, k, half),
           down_out \in Seq(0 .. 255), Len(down_out) = 1
    PROVE  k = Len(Sealed(f)) /\ ~half /\ Head(down_out) = Mark
<1> DEFINE S == Sealed(f)
           E == Escapings(S)
           e == Encoded(f)
<1>1. /\ k \in 0 .. Len(S) /\ half \in BOOLEAN
      /\ half => k < Len(S) /\ Special(S[k + 1])
      /\ 1 = Len(e) - Len(E[k]) - (IF half THEN 1 ELSE 0)
      /\ \A i \in 1 .. 1 : down_out[i] = e[Len(e) - 1 + i]
  BY DEF Place
<1>2. S \in Seq(0 .. 255) /\ Len(S) \in Nat /\ k \in Nat  BY <1>1, SealedResult
<1>3. Len(e) \in Nat /\ e[Len(e)] = Mark
  <2>1. e[Len(e)] = Mark /\ e \in Seq(0 .. 255)  BY EncodedResult
  <2> QED  BY <2>1
<1>4. Len(E[k]) \in Nat  BY <1>1, <1>2, EscapingsGrow
<1>5. ~(k < Len(S))
  <2> SUFFICES ASSUME k < Len(S) PROVE FALSE  OBVIOUS
  <2>1. /\ Len(E[k + 1]) < Len(e)
        /\ Special(S[k + 1]) => Len(E[k + 1]) = Len(E[k]) + 2
        /\ ~Special(S[k + 1]) => Len(E[k + 1]) = Len(E[k]) + 1
    BY <1>2, EncodedByte
  <2>2. half => Special(S[k + 1])  BY <1>1
  <2>3. 1 = Len(e) - Len(E[k]) - (IF half THEN 1 ELSE 0)  BY <1>1
  <2> HIDE DEF S, E, e
  <2>4. CASE half  BY ONLY <1>3, <1>4, <2>1, <2>2, <2>3, <2>4
  <2>5. CASE ~half
    <3>1. Len(E[k + 1]) >= Len(E[k]) + 1  BY ONLY <1>4, <2>1
    <3> QED  BY ONLY <1>3, <1>4, <2>1, <2>3, <2>5, <3>1
  <2> QED  BY <2>4, <2>5
<1>6. k = Len(S) /\ ~half  BY <1>1, <1>2, <1>5
<1>7. Head(down_out) = down_out[1]  OBVIOUS
<1>8. 1 \in 1 .. 1 /\ Len(e) - 1 + 1 = Len(e)  BY <1>3
<1> QED  BY <1>1, <1>3, <1>6, <1>7, <1>8

(* Nothing has passed of a frame that is all there.                        *)
LEMMA PlaceFirst ==
    ASSUME NEW f \in Seq(0 .. 255), NEW k, NEW half, Place(f, k, half),
           Len(down_out) = Len(Encoded(f))
    PROVE  k = 0 /\ ~half
<1> DEFINE L == Len(Escapings(Sealed(f))[k])
<1>1. /\ k \in 0 .. Len(Sealed(f)) /\ half \in BOOLEAN
      /\ Len(Encoded(f)) = Len(Encoded(f)) - L - (IF half THEN 1 ELSE 0)
  BY DEF Place
<1>2. Sealed(f) \in Seq(0 .. 255)  BY SealedResult
<1>3. L \in Nat /\ L >= k  BY <1>1, <1>2, EscapingsGrow
<1>4. Len(Encoded(f)) \in Nat
  <2>1. Encoded(f) \in Seq(0 .. 255)  BY EncodedResult
  <2> QED  BY <2>1
<1> HIDE DEF L
<1>5. L = 0 /\ ~half  BY <1>1, <1>3, <1>4
<1>6. k \in Nat  BY <1>1
<1> QED  BY <1>3, <1>5, <1>6

(* A frame that is just written is all there.                              *)
LEMMA PlaceWritten ==
    ASSUME NEW f \in Seq(0 .. 255), down_out' = Encoded(f)
    PROVE  Place(f, 0, FALSE)'
<1>1. Sealed(f) \in Seq(0 .. 255)  BY SealedResult
<1>2. Escapings(Sealed(f))[0] = <<>>  BY <1>1, EscapingsResult
<1>3. Len(Sealed(f)) \in Nat  BY <1>1
<1>4. Len(Encoded(f)) \in Nat
  <2>1. Encoded(f) \in Seq(0 .. 255)  BY EncodedResult
  <2> QED  BY <2>1
<1>5. Len(<<>>) = 0  OBVIOUS
<1>6. Len(down_out') = Len(Encoded(f)) - Len(Escapings(Sealed(f))[0]) - 0
  BY <1>2, <1>4, <1>5
<1>7. ASSUME NEW i \in 1 .. Len(down_out')
      PROVE  down_out'[i] = Encoded(f)[Len(Encoded(f)) - Len(down_out') + i]
  <2>1. Len(Encoded(f)) - Len(down_out') + i = i  BY <1>4
  <2> QED  BY <2>1
<1> QED  BY <1>3, <1>6, <1>7 DEF Place

(* A command has at least one byte and, sealed, fits the buffer.           *)
LEMMA OrderLength ==
    ASSUME NEW f \in Orders
    PROVE  /\ f \in Seq(0 .. 255) /\ Sealed(f) \in Seq(0 .. 255)
           /\ Len(Sealed(f)) <= RxBufferSize /\ Len(Sealed(f)) >= 2
           /\ Payload(Sealed(f)) = f /\ Valid(Sealed(f), Commands)
           /\ Encoded(f) \in Seq(0 .. 255) /\ Len(Encoded(f)) # 1
           /\ RxBufferSize \in Nat /\ MaxLost \in Nat
<1>1. /\ RxBufferSize \in Nat /\ MaxLost \in Nat
      /\ f \in Seq(0 .. 255) /\ Down!Valid(Down!Sealed(f), Down!Commands)
      /\ Len(f) < RxBufferSize
  BY OrderAssumption DEF Down!FrameAssumption
<1>2. Valid(Sealed(f), Commands)  BY <1>1, SameFraming
<1>3. /\ Sealed(f) \in Seq(0 .. 255) /\ Len(Sealed(f)) = Len(f) + 1
      /\ Payload(Sealed(f)) = f
  BY <1>1, SealedResult
<1>4. Len(f) \in Nat  BY <1>1
<1>5. Len(Sealed(f)) >= 2  BY <1>2 DEF Valid
<1>6. Encoded(f) \in Seq(0 .. 255) /\ Len(Encoded(f)) # 1
  <2>1. Len(Sealed(f)) \in 0 .. Len(Sealed(f))  BY <1>3, <1>4
  <2> DEFINE at == Len(Escapings(Sealed(f))[Len(Sealed(f))])
  <2>2. at \in Nat /\ at >= Len(Sealed(f))  BY <1>3, <2>1, EscapingsGrow
  <2>3. Encoded(f) \in Seq(0 .. 255) /\ Len(Encoded(f)) = at + 1  BY <1>1, EncodedResult
  <2> HIDE DEF at
  <2> QED  BY <1>3, <1>4, <1>5, <2>2, <2>3
<1> QED  BY <1>1, <1>2, <1>3, <1>4, <1>5, <1>6

LEMMA DownInit == Down!Init => DownInv
<1> SUFFICES ASSUME Down!Init PROVE DownInv  OBVIOUS
<1>1. /\ down_out = <<>> /\ down_rx = <<>> /\ down_rx_full = FALSE /\ down_rx_xor = FALSE
      /\ down_todo = {} /\ down_lost = 0 /\ down_line = <<>> /\ down_last.frame = <<>>
      /\ down_clean = FALSE /\ down_intact = 0
  BY DEF Down!Init, Down!None
<1>2. \A S : <<>> \in Seq(S)  OBVIOUS
<1>3. Len(down_rx) = 0  BY <1>1
<1>4. RxBufferSize \in Nat /\ MaxLost \in Nat  BY OrderAssumption DEF Down!FrameAssumption
<1>5. Down!TypeOK
  <2>1. down_rx_full \in BOOLEAN /\ down_rx_xor \in BOOLEAN /\ down_clean \in BOOLEAN
    BY <1>1
  <2>2. /\ down_out \in Seq(0 .. 255) /\ down_rx \in Seq(0 .. 255)
        /\ down_line \in Seq(Orders) /\ down_last.frame \in Seq(0 .. 255)
    BY <1>1, <1>2
  <2>3. Len(down_rx) <= RxBufferSize /\ down_lost \in 0 .. MaxLost  BY <1>1, <1>3, <1>4
  <2> QED  BY <1>1, <2>1, <2>2, <2>3 DEF Down!TypeOK
<1>6. OrderAgrees /\ RoomAgrees  BY <1>1 DEF OrderAgrees, RoomAgrees, Start
<1> QED  BY <1>5, <1>6 DEF DownInv

(* The main loop: peek() and the stores of discard().                      *)
LEMMA PollKeeps ==
    ASSUME DownInv, Down!Peek \/ Down!StoreAt \/ Down!StoreFull
    PROVE  DownInv'
<1>1. Down!TypeOK /\ OrderAgrees /\ RoomAgrees  BY DEF DownInv
<1>2. UNCHANGED <<down_out, down_rx_xor, down_lost, down_line, down_clean, down_intact>>
  BY DEF Down!Peek, Down!StoreAt, Down!StoreFull, Down!board
(* While a frame is heard in full the main loop has nothing to do.         *)
<1>3. down_todo # {} \/ down_rx_full
  BY DEF Down!Peek, Down!StoreAt, Down!StoreFull
<1>4. Start \/ ~down_clean  BY <1>1, <1>3 DEF RoomAgrees
<1>5. Start' <=> Start  BY <1>2 DEF Start
<1>6. OrderAgrees'
  <2> SUFFICES ASSUME down_out # <<>> PROVE OrderAgrees'  BY <1>2 DEF OrderAgrees
  <2>1. PICK f : f = down_line[Len(down_line)]  OBVIOUS
  <2>2. PICK k \in 0 .. Len(Sealed(f)), half \in BOOLEAN : Place(f, k, half)
    BY <1>1, <2>1 DEF OrderAgrees
  <2>3. Place(f, k, half)'  BY <1>2, <2>2 DEF Place
  <2> QED  BY <1>1, <1>2, <1>4, <1>5, <2>1, <2>3 DEF OrderAgrees
<1>7. CASE Down!Peek
  <2>1. /\ down_rx_full /\ down_todo = {} /\ down_todo' = {"rx_at", "rx_full"}
        /\ down_last' = IF Valid(down_rx, Commands)
                        THEN [frame |-> Payload(down_rx), flip |-> ~down_last.flip]
                        ELSE down_last
        /\ UNCHANGED <<down_rx, down_rx_full>>
    BY <1>7, SameFraming DEF Down!Peek, Down!board
  <2>2. down_rx \in Seq(0 .. 255)  BY <1>1 DEF Down!TypeOK
  <2>3. Payload(down_rx) \in Seq(0 .. 255)  BY <2>2, PayloadBytes
  <2>4. down_last'.frame \in Seq(0 .. 255)  BY <1>1, <2>1, <2>3 DEF Down!TypeOK
  <2>5. Down!TypeOK'  BY <1>1, <1>2, <2>1, <2>4 DEF Down!TypeOK
  <2>6. RoomAgrees'  BY <1>1, <1>2, <1>4, <1>5, <2>1 DEF RoomAgrees
  <2> QED  BY <1>6, <2>5, <2>6 DEF DownInv
<1>8. CASE Down!StoreAt
  <2>1. /\ "rx_at" \in down_todo /\ down_todo' = down_todo \ {"rx_at"} /\ down_rx' = <<>>
        /\ UNCHANGED <<down_rx_full, down_last>>
    BY <1>8 DEF Down!StoreAt
  <2>2. <<>> \in Seq(0 .. 255) /\ Len(<<>>) = 0  OBVIOUS
  <2>3. Len(down_rx') <= RxBufferSize
    BY <2>1, <2>2, OrderAssumption DEF Down!FrameAssumption
  <2>4. Down!TypeOK'  BY <1>1, <1>2, <2>1, <2>2, <2>3 DEF Down!TypeOK
  <2>5. RoomAgrees'  BY <1>1, <1>2, <1>4, <1>5, <2>1 DEF RoomAgrees
  <2> QED  BY <1>6, <2>4, <2>5 DEF DownInv
<1>9. CASE Down!StoreFull
  <2>1. /\ "rx_full" \in down_todo /\ down_todo' = down_todo \ {"rx_full"}
        /\ down_rx_full' = FALSE
        /\ UNCHANGED <<down_rx, down_last>>
    BY <1>9 DEF Down!StoreFull
  <2>2. Down!TypeOK'  BY <1>1, <1>2, <2>1 DEF Down!TypeOK
  <2>3. RoomAgrees'  BY <1>1, <1>2, <1>4, <1>5, <2>1 DEF RoomAgrees
  <2> QED  BY <1>6, <2>2, <2>3 DEF DownInv
<1> QED  BY <1>7, <1>8, <1>9

LEMMA SendKeeps ==
    ASSUME DownInv, NEW f \in Orders, Down!Send(f)
    PROVE  DownInv'
<1>1. Down!TypeOK /\ OrderAgrees /\ RoomAgrees  BY DEF DownInv
<1>2. /\ down_out = <<>> /\ down_out' = Encoded(f)
      /\ down_line' = Append(down_line, f) /\ down_clean' = TRUE
      /\ UNCHANGED <<down_rx, down_rx_full, down_rx_xor, down_todo, down_lost, down_last,
                     down_intact>>
  BY SameFraming DEF Down!Send, Down!board
<1>3. f \in Seq(0 .. 255)  BY OrderLength
<1>4. Encoded(f) \in Seq(0 .. 255)  BY <1>3, EncodedResult
<1>5. down_line' \in Seq(Orders) /\ down_line' # <<>> /\ down_line'[Len(down_line')] = f
  BY <1>1, <1>2 DEF Down!TypeOK
<1>6. Down!TypeOK'  BY <1>1, <1>2, <1>4, <1>5 DEF Down!TypeOK
<1>7. Start /\ Start'  BY <1>2, <1>5 DEF Start
<1>8. OrderAgrees'
  <2>1. Place(f, 0, FALSE)'  BY <1>2, <1>3, PlaceWritten
  <2>2. 0 \in 0 .. Len(Sealed(f)) /\ FALSE \in BOOLEAN  BY <2>1 DEF Place
  <2> QED  BY <1>5, <1>7, <2>1, <2>2 DEF OrderAgrees
<1>9. RoomAgrees'  BY <1>1, <1>2, <1>7 DEF RoomAgrees
<1> QED  BY <1>6, <1>8, <1>9 DEF DownInv

(* The buffer keeps within its array.                                      *)
LEMMA HearTypes ==
    ASSUME Down!TypeOK, NEW byte \in 0 .. 255, Down!Hear(byte)
    PROVE  /\ down_rx' \in Seq(0 .. 255) /\ Len(down_rx') <= RxBufferSize
           /\ down_rx_full' \in BOOLEAN /\ down_rx_xor' \in BOOLEAN
<1>1. /\ down_rx \in Seq(0 .. 255) /\ Len(down_rx) <= RxBufferSize
      /\ down_rx_full \in BOOLEAN /\ down_rx_xor \in BOOLEAN
      /\ RxBufferSize \in Nat
  BY OrderAssumption DEF Down!TypeOK, Down!FrameAssumption
<1>2. CASE UNCHANGED down_rx
  <2>1. \/ UNCHANGED <<down_rx_full, down_rx_xor>>
        \/ down_rx_full' = TRUE /\ UNCHANGED down_rx_xor
        \/ down_rx_xor' = TRUE /\ UNCHANGED down_rx_full
        \/ Down!Store(byte) /\ UNCHANGED down_rx_full
    BY DEF Down!Hear, Down!board
  <2>2. Down!Store(byte) => down_rx_xor' \in BOOLEAN  BY <1>1 DEF Down!Store
  <2> QED  BY <1>1, <1>2, <2>1, <2>2
<1>3. CASE ~UNCHANGED down_rx
  <2>1. Down!Store(byte) /\ UNCHANGED down_rx_full
    BY <1>3 DEF Down!Hear, Down!board
  <2> DEFINE heard == IF down_rx_xor THEN Flip(byte) ELSE byte
  <2>2. heard \in 0 .. 255  BY FlipResult
  <2>3. Len(down_rx) # RxBufferSize /\ down_rx' = Append(down_rx, heard)
        /\ down_rx_xor' = FALSE
    BY <1>3, <2>1, SameFraming DEF Down!Store
  <2> HIDE DEF heard
  <2>4. Append(down_rx, heard) \in Seq(0 .. 255)
        /\ Len(Append(down_rx, heard)) = Len(down_rx) + 1
    BY <1>1, <2>2
  <2>5. Len(down_rx) \in Nat  BY <1>1
  <2>6. Len(down_rx) + 1 <= RxBufferSize  BY <1>1, <2>3, <2>5
  <2> QED  BY <1>1, <2>1, <2>3, <2>4, <2>6
<1> QED  BY <1>2, <1>3

(* A mark and an escape that are heard.                                    *)
LEMMA HearSpecial ==
    ASSUME NEW byte, Down!Hear(byte), ~down_rx_full
    PROVE  /\ byte = Mark => down_rx_full' = TRUE /\ UNCHANGED <<down_rx, down_rx_xor>>
           /\ byte = Escape => down_rx_xor' = TRUE /\ UNCHANGED <<down_rx, down_rx_full>>
<1>1. Mark # Escape  BY DEF Mark, Escape
<1> QED  BY <1>1, SameFraming DEF Down!Hear

LEMMA LoseKeeps ==
    ASSUME DownInv, Down!LoseByte
    PROVE  DownInv'
<1>1. Down!TypeOK /\ OrderAgrees /\ RoomAgrees  BY DEF DownInv
<1>2. /\ down_out # <<>> /\ down_out' = Tail(down_out)
      /\ down_lost < MaxLost /\ down_lost' = down_lost + 1 /\ down_clean' = FALSE
      /\ Len(down_out) > 1 => down_intact' = down_intact
      /\ ~(Len(down_out) > 1) => down_intact' = 0
      /\ UNCHANGED <<down_rx, down_rx_full, down_rx_xor, down_line, down_todo, down_last>>
  BY DEF Down!LoseByte, Down!Passes, Down!board
<1>3. down_out \in Seq(0 .. 255) /\ Tail(down_out) \in Seq(0 .. 255)
      /\ Len(down_out) \in Nat /\ Len(down_out) >= 1
      /\ Len(Tail(down_out)) = Len(down_out) - 1
  <2>1. down_out \in Seq(0 .. 255)  BY <1>1 DEF Down!TypeOK
  <2> QED  BY <1>2, <2>1
<1>4. Down!TypeOK'
  <2>1. down_lost' \in 0 .. MaxLost
    BY <1>1, <1>2, OrderAssumption DEF Down!TypeOK, Down!FrameAssumption
  <2>2. down_clean' \in BOOLEAN  BY <1>2
  <2>3. down_intact' \in 0 .. 2
    <3>1. down_intact' = down_intact \/ down_intact' = 0  BY <1>2
    <3> QED  BY <1>1, <3>1 DEF Down!TypeOK
  <2> QED  BY <1>1, <1>2, <1>3, <2>1, <2>2, <2>3 DEF Down!TypeOK
<1>5. PICK f : f = down_line[Len(down_line)]  OBVIOUS
<1>6. PICK k \in 0 .. Len(Sealed(f)), half \in BOOLEAN : Place(f, k, half)
  BY <1>1, <1>2, <1>5 DEF OrderAgrees
<1>7. down_line # <<>> /\ f \in Orders /\ f \in Seq(0 .. 255)
  <2>1. down_line # <<>>  BY <1>1, <1>2 DEF OrderAgrees
  <2>2. f \in Orders  BY <1>1, <1>5, <2>1 DEF Down!TypeOK
  <2> QED  BY <2>1, <2>2, OrderLength
<1>8. CASE Len(down_out) > 1
  <2>1. \E j, h : Place(f, j, h)'
    BY <1>2, <1>3, <1>6, <1>7, <1>8, PlaceNext
  <2>2. PICK j, h : Place(f, j, h)'  BY <2>1
  <2>3. j \in 0 .. Len(Sealed(f)) /\ h \in BOOLEAN  BY <2>2 DEF Place
  <2>4. down_out' # <<>> /\ Len(down_out') # Len(Encoded(f))
    BY <1>2, <1>3, <1>6, <1>7, <1>8, PlaceNext
  <2>5. ~Start'  BY <1>2, <1>5, <2>4 DEF Start
  <2>6. OrderAgrees'  BY <1>2, <1>5, <1>7, <2>2, <2>3 DEF OrderAgrees
  <2>7. RoomAgrees'  BY <1>2, <2>5 DEF RoomAgrees
  <2> QED  BY <1>4, <2>6, <2>7 DEF DownInv
<1>9. CASE ~(Len(down_out) > 1)
  <2>1. down_out' = <<>>
    <3>1. Len(Tail(down_out)) = 0  BY <1>3, <1>9
    <3> QED  BY <1>2, <1>3, <3>1, EmptySeq
  <2>2. OrderAgrees' /\ RoomAgrees'  BY <1>2, <1>9, <2>1 DEF OrderAgrees, RoomAgrees, Start
  <2> QED  BY <1>4, <2>2 DEF DownInv
<1> QED  BY <1>8, <1>9

LEMMA RxKeeps ==
    ASSUME DownInv, Down!RxNext
    PROVE  /\ DownInv'
           /\ Len(down_out) = 1 /\ down_clean' /\ down_intact = 2 =>
                 Down!Box' = down_line[Len(down_line)]
<1>1. Down!TypeOK /\ OrderAgrees /\ RoomAgrees  BY DEF DownInv
<1> DEFINE byte == Head(down_out)
<1>2. /\ down_out # <<>> /\ down_out' = Tail(down_out)
      /\ Down!Hear(byte)
      /\ down_clean' = (down_clean /\ ~down_rx_full /\ down_todo = {})
      /\ down_line' = IF byte = Mark THEN <<>> ELSE down_line
      /\ UNCHANGED <<down_lost, down_todo, down_last>>
  BY SameFraming DEF Down!RxNext, Down!Passes
<1>3. /\ Len(down_out) > 1 => down_intact' = down_intact
      /\ ~(Len(down_out) > 1) =>
            /\ ~down_clean' => down_intact' = 0
            /\ down_clean' => down_intact' = IF down_intact = 2 THEN 2 ELSE down_intact + 1
  BY DEF Down!RxNext, Down!Passes
<1>4. /\ down_out \in Seq(0 .. 255) /\ Tail(down_out) \in Seq(0 .. 255)
      /\ Len(down_out) \in Nat /\ Len(down_out) >= 1
      /\ Len(Tail(down_out)) = Len(down_out) - 1
      /\ byte \in 0 .. 255
  <2>1. down_out \in Seq(0 .. 255)  BY <1>1 DEF Down!TypeOK
  <2>2. /\ Tail(down_out) \in Seq(0 .. 255)
        /\ Len(down_out) \in Nat /\ Len(down_out) >= 1
        /\ Len(Tail(down_out)) = Len(down_out) - 1
    BY <1>2, <2>1
  <2>3. Head(down_out) \in 0 .. 255  BY <1>2, <2>1, HeadTailProperties
  <2> QED  BY <2>1, <2>2, <2>3
<1>5. down_intact \in 0 .. 2  BY <1>1 DEF Down!TypeOK
<1> HIDE DEF byte
<1>6. PICK f : f = down_line[Len(down_line)]  OBVIOUS
<1>7. down_line # <<>> /\ f \in Orders
  <2>1. down_line # <<>>  BY <1>1, <1>2 DEF OrderAgrees
  <2> QED  BY <1>1, <1>6, <2>1 DEF Down!TypeOK
<1>8. /\ f \in Seq(0 .. 255) /\ Sealed(f) \in Seq(0 .. 255)
      /\ Len(Sealed(f)) <= RxBufferSize /\ RxBufferSize \in Nat
      /\ Payload(Sealed(f)) = f /\ Valid(Sealed(f), Commands)
      /\ Len(Encoded(f)) # 1
  BY <1>7, OrderLength
<1>9. PICK k \in 0 .. Len(Sealed(f)), half \in BOOLEAN :
         /\ Place(f, k, half)
         /\ ~Start /\ down_clean /\ down_intact > 0 => Heard(f, k, half)
  BY <1>1, <1>2, <1>6 DEF OrderAgrees
(* What the interrupt has of the frame, if it heard all of it.             *)
<1>10. ASSUME down_clean', down_intact > 0
       PROVE  /\ ~down_rx_full /\ down_todo = {}
              /\ Len(down_rx) = k /\ (half => down_rx_xor)
              /\ down_intact = 2 => /\ down_rx_xor = half
                                    /\ \A i \in 1 .. k : down_rx[i] = Sealed(f)[i]
              /\ Len(down_out) = 1 => down_rx_xor = half
  <2>1. down_clean /\ ~down_rx_full /\ down_todo = {}  BY <1>2, <1>10
  <2>2. CASE Start
    <3>1. Len(down_out) = Len(Encoded(f))  BY <1>2, <1>6, <2>2 DEF Start
    <3>2. k = 0 /\ ~half  BY <1>8, <1>9, <3>1, PlaceFirst
    <3>3. down_rx = <<>> /\ (down_intact = 2 => ~down_rx_xor)
      BY <1>1, <1>10, <2>1, <2>2 DEF RoomAgrees
    <3>4. Len(down_rx) = 0  BY <3>3
    <3>5. down_intact = 2 => down_rx_xor = half  BY <1>1, <3>2, <3>3 DEF Down!TypeOK
    <3>6. Len(down_out) # 1  BY <1>8, <3>1
    <3> QED  BY <2>1, <3>2, <3>4, <3>5, <3>6
  <2>3. CASE ~Start
    <3>1. Heard(f, k, half)  BY <1>9, <1>10, <2>1, <2>3
    <3> QED  BY <2>1, <3>1 DEF Heard
  <2> QED  BY <2>2, <2>3
<1>11. /\ down_rx' \in Seq(0 .. 255) /\ Len(down_rx') <= RxBufferSize
       /\ down_rx_full' \in BOOLEAN /\ down_rx_xor' \in BOOLEAN
  BY <1>1, <1>2, <1>4, HearTypes
<1>12. down_clean' \in BOOLEAN /\ down_line' \in Seq(Orders)
  <2>1. <<>> \in Seq(Orders)  OBVIOUS
  <2>2. down_clean' \in BOOLEAN  BY <1>2
  <2>3. down_line' \in Seq(Orders)  BY <1>1, <1>2, <2>1 DEF Down!TypeOK
  <2> QED  BY <2>2, <2>3
<1>13. down_intact' \in 0 .. 2
  <2>1. down_intact' = down_intact \/ down_intact' = 0
        \/ down_intact' = IF down_intact = 2 THEN 2 ELSE down_intact + 1
    BY <1>3
  <2> QED  BY ONLY <1>5, <2>1
<1>14. Down!TypeOK'  BY <1>1, <1>2, <1>4, <1>11, <1>12, <1>13 DEF Down!TypeOK
<1>15. CASE Len(down_out) > 1
  <2> DEFINE next == Sealed(f)[k + 1]
  <2>1. /\ k \in Nat /\ k < Len(Sealed(f)) /\ next \in 0 .. 255
        /\ down_out' # <<>> /\ Len(down_out') # Len(Encoded(f))
        /\ half => /\ Special(next) /\ byte = Flip(next)
                   /\ Place(f, k + 1, FALSE)'
        /\ ~half /\ Special(next) => byte = Escape /\ Place(f, k, TRUE)'
        /\ ~half /\ ~Special(next) => byte = next /\ Place(f, k + 1, FALSE)'
    BY <1>2, <1>4, <1>8, <1>9, <1>15, PlaceNext DEF byte
  <2>2. Special(next) => Flip(Flip(next)) = next /\ ~Special(Flip(next))
    BY <2>1, FlipResult
  <2> HIDE DEF next
  <2>3. byte # Mark
    <3>1. CASE half  BY <2>1, <2>2, <3>1 DEF Special
    <3>2. CASE ~half /\ Special(next)  BY <2>1, <3>2 DEF Mark, Escape
    <3>3. CASE ~half /\ ~Special(next)  BY <2>1, <3>3 DEF Special
    <3> QED  BY <3>1, <3>2, <3>3
  <2>4. down_line' = down_line /\ down_intact' = down_intact  BY <1>2, <1>3, <1>15, <2>3
  <2>5. ~Start'  BY <1>6, <2>1, <2>4 DEF Start
  <2>6. ASSUME down_clean' PROVE ~down_rx_full /\ ~down_rx_full' /\ down_todo' = {}
    <3>1. ~down_rx_full /\ down_todo = {}  BY <1>2, <2>6
    <3>2. UNCHANGED down_rx_full
      BY <1>2, <2>3, SameFraming DEF Down!Hear, Down!board
    <3> QED  BY <1>2, <3>1, <3>2
  <2>7. RoomAgrees'  BY <2>5, <2>6 DEF RoomAgrees
  <2>8. \E j, h : Place(f, j, h)' /\ (down_clean' /\ down_intact > 0 => Heard(f, j, h)')
    <3>1. CASE ~(down_clean' /\ down_intact > 0)  BY <1>9, <2>1, <3>1
    <3>2. CASE down_clean' /\ down_intact > 0
      <4>1. /\ ~down_rx_full /\ Len(down_rx) = k /\ (half => down_rx_xor)
            /\ down_intact = 2 => /\ down_rx_xor = half
                                  /\ \A i \in 1 .. k : down_rx[i] = Sealed(f)[i]
        BY <1>10, <3>2
      <4>2. CASE ~half /\ Special(next)
        <5>1. byte = Escape /\ Place(f, k, TRUE)'  BY <2>1, <4>2
        <5>2. down_rx_xor' = TRUE /\ down_rx' = down_rx  BY <1>2, <4>1, <5>1, HearSpecial
        <5>3. Heard(f, k, TRUE)'  BY <2>4, <4>1, <5>2 DEF Heard
        <5> QED  BY <5>1, <5>3
      <4>3. CASE half \/ ~Special(next)
        <5> DEFINE heard == IF down_rx_xor THEN Flip(byte) ELSE byte
        <5>1. Place(f, k + 1, FALSE)'  BY <1>9, <2>1, <4>3
        <5>2. byte # Escape  BY <2>1, <2>2, <4>3 DEF Special
        <5>3. Len(down_rx) # RxBufferSize  BY <1>8, <2>1, <4>1
        <5>4. down_rx' = Append(down_rx, heard) /\ down_rx_xor' = FALSE
          <6>1. Down!Hear(byte) /\ ~down_rx_full  BY <1>2, <4>1
          <6>2. byte # Mark /\ byte # Escape /\ Len(down_rx) # RxBufferSize
            BY <2>3, <5>2, <5>3
          <6>3. Down!Store(byte)  BY <6>1, <6>2, SameFraming DEF Down!Hear
          <6> QED  BY <6>2, <6>3, SameFraming DEF Down!Store
        <5>5. down_intact = 2 => heard = next  BY <1>9, <2>1, <2>2, <4>1, <4>3
        <5>6. heard \in 0 .. 255  BY <1>4, FlipResult
        <5> HIDE DEF heard
        <5>7. down_rx \in Seq(0 .. 255)  BY <1>1 DEF Down!TypeOK
        <5>8. /\ Len(Append(down_rx, heard)) = Len(down_rx) + 1
              /\ \A i \in 1 .. Len(down_rx) : Append(down_rx, heard)[i] = down_rx[i]
              /\ Append(down_rx, heard)[Len(down_rx) + 1] = heard
          BY <5>6, <5>7
        <5>9. down_intact = 2 => \A i \in 1 .. k + 1 : down_rx'[i] = Sealed(f)[i]
          <6>1. \A i \in 1 .. k + 1 : i \in 1 .. k \/ i = k + 1  BY <2>1
          <6> QED  BY <4>1, <5>4, <5>5, <5>8, <6>1 DEF next
        <5>10. Heard(f, k + 1, FALSE)'  BY <2>4, <4>1, <5>4, <5>8, <5>9 DEF Heard
        <5> QED  BY <5>1, <5>10
      <4> QED  BY <4>2, <4>3
    <3> QED  BY <3>1, <3>2
  <2>9. PICK j, h : Place(f, j, h)' /\ (down_clean' /\ down_intact > 0 => Heard(f, j, h)')
    BY <2>8
  <2>10. j \in 0 .. Len(Sealed(f)) /\ h \in BOOLEAN  BY <2>9 DEF Place
  <2>11. OrderAgrees'  BY <1>6, <1>7, <2>4, <2>9, <2>10 DEF OrderAgrees
  <2>12. Len(down_out) # 1  BY <1>4, <1>15
  <2> QED  BY <1>14, <2>7, <2>11, <2>12 DEF DownInv
<1>16. CASE Len(down_out) = 1
  <2>1. k = Len(Sealed(f)) /\ ~half /\ byte = Mark
    BY <1>4, <1>8, <1>9, <1>16, PlaceLast DEF byte
  <2>2. down_out' = <<>>
    <3>1. Len(Tail(down_out)) = 0  BY <1>4, <1>16
    <3> QED  BY <1>2, <1>4, <3>1, EmptySeq
  <2>3. OrderAgrees'  BY <2>2 DEF OrderAgrees
  <2>4. Start'  BY <2>2 DEF Start
  <2>5. ASSUME down_clean'
        PROVE  down_rx_full' = TRUE /\ UNCHANGED <<down_rx, down_rx_xor>> /\ down_todo' = {}
    <3>1. ~down_rx_full /\ down_todo = {}  BY <1>2, <2>5
    <3> QED  BY <1>2, <2>1, <3>1, HearSpecial
  <2>6. down_intact' = 2 => down_clean' /\ down_intact > 0  BY <1>3, <1>5, <1>16
  <2>7. down_intact' > 0 => down_clean'  BY <1>3, <1>16
  <2>8. down_intact' = 2 => ~down_rx_xor'  BY <1>10, <1>16, <2>1, <2>5, <2>6
  <2>9. RoomAgrees'  BY <2>4, <2>5, <2>7, <2>8 DEF RoomAgrees
  <2>10. ASSUME down_clean', down_intact = 2
         PROVE  Down!Box' = down_line[Len(down_line)]
    <3>1. Len(down_rx) = k /\ \A i \in 1 .. k : down_rx[i] = Sealed(f)[i]
      BY <1>10, <2>10
    <3>2. down_rx \in Seq(0 .. 255)  BY <1>1 DEF Down!TypeOK
    <3>3. down_rx = Sealed(f)  BY <1>8, <2>1, <3>1, <3>2, SeqEqual
    <3> QED  BY <1>6, <1>8, <2>5, <2>10, <3>3, SameFraming DEF Down!Box
  <2> QED  BY <1>14, <2>3, <2>9, <2>10 DEF DownInv
<1> QED  BY <1>4, <1>15, <1>16

LEMMA DownInvariant == LinkSpec => []DownInv
<1>1. LinkInit => DownInv  BY DownInit DEF LinkInit
<1>2. DownInv /\ [LinkNext]_<<direction, vars, down>> => DownInv'
  <2> SUFFICES ASSUME DownInv, [LinkNext]_<<direction, vars, down>> PROVE DownInv'  OBVIOUS
  <2>1. CASE Down!Next
    <3>1. ASSUME NEW f \in Orders, Down!Send(f) PROVE DownInv'  BY <3>1, SendKeeps
    <3> QED  BY <2>1, <3>1, RxKeeps, LoseKeeps, PollKeeps DEF Down!Next
  <2>2. CASE UNCHANGED down
    <3>1. Down!TypeOK'  BY <2>2 DEF down, DownInv, Down!TypeOK
    <3>2. \A f, k, half : Place(f, k, half)' = Place(f, k, half)
      BY <2>2 DEF down, Place
    <3>3. \A f, k, half : Heard(f, k, half)' = Heard(f, k, half)
      BY <2>2 DEF down, Heard
    <3>4. Start' = Start  BY <2>2 DEF down, Start
    <3>5. OrderAgrees'  BY <2>2, <3>2, <3>3, <3>4 DEF down, DownInv, OrderAgrees
    <3>6. RoomAgrees'  BY <2>2, <3>4 DEF down, DownInv, RoomAgrees
    <3> QED  BY <3>1, <3>5, <3>6 DEF DownInv
  <2> QED  BY <2>1, <2>2 DEF LinkNext, Up, Downward
<1> QED  BY <1>1, <1>2, PTL DEF LinkSpec

-----------------------------------------------------------------------------
(* The buffers keep within their arrays, whatever the line loses and       *)
(* whatever comes in while a frame waits: rx_next() within rx_, and        *)
(* Link.Watch within the frame it gives up at MaxFrame.                    *)
THEOREM LinkTypeCorrect == LinkSpec => []LinkTypeOK
<1>1. UpInv /\ DownInv => LinkTypeOK  BY DEF UpInv, DownInv, LinkTypeOK
<1> QED  BY <1>1, UpInvariant, DownInvariant, PTL

(* When send() is done and its frame is not yet out, the transmit          *)
(* interrupt is enabled: no order of the stores leaves the line waiting.   *)
THEOREM InterruptEnabled == LinkSpec => [](todo = {} /\ tx_at <= tx_end => udrie)
<1>1. UpInv => (todo = {} /\ tx_at <= tx_end => udrie)  BY DEF UpInv, BufferAgrees
<1> QED  BY <1>1, UpInvariant, PTL

(* A command of which every byte is heard, sent after two others heard in  *)
(* full, is there for peek().                                              *)
THEOREM OrdersAreHeard == LinkSpec => OrdersRecover
<1>1. DownInv /\ [LinkNext]_<<direction, vars, down>>
      => [(Down!RxNext /\ Len(down_out) = 1 /\ down_clean' /\ down_intact = 2) =>
             Down!Box' = down_line[Len(down_line)]]_(Down!vars)
  BY RxKeeps
<1> QED  BY <1>1, DownInvariant, PTL DEF LinkSpec, OrdersRecover, Down!Recovers

-----------------------------------------------------------------------------
(* The promise of the line.                                                *)

(* A payload reads as itself.                                              *)
LEMMA ReadsItself ==
    ASSUME NEW f \in Seq(0 .. 255)
    PROVE  f \in Readings(f)
<1> DEFINE places == {i \in 1 .. Len(f) : Special(f[i])}
           FlippedAt(some) ==
               [i \in 1 .. Len(f) |-> IF i \in some THEN Flip(f[i]) ELSE f[i]]
<1>1. FlippedAt({}) = f  OBVIOUS
<1>2. {} \in SUBSET places  OBVIOUS
<1>3. f \in {FlippedAt(some) : some \in SUBSET places}
  <2> HIDE DEF places, FlippedAt
  <2> QED  BY <1>1, <1>2
<1> QED  BY <1>3 DEF Readings

(* A mark is heard, what came since the one before it passes every check,  *)
(* and this is not a report that was heard whole behind one heard whole.   *)
Doubtful ==
    PutMark /\ last' # last /\ ~(Whole /\ clean' /\ intact = 1)

LEMMA ReportStep ==
    ASSUME UpInv, Next
    PROVE  Doubtful \/ [Link!Next]_(Link!vars)
<1>1. ASSUME NEW f \in Frames, Fill(f) PROVE Link!Next
  BY <1>1 DEF Fill, reader, Link!Begin, Link!Next
<1>2. CASE Stores
  BY <1>2 DEF Stores, StoreEnd, StoreAt, EnableTx, reader, Link!vars
<1>3. CASE PutByte
  <2>1. ASSUME NEW byte, byte # Mark, Put(byte) PROVE last' = last
    BY <2>1 DEF Put, Hear, HearByte
  <2>2. Mark # Escape /\ Special(Mark)  BY DEF Mark, Escape, Special
  <2>3. last' = last /\ line' = line
    BY <1>3, <2>1, <2>2 DEF PutByte, LoseByte, reader
  <2> QED  BY <2>3 DEF Link!vars
<1>4. CASE PutMark
  <2>1. CASE LoseByte /\ UNCHANGED line  BY <2>1 DEF LoseByte, reader, Link!vars
  <2>2. CASE Put(Mark) /\ line' = IF Whole THEN <<>> ELSE <<line[Len(line)]>>
    <3>1. line \in Seq(Frames) /\ tx_at \in 0 .. 23 /\ tx_end \in 0 .. 22
      BY DEF UpInv, TypeOK
    <3>2. ~Whole => line # <<>>  BY <1>4, <3>1, SendingAgrees DEF PutMark
    <3>3. PICK n \in Nat : n = Len(line)  BY <3>1, LenProperties
    <3>4. SubSeq(line, n + 1, n) = <<>>  BY <3>1, <3>3, SubSeqProperties, EmptySeq
    <3>5. CASE last' = last
      <4>1. CASE Whole
        <5>1. 1 <= n + 1 /\ n + 1 \in 0 + 1 .. Len(line) + 1  BY <3>3
        <5> QED  BY <2>2, <3>3, <3>4, <3>5, <4>1, <5>1
                 DEF Link!Leaves, Link!Lose, Link!Next
      <4>2. CASE ~Whole
        <5>1. n # 0  BY <3>1, <3>2, <3>3, <4>2, EmptySeq
        <5>2. n \in 0 + 1 .. Len(line) + 1  BY <3>3, <5>1
        <5>3. SubSeq(line, n, n) = <<line[n]>>
          <6>1. PICK t : t = SubSeq(line, n, n)  OBVIOUS
          <6>2. t \in Seq(Frames) /\ Len(t) = 1 /\ t[1] = line[n]
            BY <3>1, <3>3, <5>1, <6>1, SubSeqProperties
          <6>3. line[n] \in Frames  BY <3>1, <3>3, <5>1, ElementOfSeq
          <6>4. PICK x : x = line[n]  OBVIOUS
          <6>5. <<x>> \in Seq(Frames) /\ Len(<<x>>) = 1 /\ <<x>>[1] = x
            BY <6>3, <6>4
          <6>6. \A i \in 1 .. 1 : i = 1  OBVIOUS
          <6>7. t = <<x>>  BY <6>2, <6>4, <6>5, <6>6, SeqEqual
          <6> QED  BY <6>1, <6>4, <6>7
        <5> QED  BY <2>2, <3>3, <3>5, <4>2, <5>2, <5>3
                 DEF Link!Leaves, Link!Lose, Link!Next
      <4> QED  BY <4>1, <4>2
    <3>6. CASE last' # last /\ ~(Whole /\ clean' /\ intact = 1)
      BY <1>4, <3>6 DEF Doubtful
    <3>7. CASE Whole /\ clean' /\ intact = 1
      <4>1. last' = [frame |-> line[n], flip |-> ~last.flip]
        BY <1>4, <3>3, <3>7, WholeHeard
      <4>2. line # <<>>
        <5>1. todo = {} /\ tx_at <= tx_end /\ clean
          BY <1>4, <2>2, <3>1, <3>7, SendingAgrees DEF PutMark, Put
        <5> QED  BY <3>1, <3>7, <5>1 DEF UpInv, IntactAgrees, Idle
      <4>3. n \in 1 .. Len(line) /\ n + 1 \in n + 1 .. Len(line) + 1
        BY <3>1, <3>3, <4>2, EmptySeq
      <4>4. Link!Leaves(n)  BY <2>2, <3>3, <3>4, <3>7, <4>3 DEF Link!Leaves
      <4>5. line[n] \in Frames  BY <3>1, <3>3, <4>3, ElementOfSeq
      <4>6. line[n] \in ReadableAs(line[n])
        BY <4>5, FrameAssumption, ReadsItself DEF ReadableAs, Readable
      <4> QED  BY <4>1, <4>3, <4>4, <4>6 DEF Link!Deliver, Link!Taken, Link!Next
    <3> QED  BY <3>5, <3>6, <3>7
  <2> QED  BY <1>4, <2>1, <2>2 DEF PutMark
<1> QED  BY <1>1, <1>2, <1>3, <1>4 DEF Next, Interrupt

(* But for such marks the reports are what LossyLink promises: they come   *)
(* out as they went in, whole, once and in order.                          *)
THEOREM ReportsImplementButForDamage ==
    LinkSpec => Link!Init /\ [][Doubtful \/ [Link!Next]_(Link!vars)]_vars
<1>1. LinkInit => Link!Init  BY DEF LinkInit, Init, Link!Init
<1>2. UpInv /\ [LinkNext]_<<direction, vars, down>>
      => [Doubtful \/ [Link!Next]_(Link!vars)]_vars
  BY ReportStep DEF LinkNext, Up, Downward
<1> QED  BY <1>1, <1>2, UpInvariant, PTL DEF LinkSpec

(* The same of the commands: what peek() will find, other than a command   *)
(* heard whole behind two heard whole.                                     *)
DoubtfulOrder ==
    Down!RxNext /\ Down!Box' # Down!Box /\ ~(down_clean' /\ down_intact = 2)

(* A mark is the end of a frame.                                           *)
LEMMA NoMarkYet ==
    ASSUME NEW f \in Seq(0 .. 255), NEW k, NEW half, Place(f, k, half),
           down_out \in Seq(0 .. 255), Len(down_out) > 1, down_out' = Tail(down_out)
    PROVE  Head(down_out) # Mark
<1> DEFINE next == Sealed(f)[k + 1]
<1>1. half \in BOOLEAN  BY DEF Place
<1>2. /\ next \in 0 .. 255
      /\ half => Special(next) /\ Head(down_out) = Flip(next)
      /\ ~half /\ Special(next) => Head(down_out) = Escape
      /\ ~half /\ ~Special(next) => Head(down_out) = next
  BY <1>1, PlaceNext
<1> HIDE DEF next
<1>3. Special(Mark) /\ Mark # Escape  BY DEF Special, Mark, Escape
<1>4. CASE half  BY <1>2, <1>3, <1>4, FlipResult
<1>5. CASE ~half  BY ONLY <1>2, <1>3, <1>5
<1> QED  BY <1>1, <1>4, <1>5

LEMMA OnlyTheEnd ==
    ASSUME DownInv, Down!RxNext, Head(down_out) = Mark
    PROVE  Len(down_out) = 1 /\ down_line # <<>>
<1>1. down_out # <<>> /\ down_out' = Tail(down_out)  BY DEF Down!RxNext, Down!Passes
<1>2. down_out \in Seq(0 .. 255) /\ down_line \in Seq(Orders)
  BY DEF DownInv, Down!TypeOK
<1>3. PICK f : f = down_line[Len(down_line)]  OBVIOUS
<1>4. down_line # <<>>  BY <1>1 DEF DownInv, OrderAgrees
<1>5. f \in Orders  BY <1>2, <1>3, <1>4, ElementOfSeq, EmptySeq
<1>6. f \in Seq(0 .. 255)  BY <1>5, OrderLength
<1>7. PICK k, half : Place(f, k, half)
  BY <1>1, <1>3 DEF DownInv, OrderAgrees
<1>8. PICK m \in Nat : m = Len(down_out)  BY <1>2, LenProperties
<1>9. m # 0  BY <1>1, <1>2, <1>8, EmptySeq
<1>10. ~(m > 1)
  <2> SUFFICES ASSUME m > 1 PROVE FALSE  OBVIOUS
  <2>1. down_out \in Seq(0 .. 255) /\ Len(down_out) > 1  BY <1>2, <1>8
  <2>2. Head(down_out) # Mark  BY ONLY <1>1, <1>6, <1>7, <2>1, NoMarkYet
  <2> QED  BY <2>2
<1> QED  BY <1>4, <1>8, <1>9, <1>10

(* No frame is empty that peek() returns.                                  *)
LEMMA BoxResult ==
    ASSUME Down!TypeOK
    PROVE  /\ down_rx_full /\ down_todo = {} /\ Valid(down_rx, Commands) =>
                 Down!Box = Payload(down_rx) /\ Payload(down_rx) # <<>>
           /\ ~(down_rx_full /\ down_todo = {} /\ Valid(down_rx, Commands)) =>
                 Down!Box = <<>>
<1>1. ASSUME Valid(down_rx, Commands) PROVE Payload(down_rx) # <<>>
  <2>1. /\ Payload(down_rx)[1] \in DOMAIN Commands
        /\ Len(Payload(down_rx)) = Commands[Payload(down_rx)[1]]
    BY <1>1 DEF Valid
  <2>2. \A code \in DOMAIN Commands : Commands[code] \in {2, 8}  BY DEF Commands
  <2>3. Len(Payload(down_rx)) \in {2, 8}  BY <2>1, <2>2
  <2>4. Len(<<>>) = 0  OBVIOUS
  <2> QED  BY <2>3, <2>4
<1>2. Down!Payload(down_rx) = Payload(down_rx)
      /\ Down!Valid(down_rx, Down!Commands) = Valid(down_rx, Commands)
  BY SameFraming
<1>3. Down!None = <<>>  BY DEF Down!None
<1> QED  BY <1>1, <1>2, <1>3 DEF Down!Box

(* Whatever became of the frames on the line, none is left behind a mark.  *)
LEMMA LineEmptied ==
    ASSUME NEW n \in Nat, n = Len(down_line), down_line \in Seq(Orders), down_line' = <<>>
    PROVE  OrderLink!Leaves(n) /\ OrderLink!Leaves(0)
<1>1. SubSeq(down_line, n + 1, n) = <<>>  BY SubSeqProperties, EmptySeq
<1>2. n + 1 \in n + 1 .. Len(down_line) + 1 /\ n + 1 \in 0 + 1 .. Len(down_line) + 1
  OBVIOUS
<1> QED  BY <1>1, <1>2 DEF OrderLink!Leaves

LEMMA OrderStep ==
    ASSUME DownInv, Down!TypeOK', Down!Next
    PROVE  DoubtfulOrder \/ [OrderLink!Next]_(OrderLink!vars)
<1>1. Down!TypeOK /\ down_line \in Seq(Orders)  BY DEF DownInv, Down!TypeOK
<1>2. ASSUME UNCHANGED <<down_rx, down_rx_full, down_todo>>
      PROVE  Down!Box' = Down!Box
  BY <1>2 DEF Down!Box
<1>3. ASSUME Down!Box' = Down!Box, UNCHANGED <<down_line, down_last>>
      PROVE  UNCHANGED OrderLink!vars
  BY <1>3 DEF OrderLink!vars
<1>4. ASSUME NEW f \in Orders, Down!Send(f) PROVE OrderLink!Next
  BY <1>2, <1>4 DEF Down!Send, Down!board, OrderLink!Begin, OrderLink!Next
<1>5. CASE Down!LoseByte
  BY <1>2, <1>3, <1>5 DEF Down!LoseByte, Down!Passes, Down!board
<1>6. CASE Down!Peek
  <2>1. /\ down_rx_full /\ down_todo = {} /\ down_todo' # {} /\ down_line' = down_line
        /\ down_last' = IF Valid(down_rx, Commands)
                        THEN [frame |-> Payload(down_rx), flip |-> ~down_last.flip]
                        ELSE down_last
    BY <1>6, SameFraming DEF Down!Peek
  <2>2. Down!Box' = <<>>  BY <2>1 DEF Down!Box, Down!None
  <2>3. CASE Valid(down_rx, Commands)
    <3>1. Down!Box = Payload(down_rx) /\ Payload(down_rx) # <<>>
      BY <1>1, <2>1, <2>3, BoxResult
    <3> QED  BY <2>1, <2>2, <2>3, <3>1
             DEF OrderLink!Take, OrderLink!Taken, OrderLink!Next, None
  <2>4. CASE ~Valid(down_rx, Commands)
    <3>1. Down!Box = <<>>  BY <1>1, <2>4, BoxResult
    <3> QED  BY <1>3, <2>1, <2>2, <2>4, <3>1
  <2> QED  BY <2>3, <2>4
<1>7. CASE Down!StoreAt
  <2>1. down_todo # {} /\ down_rx' = <<>> /\ UNCHANGED <<down_line, down_last>>
    BY <1>7 DEF Down!StoreAt
  <2>2. Down!Box = <<>>  BY <1>1, <2>1, BoxResult
  <2>3. ~Down!Valid(<<>>, Down!Commands)  BY DEF Down!Valid
  <2>4. Down!Box' = <<>>  BY <2>1, <2>3 DEF Down!Box, Down!None
  <2> QED  BY <1>3, <2>1, <2>2, <2>4
<1>8. CASE Down!StoreFull
  <2>1. down_todo # {} /\ down_rx_full' = FALSE /\ UNCHANGED <<down_line, down_last>>
    BY <1>8 DEF Down!StoreFull
  <2>2. Down!Box = <<>>  BY <1>1, <2>1, BoxResult
  <2>3. Down!Box' = <<>>  BY <2>1 DEF Down!Box, Down!None
  <2> QED  BY <1>3, <2>1, <2>2, <2>3
<1>9. CASE Down!RxNext
  <2>1. PICK byte : /\ byte = Head(down_out) /\ Down!Hear(byte)
                    /\ down_line' = IF byte = Mark THEN <<>> ELSE down_line
                    /\ UNCHANGED <<down_todo, down_last>>
    BY <1>9, SameFraming DEF Down!RxNext, Down!Passes
  <2>2. CASE down_rx_full
    <3>1. Down!Box' = Down!Box  BY <1>2, <2>1, <2>2 DEF Down!Hear, Down!board
    <3>2. CASE byte # Mark  BY <1>3, <2>1, <3>1, <3>2
    <3>3. CASE byte = Mark
      <4>1. PICK n \in Nat : n = Len(down_line)  BY <1>1, LenProperties
      <4> QED  BY <1>1, <2>1, <3>1, <3>3, <4>1, LineEmptied
               DEF OrderLink!Lose, OrderLink!Next
    <3> QED  BY <3>2, <3>3
  <2>3. CASE ~down_rx_full /\ byte # Mark
    <3>1. Down!Box = <<>>  BY <1>1, <2>3, BoxResult
    <3>2. down_rx_full' = down_rx_full
      BY <2>1, <2>3, SameFraming DEF Down!Hear
    <3>3. Down!Box' = <<>>  BY <2>3, <3>2 DEF Down!Box, Down!None
    <3> QED  BY <1>3, <2>1, <2>3, <3>1, <3>3
  <2>4. CASE ~down_rx_full /\ byte = Mark
    <3>1. Down!Box = <<>>  BY <1>1, <2>4, BoxResult
    <3>2. Len(down_out) = 1 /\ down_line # <<>>  BY <1>9, <2>1, <2>4, OnlyTheEnd
    <3>3. PICK n \in Nat : n = Len(down_line)  BY <1>1, LenProperties
    <3>4. n \in 1 .. Len(down_line) /\ down_line[n] \in Orders
      BY <1>1, <3>2, <3>3, EmptySeq, ElementOfSeq
    <3>5. OrderLink!Leaves(n) /\ OrderLink!Leaves(0)
      BY <1>1, <2>1, <2>4, <3>3, LineEmptied
    <3>6. CASE Down!Box' = Down!Box
      BY <2>1, <3>5, <3>6 DEF OrderLink!Lose, OrderLink!Next
    <3>7. CASE Down!Box' # Down!Box /\ ~(down_clean' /\ down_intact = 2)
      BY <1>9, <3>7 DEF DoubtfulOrder
    <3>8. CASE down_clean' /\ down_intact = 2
      <4>1. Down!Box' = down_line[n]  BY <1>9, <3>2, <3>3, <3>8, RxKeeps
      <4>2. down_line[n] \in OrderReadAs(down_line[n])
        BY <3>4, OrderLength, ReadsItself DEF OrderReadAs, OrderReadings
      <4> QED  BY <2>1, <3>1, <3>4, <3>5, <4>1, <4>2
               DEF OrderLink!Arrive, OrderLink!Next, None
    <3> QED  BY <3>6, <3>7, <3>8
  <2> QED  BY <2>2, <2>3, <2>4
<1> QED  BY <1>4, <1>5, <1>6, <1>7, <1>8, <1>9 DEF Down!Next

(* But for such marks the board handles commands as LossyLink promises,    *)
(* whatever comes in while one waits or is being discarded.                *)
THEOREM OrdersImplementButForDamage ==
    LinkSpec => /\ OrderLink!Init
                /\ [][DoubtfulOrder \/ [OrderLink!Next]_(OrderLink!vars)]_(Down!vars)
<1>1. LinkInit => OrderLink!Init
  BY DEF LinkInit, Down!Init, Down!Box, Down!None, None, OrderLink!Init
<1>2. DownInv /\ DownInv' /\ [LinkNext]_<<direction, vars, down>>
      => [DoubtfulOrder \/ [OrderLink!Next]_(OrderLink!vars)]_(Down!vars)
  BY OrderStep DEF LinkNext, Up, Downward, down, Down!vars, DownInv
<1> QED  BY <1>1, <1>2, DownInvariant, PTL DEF LinkSpec
=============================================================================
