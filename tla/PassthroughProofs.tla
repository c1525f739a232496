------------------------- MODULE PassthroughProofs -------------------------
(***************************************************************************)
(* What Passthrough.tla guarantees for every set of channels, every length *)
(* of pulse a remote sends, every count of pulses that is trusted, and     *)
(* every lateness short of the earliest edge.                              *)
(***************************************************************************)
EXTENDS Passthrough, TLAPS

-----------------------------------------------------------------------------
(* The inductive invariant.                                                *)

PassTypeOK ==
    /\ stick \in Frames /\ level \subseteq Channels /\ cycle \in BOOLEAN
    /\ input \in [Channels -> [width : Int, rose_at : Int, good : 0 .. Saturate]]
    /\ sent \in [Channels -> SUBSET Durations]
    /\ at \in {0, 2} /\ half \in {"Start", "Centre"} /\ settled \in BOOLEAN
    /\ position \in [ServoChannels -> Int] /\ ocr \in [Sides -> Int]
    /\ due \in [Sides -> SUBSET Int] /\ rose \in [Sides -> Int]
    /\ loop \in {"poll", "good", "width", "set"}
    /\ channels \in [Copied -> Int]
    /\ todo \subseteq Copied /\ todo # {}

(* The level is that of the pins, once the first edge has come.            *)
LevelAgrees ==
    \/ level = DOMAIN stick
    \/ level = {} /\ \A c \in Channels : input[c].good = 0

(* A pulse was measured from its start, unless it is the first of its      *)
(* channel; so a width that is trusted is that of a pulse that was sent.   *)
WidthsAgree ==
    \A c \in Channels :
        /\ c \in level => input[c].rose_at = FrameStart \/ input[c].good = 0
        /\ input[c].good >= 2 => input[c].width + CenterCounts \in sent[c]

(* The widths on their way to the servos are such widths.                  *)
CopiesAgree ==
    /\ loop = "width" => input[First].good >= 2
    /\ \A c \in Copied : channels[c] # Missing => channels[c] + CenterCounts \in sent[c]
    /\ \A c \in ServoChannels : position[c] + CenterCounts \in Sources(c)

(* Each side has its edge of this half of the pulse before it and its pin  *)
(* as the half before left it, or the edge behind it.                      *)
Rises(c) == {RisesAt(n - CenterCounts) : n \in Sources(c)}
Falls(c) == {FallsAt(n - CenterCounts) : n \in Sources(c)}

SideAgrees(s) ==
    LET c == at + s
    IN  IF half = "Centre"
        THEN /\ ocr[s] \in Rises(c)
             /\ \/ due[s] = {ocr[s]} /\ c \notin pins
                \/ due[s] = {} /\ c \in pins /\ rose[s] = ocr[s]
        ELSE /\ ocr[s] \in Falls(c)
             /\ \/ due[s] = {ocr[s]} /\ c \in pins /\ rose[s] + 256 \in Rises(c)
                \/ due[s] = {} /\ c \notin pins

(* Before the first reset the pins may be anything.                        *)
PulsesAgree ==
    /\ (\A s \in Sides : ocr[s] \in 52 .. 204) \/ (at = 0 /\ half = "Start" /\ ~settled)
    /\ settled => /\ pins \subseteq {at + s : s \in Sides}
                  /\ \A s \in Sides : SideAgrees(s)

IInv == PassTypeOK /\ LevelAgrees /\ WidthsAgree /\ CopiesAgree /\ PulsesAgree

-----------------------------------------------------------------------------
(* Lengths of pulses.                                                      *)

(* The byte a pulse is measured by is its length less the centre, wherever *)
(* the timer stands as it rises.                                           *)
LEMMA MeasuredResult ==
    ASSUME NEW d \in 153 .. 407
    PROVE  Measured(Timer0(d), FrameStart) + CenterCounts = d
<1>1. FrameStart \in 0 .. 255 /\ CenterCounts = 280
  BY ReceiverAssumption DEF CenterCounts
<1> DEFINE now == (FrameStart + d) % 256
<1>2. now \in 0 .. 255 /\ \E k \in 0 .. 2 : FrameStart + d = now + 256 * k  BY <1>1
<1> HIDE DEF now
<1>3. SignedByte(now - FrameStart - 280) = d - 280  BY <1>1, <1>2 DEF SignedByte
<1> QED  BY <1>1, <1>3 DEF Measured, Timer0, now

(* The middle is the length of a pulse too.                                *)
LEMMA SourcesResult ==
    ASSUME PassTypeOK, NEW c \in ServoChannels
    PROVE  Sources(c) \subseteq 153 .. 407
<1>1. Bias - 1 = 280  BY DEF Bias
<1>2. c \in Channels => sent[c] \subseteq 153 .. 407
  <2>1. c \in Channels => sent[c] \subseteq Durations  BY DEF PassTypeOK
  <2> QED  BY ONLY <2>1, ReceiverAssumption
<1> QED  BY <1>1, <1>2 DEF Sources

(* Where the edges of a pulse lie.                                         *)
LEMMA EdgeResult ==
    ASSUME NEW n \in 153 .. 407
    PROVE  /\ RisesAt(n - CenterCounts) \in 52 .. 179
           /\ FallsAt(n - CenterCounts) \in 77 .. 204
BY DEF RisesAt, FallsAt, Bias, CenterCounts

(* A register that changes from one edge to the next neither matches again *)
(* nor misses, however late.                                               *)
LEMMA NeverLate ==
    ASSUME NEW late \in Lateness
    PROVE  /\ (\A s \in Sides : ocr[s] \in 52 .. 204) => Repeated(late) = {}
           /\ \A edge \in 52 .. 204 : ~Missed(edge, late)
<1>1. late \in 0 .. 51  BY ServoAssumption
<1>2. ASSUME \A s \in Sides : ocr[s] \in 52 .. 204 PROVE Repeated(late) = {}
  BY <1>1, <1>2 DEF Repeated
<1>3. \A edge \in 52 .. 204 : ~Missed(edge, late)  BY <1>1 DEF Missed
<1> QED  BY <1>2, <1>3

-----------------------------------------------------------------------------
(* The receiver keeps the invariant.                                       *)

LEMMA PcintResult ==
    ASSUME PassTypeOK, NEW up \in SUBSET Channels, NEW now \in Int, Pcint(up, now)
    PROVE  /\ level' = up /\ cycle' \in BOOLEAN
           /\ input' \in [Channels -> [width : Int, rose_at : Int, good : 0 .. Saturate]]
           /\ \A c \in Channels :
                 /\ c \in up \ level => /\ input'[c].rose_at = now
                                        /\ input'[c].good = input[c].good
                                        /\ input'[c].width = input[c].width
                 /\ c \in level \ up => /\ input'[c].width = Measured(now, input[c].rose_at)
                                        /\ input[c].good >= 2 => input'[c].good >= 2
                                        /\ input[c].good = 0 => input'[c].good = 1
                 /\ (c \in level <=> c \in up) => input'[c] = input[c]
<1>1. level' = up /\ cycle' \in BOOLEAN  BY DEF Pcint, PassTypeOK
<1>2. Saturate \in Nat /\ Saturate >= 4  BY ReceiverAssumption
<1>3. \A c \in Channels :
         /\ input[c] \in [width : Int, rose_at : Int, good : 0 .. Saturate]
         /\ Measured(now, input[c].rose_at) \in Int
  BY DEF PassTypeOK, Measured, SignedByte, CenterCounts
<1>4. ASSUME NEW i \in [width : Int, rose_at : Int, good : 0 .. Saturate],
             Measured(now, i.rose_at) \in Int
      PROVE  /\ Risen(i, now) \in [width : Int, rose_at : Int, good : 0 .. Saturate]
             /\ Risen(i, now).rose_at = now
             /\ Risen(i, now).good = i.good /\ Risen(i, now).width = i.width
             /\ Fallen(i, now) \in [width : Int, rose_at : Int, good : 0 .. Saturate]
             /\ Fallen(i, now).width = Measured(now, i.rose_at)
             /\ i.good >= 2 => Fallen(i, now).good >= 2
             /\ i.good = 0 => Fallen(i, now).good = 1
  <2>1. /\ Risen(i, now) \in [width : Int, rose_at : Int, good : 0 .. Saturate]
        /\ Risen(i, now).rose_at = now
        /\ Risen(i, now).good = i.good /\ Risen(i, now).width = i.width
    BY <1>4 DEF Risen
  <2> DEFINE w == Measured(now, i.rose_at)
             n == IF i.good < Saturate THEN i.good + 1 ELSE i.good
  <2>2. i.good \in 0 .. Saturate /\ w \in Int  BY <1>4
  <2>3. n \in 0 .. Saturate /\ (i.good >= 2 => n >= 2) /\ (i.good = 0 => n = 1)
    BY <1>2, <2>2
  <2>4. Fallen(i, now) = [i EXCEPT !.width = w, !.good = n]  BY DEF Fallen
  <2> HIDE DEF w, n
  <2>5. /\ Fallen(i, now) \in [width : Int, rose_at : Int, good : 0 .. Saturate]
        /\ Fallen(i, now).width = w /\ Fallen(i, now).good = n
    BY <2>2, <2>3, <2>4
  <2> QED  BY <2>1, <2>3, <2>5 DEF w
<1>5. input' = [c \in Channels |->
                   IF c \in up \ level THEN Risen(input[c], now)
                   ELSE IF c \in level \ up THEN Fallen(input[c], now) ELSE input[c]]
  <2> DEFINE changed == (level \cup up) \ (level \cap up)
             New(c) == CASE c \in changed \cap up -> Risen(input[c], now)
                         [] c \in changed \ up   -> Fallen(input[c], now)
                         [] OTHER                -> input[c]
  <2>1. input' = [c \in Channels |-> New(c)]  BY DEF Pcint
  <2>2. ASSUME NEW c \in Channels
        PROVE  New(c) = IF c \in up \ level THEN Risen(input[c], now)
                        ELSE IF c \in level \ up THEN Fallen(input[c], now) ELSE input[c]
    <3>1. CASE c \in up \ level
      <4>1. c \in changed /\ c \in up  BY <3>1
      <4> HIDE DEF changed
      <4> QED  BY <3>1, <4>1
    <3>2. CASE c \in level \ up
      <4>1. c \in changed /\ c \notin up  BY <3>2
      <4> HIDE DEF changed
      <4> QED  BY <3>2, <4>1
    <3>3. CASE c \in up <=> c \in level
      <4>1. c \notin changed  BY <3>3
      <4> HIDE DEF changed
      <4> QED  BY <3>3, <4>1
    <3> QED  BY <3>1, <3>2, <3>3
  <2> HIDE DEF New
  <2> QED  BY <2>1, <2>2
<1>7. input' \in [Channels -> [width : Int, rose_at : Int, good : 0 .. Saturate]]
  BY <1>3, <1>4, <1>5
<1>8. ASSUME NEW c \in Channels
      PROVE  /\ c \in up \ level => input'[c] = Risen(input[c], now)
             /\ c \in level \ up => input'[c] = Fallen(input[c], now)
             /\ (c \in level <=> c \in up) => input'[c] = input[c]
  BY <1>5
<1> QED  BY <1>1, <1>3, <1>4, <1>7, <1>8

(* The main loop takes one of the channels it has still to do.             *)
LEMMA FirstResult ==
    ASSUME PassTypeOK
    PROVE  First \in todo
<1>1. todo \subseteq {0, 1, 2, 3} /\ todo # {}
  BY DEF PassTypeOK, Copied, ServoChannels, NumChannels
<1>2. \E c \in todo : \A d \in todo : c <= d
  <2>1. CASE 0 \in todo  BY <1>1, <2>1
  <2>2. CASE 0 \notin todo /\ 1 \in todo  BY <1>1, <2>2
  <2>3. CASE 0 \notin todo /\ 1 \notin todo /\ 2 \in todo  BY <1>1, <2>3
  <2>4. CASE 0 \notin todo /\ 1 \notin todo /\ 2 \notin todo
    <3>1. todo = {3}  BY <1>1, <2>4
    <3> QED  BY <3>1
  <2> QED  BY <2>1, <2>2, <2>3, <2>4
<1> QED  BY <1>2 DEF First

(* More lengths sent leave every value a copy of one.                      *)
LEMMA SentGrows ==
    ASSUME IInv, sent' \in [Channels -> SUBSET Durations],
           \A c \in Channels : sent[c] \subseteq sent'[c],
           \A c \in Channels : input'[c].good >= 2 \/ ~(input[c].good >= 2),
           UNCHANGED <<generator, position, loop, todo, channels>>
    PROVE  CopiesAgree' /\ PulsesAgree'
<1>1. \A c : Sources(c) \subseteq Sources(c)'  BY DEF Sources
<1>2. First' = First /\ (loop = "width" => First \in Channels)
  <2>1. First \in todo  BY FirstResult DEF IInv
  <2> QED  BY <2>1 DEF First, IInv, PassTypeOK, Copied
<1>3. CopiesAgree'
  BY <1>1, <1>2 DEF IInv, CopiesAgree, Copied, PassTypeOK
<1>4. \A c : Rises(c) \subseteq Rises(c)' /\ Falls(c) \subseteq Falls(c)'
  BY <1>1 DEF Rises, Falls
<1>5. PulsesAgree'
  BY <1>4 DEF IInv, PulsesAgree, SideAgrees, generator
<1> QED  BY <1>3, <1>5

LEMMA FrameRisesKeeps ==
    ASSUME IInv, NEW pulses \in Frames, FrameRises(pulses),
           UNCHANGED <<generator, position, loop, todo, channels>>
    PROVE  IInv'
<1>1. PassTypeOK /\ LevelAgrees /\ WidthsAgree  BY DEF IInv
<1> DEFINE up == DOMAIN pulses
<1>2. up \in SUBSET Channels /\ stick' = pulses /\ sent' = sent  BY DEF Frames, FrameRises
<1>3. level = {}  BY <1>1 DEF LevelAgrees, FrameRises
<1>4. Timer0(0) = FrameStart /\ FrameStart \in Int  BY ReceiverAssumption DEF Timer0
<1>5. Pcint(up, FrameStart)  BY <1>4 DEF FrameRises
<1>6. /\ level' = up /\ cycle' \in BOOLEAN
      /\ input' \in [Channels -> [width : Int, rose_at : Int, good : 0 .. Saturate]]
  BY <1>1, <1>2, <1>4, <1>5, PcintResult
<1>7. \A c \in Channels :
         /\ c \in up => input'[c].rose_at = FrameStart
         /\ input'[c].good = input[c].good /\ input'[c].width = input[c].width
  <2> HIDE DEF up
  <2>1. \A c \in Channels :
           /\ c \in up \ level => /\ input'[c].rose_at = FrameStart
                                  /\ input'[c].good = input[c].good
                                  /\ input'[c].width = input[c].width
           /\ (c \in level <=> c \in up) => input'[c] = input[c]
    BY ONLY <1>1, <1>2, <1>4, <1>5, PcintResult
  <2> QED  BY <1>3, <2>1
<1>8. PassTypeOK'
  BY <1>1, <1>2, <1>6 DEF PassTypeOK, generator, Frames, Copied
<1>9. LevelAgrees'  BY <1>2, <1>6 DEF LevelAgrees
<1>10. WidthsAgree'  BY <1>1, <1>2, <1>6, <1>7 DEF WidthsAgree
<1>11. CopiesAgree' /\ PulsesAgree'
  <2>1. \A c \in Channels : input'[c].good >= 2 \/ ~(input[c].good >= 2)  BY <1>7
  <2> QED  BY <1>1, <1>2, <2>1, SentGrows DEF PassTypeOK
<1> QED  BY <1>8, <1>9, <1>10, <1>11 DEF IInv

LEMMA PulsesFallKeeps ==
    ASSUME IInv, PulsesFall, UNCHANGED <<generator, position, loop, todo, channels>>
    PROVE  IInv'
<1>1. PassTypeOK /\ LevelAgrees /\ WidthsAgree  BY DEF IInv
<1>2. PICK some \in SUBSET Channels : stick \in [some -> Durations]
  BY <1>1 DEF PassTypeOK, Frames
<1>3. PICK shortest \in {stick[c] : c \in some} :
         LET rest == {c \in some : stick[c] # shortest}
         IN  /\ stick' = [c \in rest |-> stick[c]]
             /\ Pcint(rest, Timer0(shortest))
             /\ sent' = [c \in Channels |->
                            IF c \in some \ rest THEN sent[c] \cup {shortest} ELSE sent[c]]
  <2>1. DOMAIN stick = some  BY <1>2
  <2>2. PICK shortest \in {stick[c] : c \in DOMAIN stick} :
           LET rest == {c \in DOMAIN stick : stick[c] # shortest}
           IN  /\ stick' = [c \in rest |-> stick[c]]
               /\ Pcint(rest, Timer0(shortest))
               /\ sent' = [c \in Channels |->
                              IF c \in DOMAIN stick \ rest
                              THEN sent[c] \cup {shortest} ELSE sent[c]]
    BY Zenon DEF PulsesFall
  <2> QED  BY <2>1, <2>2, Zenon
<1> DEFINE rest == {c \in some : stick[c] # shortest}
           now == Timer0(shortest)
<1>4. shortest \in Durations /\ shortest \in 153 .. 407
  <2>1. PICK c \in some : shortest = stick[c]  OBVIOUS
  <2>2. shortest \in Durations  BY ONLY <1>2, <2>1
  <2> QED  BY ONLY <2>2, ReceiverAssumption
<1>5. now \in Int  BY <1>4, ReceiverAssumption DEF Timer0
<1>6. rest \in SUBSET Channels /\ DOMAIN stick = some /\ rest \subseteq some  BY <1>2
<1>7. /\ stick' = [c \in rest |-> stick[c]] /\ Pcint(rest, now)
      /\ sent' = [c \in Channels |->
                     IF c \in some \ rest THEN sent[c] \cup {shortest} ELSE sent[c]]
  BY <1>3
<1> HIDE DEF rest, now
<1>8. /\ level' = rest /\ cycle' \in BOOLEAN
      /\ input' \in [Channels -> [width : Int, rose_at : Int, good : 0 .. Saturate]]
  BY <1>1, <1>5, <1>6, <1>7, PcintResult
<1>9. stick' \in [rest -> Durations]
  BY <1>2, <1>6, <1>7
<1>10. /\ sent' \in [Channels -> SUBSET Durations]
       /\ \A c \in Channels : sent[c] \subseteq sent'[c]
  BY <1>1, <1>4, <1>7 DEF PassTypeOK
<1>11. \A c \in Channels :
          /\ c \in rest \ level => /\ input'[c].rose_at = now
                                   /\ input'[c].good = input[c].good
                                   /\ input'[c].width = input[c].width
          /\ c \in level \ rest => /\ input'[c].width = Measured(now, input[c].rose_at)
                                   /\ input[c].good >= 2 => input'[c].good >= 2
                                   /\ input[c].good = 0 => input'[c].good = 1
          /\ (c \in level <=> c \in rest) => input'[c] = input[c]
  <2>1. Pcint(rest, now)  BY <1>7
  <2> QED  BY ONLY <1>1, <1>5, <1>6, <2>1, PcintResult
<1>12. \A c \in Channels : input[c].good \in 0 .. Saturate /\ Saturate \in Nat
  BY <1>1, ReceiverAssumption DEF PassTypeOK
<1>13. PassTypeOK'
  <2>1. stick' \in Frames  BY <1>6, <1>9 DEF Frames
  <2>2. level' \subseteq Channels  BY <1>6, <1>8
  <2> QED  BY <1>1, <1>8, <1>10, <2>1, <2>2 DEF PassTypeOK, generator, Copied
<1>14. LevelAgrees'
  <2>1. DOMAIN stick' = rest  BY <1>9
  <2> QED  BY <1>8, <2>1 DEF LevelAgrees
<1>15. WidthsAgree'
  <2> SUFFICES ASSUME NEW c \in Channels
               PROVE  /\ c \in level' => input'[c].rose_at = FrameStart \/ input'[c].good = 0
                      /\ input'[c].good >= 2 => input'[c].width + CenterCounts \in sent'[c]
    BY DEF WidthsAgree
  <2>1. CASE c \in level \ rest
    <3>1. level = some /\ c \in some \ rest  BY <1>1, <1>6, <2>1 DEF LevelAgrees
    <3>2. shortest \in sent'[c]  BY <1>7, <3>1
    <3>4. /\ input'[c].width = Measured(now, input[c].rose_at)
          /\ input[c].good = 0 => input'[c].good = 1
      BY <1>11, <2>1, Zenon
    <3>3. ASSUME input'[c].good >= 2 PROVE input'[c].width + CenterCounts = shortest
      <4>1. input[c].good # 0  BY <3>3, <3>4
      <4>2. input[c].rose_at = FrameStart  BY <1>1, <2>1, <4>1 DEF WidthsAgree
      <4> QED  BY <1>4, <3>4, <4>2, MeasuredResult DEF now
    <3> QED  BY <1>8, <2>1, <3>2, <3>3
  <2>2. CASE c \in rest \ level
    <3>1. level = {} /\ input[c].good = 0  BY <1>1, <1>6, <2>2 DEF LevelAgrees
    <3> QED  BY <1>11, <2>2, <3>1
  <2>3. CASE c \in level <=> c \in rest
    <3>1. input'[c] = input[c]  BY <1>11, <2>3
    <3> QED  BY <1>1, <1>8, <1>10, <2>3, <3>1 DEF WidthsAgree
  <2> QED  BY <2>1, <2>2, <2>3
<1>16. CopiesAgree' /\ PulsesAgree'
  <2>1. \A c \in Channels : input'[c].good >= 2 \/ ~(input[c].good >= 2)
    BY <1>11, <1>12
  <2> QED  BY <1>10, <2>1, SentGrows
<1> QED  BY <1>13, <1>14, <1>15, <1>16 DEF IInv

-----------------------------------------------------------------------------
(* The main loop keeps the invariant.                                      *)

LEMMA StepsResult ==
    ASSUME PassTypeOK, NEW from, NEW to, Steps(from, to)
    PROVE  todo' \subseteq Copied /\ todo' # {} /\ loop' \in {from, to}
BY CopiedAssumption, FirstResult DEF Steps, PassTypeOK

(* What the loop does to its own state and to the positions.               *)
LEMMA LoopKeeps ==
    ASSUME IInv, UNCHANGED <<stick, level, input, sent, generator>>, cycle' \in BOOLEAN,
           loop' \in {"poll", "good", "width", "set"},
           channels' \in [Copied -> Int], todo' \subseteq Copied, todo' # {},
           position' \in [ServoChannels -> Int],
           CopiesAgree'
    PROVE  IInv'
<1>1. PassTypeOK'  BY DEF IInv, PassTypeOK, generator, Frames, Copied
<1>2. LevelAgrees' /\ WidthsAgree'  BY DEF IInv, LevelAgrees, WidthsAgree
<1>3. PulsesAgree'
  <2>1. \A c : Sources(c)' = Sources(c)  BY DEF Sources
  <2>2. \A c : Rises(c)' = Rises(c) /\ Falls(c)' = Falls(c)  BY <2>1 DEF Rises, Falls
  <2> QED  BY <2>2 DEF IInv, PulsesAgree, SideAgrees, generator
<1> QED  BY <1>1, <1>2, <1>3 DEF IInv

LEMMA MainLoopKeeps ==
    ASSUME IInv, MainLoop
    PROVE  IInv'
<1>1. PassTypeOK /\ CopiesAgree  BY DEF IInv
<1>2. First \in todo /\ First \in Copied /\ First \in Channels /\ First \in ServoChannels
  BY <1>1, FirstResult DEF PassTypeOK, Copied
<1>3. /\ input[First].good \in Int /\ input[First].width \in Int
      /\ channels[First] \in Int
  BY <1>1, <1>2, ReceiverAssumption DEF PassTypeOK
<1>4. Missing \in Int /\ Mid = 0  BY DEF Missing, Mid
<1>5. CASE Poll
  <2>1. UNCHANGED <<stick, level, input, sent, generator, position, todo, channels>>
    BY <1>5 DEF Poll
  <2>2. cycle' \in BOOLEAN /\ loop' = "good"  BY <1>5 DEF Poll
  <2>3. CopiesAgree'  BY <1>1, <2>1, <2>2 DEF CopiesAgree, Sources
  <2> QED  BY <1>1, <2>1, <2>2, <2>3, LoopKeeps DEF PassTypeOK
<1>6. CASE ReadGood
  <2>1. UNCHANGED <<stick, level, input, cycle, sent, generator, position>>
    BY <1>6 DEF ReadGood, receiver
  <2>2. CASE Trusted(First)
    <3>1. loop' = "width" /\ UNCHANGED <<todo, channels>>  BY <1>6, <2>2 DEF ReadGood
    <3>2. First' = First  BY <3>1 DEF First
    <3>3. input[First].good >= 2
      <4>1. Saturate \div 2 >= 2 /\ Saturate \div 2 \in Int  BY ReceiverAssumption
      <4> QED  BY <1>3, <2>2, <4>1 DEF Trusted
    <3>4. CopiesAgree'  BY <1>1, <2>1, <3>1, <3>2, <3>3 DEF CopiesAgree, Sources
    <3> QED  BY <1>1, <2>1, <3>1, <3>4, LoopKeeps DEF PassTypeOK
  <2>3. CASE ~Trusted(First)
    <3>1. channels' = [channels EXCEPT ![First] = Missing] /\ Steps("good", "set")
      BY <1>6, <2>3 DEF ReadGood
    <3>2. todo' \subseteq Copied /\ todo' # {} /\ loop' \in {"good", "set"}
      BY <1>1, <3>1, StepsResult
    <3>3. channels' \in [Copied -> Int]  BY <1>1, <1>4, <3>1 DEF PassTypeOK
    <3>4. CopiesAgree'
      BY <1>1, <2>1, <3>1, <3>2 DEF CopiesAgree, Sources, PassTypeOK
    <3> QED  BY <1>1, <2>1, <3>2, <3>3, <3>4, LoopKeeps DEF PassTypeOK
  <2> QED  BY <2>2, <2>3
<1>7. CASE ReadWidth
  <2>1. UNCHANGED <<stick, level, input, cycle, sent, generator, position>>
    BY <1>7 DEF ReadWidth, receiver
  <2>2. channels' = [channels EXCEPT ![First] = input[First].width] /\ Steps("good", "set")
    BY <1>7 DEF ReadWidth
  <2>3. todo' \subseteq Copied /\ todo' # {} /\ loop' \in {"good", "set"}
    BY <1>1, <2>2, StepsResult
  <2>4. channels' \in [Copied -> Int]  BY <1>1, <1>3, <2>2 DEF PassTypeOK
  <2>5. input[First].width + CenterCounts \in sent[First]
    BY <1>1, <1>2, <1>7 DEF ReadWidth, CopiesAgree, IInv, WidthsAgree
  <2>6. CopiesAgree'
    BY <1>1, <2>1, <2>2, <2>3, <2>5 DEF CopiesAgree, Sources, PassTypeOK
  <2> QED  BY <1>1, <2>1, <2>3, <2>4, <2>6, LoopKeeps DEF PassTypeOK
<1>8. CASE SetServo
  <2> DEFINE new == IF channels[First] > Missing THEN Mid + channels[First] ELSE position[First]
  <2>1. UNCHANGED <<stick, level, input, cycle, sent, generator>>
    BY <1>8 DEF SetServo, receiver
  <2>2. /\ position' = [position EXCEPT ![First] = new] /\ Steps("set", "poll")
        /\ channels' = [channels EXCEPT ![First] = Missing]
    BY <1>8 DEF SetServo
  <2>3. todo' \subseteq Copied /\ todo' # {} /\ loop' \in {"set", "poll"}
    BY <1>1, <2>2, StepsResult
  <2>4. channels' \in [Copied -> Int]  BY <1>1, <1>4, <2>2 DEF PassTypeOK
  <2>5. new \in Int /\ new + CenterCounts \in Sources(First)
    <3>1. CASE channels[First] > Missing
      <4>1. new = channels[First] /\ channels[First] # Missing  BY <1>3, <1>4, <3>1
      <4>2. channels[First] + CenterCounts \in sent[First]
        BY <1>1, <1>2, <4>1 DEF CopiesAgree
      <4> QED  BY <1>2, <1>3, <4>1, <4>2 DEF Sources
    <3>2. CASE ~(channels[First] > Missing)
      BY <1>1, <1>2, <3>2 DEF CopiesAgree, PassTypeOK
    <3> QED  BY <3>1, <3>2
  <2> HIDE DEF new
  <2>6. position' \in [ServoChannels -> Int]  BY <1>1, <2>2, <2>5 DEF PassTypeOK
  <2>7. \A c : Sources(c)' = Sources(c)  BY <2>1 DEF Sources
  <2>8. \A c \in ServoChannels : position'[c] + CenterCounts \in Sources(c)
    BY <1>1, <2>2, <2>5 DEF CopiesAgree, PassTypeOK
  <2>9. \A c \in Copied : channels'[c] # Missing => channels'[c] + CenterCounts \in sent[c]
    BY <1>1, <2>2 DEF CopiesAgree, PassTypeOK
  <2>10. CopiesAgree'  BY <2>1, <2>3, <2>7, <2>8, <2>9 DEF CopiesAgree, Copied
  <2> QED  BY <1>1, <2>1, <2>3, <2>4, <2>6, <2>10, LoopKeeps DEF PassTypeOK
<1> QED  BY <1>5, <1>6, <1>7, <1>8 DEF MainLoop

-----------------------------------------------------------------------------
(* The generator keeps the invariant.                                      *)

(* What it does to its own state.                                          *)
LEMMA GeneratorKeeps ==
    ASSUME IInv, UNCHANGED <<receiver, position, loop, todo, channels>>,
           at' \in {0, 2}, half' \in {"Start", "Centre"}, settled' \in BOOLEAN,
           ocr' \in [Sides -> Int], due' \in [Sides -> SUBSET Int], rose' \in [Sides -> Int],
           PulsesAgree'
    PROVE  IInv'
<1>1. PassTypeOK'  BY DEF IInv, PassTypeOK, receiver, Frames, Copied
<1>2. LevelAgrees' /\ WidthsAgree'  BY DEF IInv, LevelAgrees, WidthsAgree, receiver
<1>3. CopiesAgree'  BY DEF IInv, CopiesAgree, Sources, First, Copied, receiver
<1> QED  BY <1>1, <1>2, <1>3 DEF IInv

(* With nothing due a settled pin is as its half of the pulse leaves it.   *)
LEMMA SidesDone ==
    ASSUME IInv, settled, \A s \in Sides : due[s] = {}
    PROVE  IF half = "Start"
           THEN pins = {}
           ELSE \A s \in Sides : /\ at + s \in pins
                                 /\ rose[s] = ocr[s] /\ ocr[s] \in Rises(at + s)
<1>1. /\ pins \subseteq {at + s : s \in Sides}
      /\ \A s \in Sides : SideAgrees(s) /\ due[s] = {}
      /\ half \in {"Start", "Centre"}
  BY DEF IInv, PulsesAgree, PassTypeOK
<1>2. CASE half = "Start"
  <2>1. \A s \in Sides : at + s \notin pins  BY <1>1, <1>2 DEF SideAgrees
  <2> QED  BY <1>1, <1>2, <2>1
<1>3. CASE half = "Centre"  BY <1>1, <1>3 DEF SideAgrees
<1> QED  BY <1>1, <1>2, <1>3

LEMMA OverflowKeeps ==
    ASSUME IInv, NEW late \in Lateness, Overflow(late),
           UNCHANGED <<receiver, loop, todo, channels>>
    PROVE  IInv'
<1>1. PassTypeOK  BY DEF IInv
<1> DEFINE next == IF half = "Start" THEN (at + 2) % NumChannels ELSE at
           Edge(s) == IF half = "Start" THEN RisesAt(position[next + s])
                      ELSE FallsAt(position[next + s])
<1>2. PICK early \in SUBSET Repeated(late) :
      /\ at' = next
      /\ half' = IF half = "Start" THEN "Centre" ELSE "Start"
      /\ ocr' = [s \in Sides |-> Edge(s)]
      /\ due' = [s \in Sides |-> {ocr[r] : r \in {s} \cap (Repeated(late) \ early)}
                                 \cup {t \in {Edge(s)} : ~Missed(t, late)}]
      /\ pins' = PortAfter(next, Toggled(pins, {at + s : s \in early}))
      /\ rose' = [s \in Sides |-> rose[s] - 256]
      /\ settled' = (settled \/ (half = "Start" /\ next = 0))
      /\ \A s \in Sides : due[s] = {}
      /\ position' = position
  BY DEF Overflow
<1>3. at \in {0, 2} /\ half \in {"Start", "Centre"} /\ settled \in BOOLEAN
  BY <1>1 DEF PassTypeOK
<1>4. /\ next \in {0, 2}
      /\ half = "Start" /\ next = 0 => at = 2
      /\ \A s \in Sides : s \in {0, 1} /\ next + s \in ServoChannels
  BY <1>3, ServoAssumption DEF NumChannels, ServoChannels
<1> HIDE DEF next
<1>5. ASSUME NEW s \in Sides
      PROVE  /\ Edge(s) \in 52 .. 204
             /\ half = "Start" => Edge(s) \in Rises(next + s)
             /\ half = "Centre" => Edge(s) \in Falls(next + s)
  <2> DEFINE n == position[next + s] + CenterCounts
  <2>1. position[next + s] \in Int /\ CenterCounts = 280
    BY <1>1, <1>4 DEF PassTypeOK, CenterCounts
  <2>2. n \in Sources(next + s)  BY <1>4 DEF IInv, CopiesAgree
  <2>3. n \in 153 .. 407  BY <1>1, <1>4, <2>2, SourcesResult
  <2>4. position[next + s] = n - CenterCounts  BY <2>1
  <2> HIDE DEF n
  <2>5. RisesAt(n - CenterCounts) \in 52 .. 179 /\ FallsAt(n - CenterCounts) \in 77 .. 204
    BY <2>3, EdgeResult
  <2>6. CASE half = "Start"
    <3>1. Edge(s) = RisesAt(n - CenterCounts)  BY <2>4, <2>6
    <3> QED  BY <2>2, <2>5, <2>6, <3>1 DEF Rises
  <2>7. CASE half = "Centre"
    <3>1. Edge(s) = FallsAt(n - CenterCounts)  BY <2>4, <2>7
    <3> QED  BY <2>2, <2>5, <2>7, <3>1 DEF Falls
  <2> QED  BY <1>3, <2>6, <2>7
<1> HIDE DEF Edge
<1>6. /\ ocr' \in [Sides -> Int] /\ \A s \in Sides : ocr'[s] = Edge(s) /\ ocr'[s] \in 52 .. 204
      /\ rose' \in [Sides -> Int] /\ \A s \in Sides : rose'[s] = rose[s] - 256
  <2>1. \A s \in Sides : Edge(s) \in 52 .. 204 /\ Edge(s) \in Int  BY <1>5
  <2>2. \A s \in Sides : rose[s] \in Int  BY <1>1 DEF PassTypeOK
  <2> QED  BY <1>2, <2>1, <2>2
<1>7. due' \in [Sides -> SUBSET Int]
  <2>1. \A s \in Sides : {ocr[r] : r \in {s} \cap (Repeated(late) \ early)}
                               \cup {t \in {Edge(s)} : ~Missed(t, late)} \in SUBSET Int
    BY <1>1, <1>5 DEF PassTypeOK
  <2> QED  BY <1>2, <2>1
<1>8. at' \in {0, 2} /\ half' \in {"Start", "Centre"} /\ settled' \in BOOLEAN
  BY <1>2, <1>3, <1>4
<1>9. ASSUME settled'
      PROVE  /\ \A s \in Sides : due'[s] = {ocr'[s]}
             /\ pins' \subseteq {at' + s : s \in Sides}
             /\ \A s \in Sides :
                   IF half = "Start" THEN at' + s \notin pins'
                   ELSE at' + s \in pins' /\ rose'[s] + 256 \in Rises(at + s)
  <2>1. \A s \in Sides : ocr[s] \in 52 .. 204
    BY <1>2, <1>3, <1>4, <1>9 DEF IInv, PulsesAgree
  <2>2. \A s \in Sides : due'[s] = {ocr'[s]}
    <3> TAKE s \in Sides
    <3>1. ocr[s] \in 52 .. 204 /\ Edge(s) \in 52 .. 204 /\ ocr'[s] = Edge(s)
      BY <1>5, <1>6, <2>1
    <3>2. Repeated(late) = {} /\ ~Missed(Edge(s), late)  BY <2>1, <3>1, NeverLate
    <3> QED  BY <1>2, <3>1, <3>2
  <2>5. Toggled(pins, {at + s : s \in early}) = pins
    BY <1>2, <2>1, NeverLate DEF Toggled
  <2>3. CASE half = "Start"
    <3>1. pins' = {}
      <4>1. CASE next = 0  BY <1>2, <2>3, <4>1 DEF PortAfter
      <4>2. CASE next # 0
        <5>1. settled /\ pins' = pins  BY <1>2, <1>9, <2>3, <2>5, <4>2 DEF PortAfter
        <5> QED  BY <1>2, <2>3, <5>1, SidesDone
      <4> QED  BY <4>1, <4>2
    <3> QED  BY <2>2, <2>3, <3>1
  <2>4. CASE half = "Centre"
    <3>1. settled /\ at' = at /\ pins' = pins
      BY <1>2, <1>9, <2>4, <2>5 DEF PortAfter, next
    <3>2. pins \subseteq {at + s : s \in Sides}  BY <3>1 DEF IInv, PulsesAgree
    <3>3. \A s \in Sides : at + s \in pins /\ rose[s] = ocr[s] /\ ocr[s] \in Rises(at + s)
      BY <1>2, <2>4, <3>1, SidesDone
    <3>4. \A s \in Sides : rose'[s] + 256 = rose[s]  BY <1>1, <1>6 DEF PassTypeOK
    <3> QED  BY <2>2, <2>4, <3>1, <3>2, <3>3, <3>4
  <2> QED  BY <1>3, <2>3, <2>4
<1>10. \A c : Sources(c)' = Sources(c) /\ Rises(c)' = Rises(c) /\ Falls(c)' = Falls(c)
  <2>1. \A c : Sources(c)' = Sources(c)  BY DEF Sources, receiver
  <2> QED  BY <2>1 DEF Rises, Falls
<1>11. ASSUME settled', NEW s \in Sides PROVE SideAgrees(s)'
  <2>1. CASE half = "Start"
    <3>1. half' = "Centre" /\ ocr'[s] \in Rises(at' + s)  BY <1>2, <1>5, <1>6, <2>1
    <3> QED  BY <1>9, <1>10, <1>11, <2>1, <3>1 DEF SideAgrees
  <2>2. CASE half = "Centre"
    <3>1. half' = "Start" /\ at' = at /\ ocr'[s] \in Falls(at' + s)
      BY <1>2, <1>5, <1>6, <2>2 DEF next
    <3>2. half' # "Centre"  BY <3>1
    <3> QED  BY <1>9, <1>10, <1>11, <2>2, <3>1, <3>2 DEF SideAgrees
  <2> QED  BY <1>3, <2>1, <2>2
<1>12. PulsesAgree'  BY <1>6, <1>9, <1>11 DEF PulsesAgree
<1> QED  BY <1>2, <1>6, <1>7, <1>8, <1>12, GeneratorKeeps

LEMMA CompareKeeps ==
    ASSUME IInv, NEW s \in Sides, Compare(s), UNCHANGED <<receiver, loop, todo, channels>>
    PROVE  IInv'
<1>1. PassTypeOK  BY DEF IInv
<1>2. PICK t \in due[s] :
         /\ due' = [due EXCEPT ![s] = @ \ {t}]
         /\ pins' = Toggled(pins, {at + s})
         /\ rose' = IF at + s \in pins THEN [rose EXCEPT ![s] = 0] ELSE [rose EXCEPT ![s] = t]
         /\ UNCHANGED <<at, half, position, ocr, settled>>
  BY DEF Compare
<1>3. t \in Int /\ s \in {0, 1} /\ at \in {0, 2} /\ half \in {"Start", "Centre"}
  BY <1>1, ServoAssumption DEF PassTypeOK
<1>4. due' \in [Sides -> SUBSET Int] /\ rose' \in [Sides -> Int]
  BY <1>1, <1>2, <1>3 DEF PassTypeOK
<1>5. \A c : Sources(c)' = Sources(c) /\ Rises(c)' = Rises(c) /\ Falls(c)' = Falls(c)
  <2>1. \A c : Sources(c)' = Sources(c)  BY DEF Sources, receiver
  <2> QED  BY <2>1 DEF Rises, Falls
<1>6. \A c : c # at + s => (c \in pins' <=> c \in pins)  BY <1>2 DEF Toggled
<1>7. at + s \in pins' <=> at + s \notin pins  BY <1>2 DEF Toggled
<1>8. ASSUME settled PROVE pins' \subseteq {at + r : r \in Sides}
  BY <1>2, <1>8 DEF IInv, PulsesAgree, Toggled
<1>9. ASSUME settled, NEW r \in Sides PROVE SideAgrees(r)'
  <2>1. SideAgrees(r)  BY <1>9 DEF IInv, PulsesAgree
  <2>2. CASE r # s
    <3>1. at + r # at + s /\ r \in {0, 1}  BY <1>3, <2>2, ServoAssumption
    <3>2. due'[r] = due[r] /\ rose'[r] = rose[r] /\ (at + r \in pins' <=> at + r \in pins)
      BY <1>1, <1>2, <1>6, <2>2, <3>1 DEF PassTypeOK
    <3> QED  BY <1>2, <1>5, <2>1, <3>2 DEF SideAgrees
  <2>3. CASE r = s
    <3>1. due[s] = {ocr[s]} /\ t = ocr[s]  BY <1>2, <2>1, <2>3 DEF SideAgrees
    <3>2. due'[s] = {}  BY <1>1, <1>2, <3>1 DEF PassTypeOK
    <3>3. CASE half = "Centre"
      <4>1. at + s \notin pins /\ ocr[s] \in Rises(at + s)
        BY <2>1, <2>3, <3>1, <3>3 DEF SideAgrees
      <4>2. rose'[s] = ocr[s] /\ at + s \in pins'
        BY <1>1, <1>2, <1>7, <3>1, <4>1 DEF PassTypeOK
      <4> QED  BY <1>2, <1>5, <2>3, <3>2, <3>3, <4>1, <4>2 DEF SideAgrees
    <3>4. CASE half = "Start"
      <4>1. half # "Centre"  BY <3>4
      <4>2. at + s \in pins /\ ocr[s] \in Falls(at + s)
        BY <2>1, <2>3, <3>1, <4>1 DEF SideAgrees
      <4> QED  BY <1>2, <1>5, <1>7, <2>3, <3>2, <4>1, <4>2 DEF SideAgrees
    <3> QED  BY <1>3, <3>3, <3>4
  <2> QED  BY <2>2, <2>3
<1>10. PulsesAgree'
  BY <1>2, <1>8, <1>9 DEF IInv, PulsesAgree
<1> QED  BY <1>1, <1>2, <1>3, <1>4, <1>10, GeneratorKeeps DEF PassTypeOK

-----------------------------------------------------------------------------
(* The invariant.                                                          *)

LEMMA InitIInv == Init => IInv
<1> SUFFICES ASSUME Init PROVE IInv  OBVIOUS
<1>1. Saturate \in Nat  BY ReceiverAssumption
<1>2. stick \in Frames /\ level = {} /\ cycle \in BOOLEAN  BY DEF Init, ReceiverInit
<1>3. /\ input \in [Channels -> [width : Int, rose_at : Int, good : 0 .. Saturate]]
      /\ \A c \in Channels : input[c].good = 0
  BY <1>1 DEF Init, ReceiverInit
<1>4. sent \in [Channels -> SUBSET Durations]  BY DEF Init, ReceiverInit
<1>5. /\ at = 0 /\ half = "Start" /\ settled = FALSE
      /\ position = [c \in ServoChannels |-> Mid] /\ Mid = 0
      /\ ocr \in [Sides -> Int] /\ due \in [Sides -> SUBSET Int] /\ rose \in [Sides -> Int]
  BY DEF Init, GeneratorInit, Mid
<1>6. loop = "poll" /\ todo = Copied /\ channels = [c \in Copied |-> Missing]
  BY DEF Init
<1>7. channels \in [Copied -> Int]  BY <1>6 DEF Missing
<1>8. PassTypeOK
  <2>1. position \in [ServoChannels -> Int] /\ half \in {"Start", "Centre"} /\ at \in {0, 2}
    BY <1>5
  <2>2. stick \in Frames /\ level \subseteq Channels /\ cycle \in BOOLEAN  BY <1>2
  <2>3. loop = "poll" /\ todo \subseteq Copied /\ todo # {}  BY <1>6, CopiedAssumption
  <2>4. settled \in BOOLEAN  BY <1>5
  <2> QED
    BY <1>3, <1>4, <1>5, <1>7, <2>1, <2>2, <2>3, <2>4 DEF PassTypeOK
<1>9. LevelAgrees /\ WidthsAgree  BY <1>2, <1>3 DEF LevelAgrees, WidthsAgree
<1>10. CopiesAgree
  <2>1. \A c : 0 + CenterCounts \in Sources(c)  BY DEF Sources, Bias, CenterCounts
  <2> QED  BY <1>5, <1>6, <2>1 DEF CopiesAgree
<1>11. PulsesAgree  BY <1>5 DEF PulsesAgree
<1> QED  BY <1>8, <1>9, <1>10, <1>11 DEF IInv

LEMMA NextIInv == IInv /\ [Next]_vars => IInv'
<1> SUFFICES ASSUME IInv, [Next]_vars PROVE IInv'  OBVIOUS
<1>1. CASE ReceiverNext /\ UNCHANGED <<generator, position, loop, todo, channels>>
  <2>1. CASE \E pulses \in Frames : DOMAIN pulses # {} /\ FrameRises(pulses)
    BY <1>1, <2>1, FrameRisesKeeps
  <2>2. CASE PulsesFall  BY <1>1, <2>2, PulsesFallKeeps
  <2> QED  BY <1>1, <2>1, <2>2 DEF ReceiverNext
<1>2. CASE GeneratorNext /\ UNCHANGED <<receiver, loop, todo, channels>>
  <2>1. CASE \E late \in Lateness : Overflow(late)  BY <1>2, <2>1, OverflowKeeps
  <2>2. CASE \E s \in Sides : Compare(s)  BY <1>2, <2>2, CompareKeeps
  <2> QED  BY <1>2, <2>1, <2>2 DEF GeneratorNext
<1>3. CASE MainLoop  BY <1>3, MainLoopKeeps
<1>4. CASE UNCHANGED vars
  <2>1. /\ UNCHANGED <<stick, level, input, cycle, sent>>
        /\ UNCHANGED <<at, half, ocr, due, pins, rose, settled>>
        /\ UNCHANGED <<position, loop, todo, channels>>
    BY <1>4 DEF vars, receiver, generator
  <2>2. \A c : Sources(c)' = Sources(c) /\ Rises(c)' = Rises(c) /\ Falls(c)' = Falls(c)
    <3>1. \A c : Sources(c)' = Sources(c)  BY <2>1 DEF Sources
    <3> QED  BY <3>1 DEF Rises, Falls
  <2>3. PassTypeOK'  BY <2>1 DEF IInv, PassTypeOK, Frames, Copied
  <2>4. LevelAgrees' /\ WidthsAgree'  BY <2>1 DEF IInv, LevelAgrees, WidthsAgree
  <2>5. CopiesAgree'  BY <2>1, <2>2 DEF IInv, CopiesAgree, First, Copied
  <2>6. PulsesAgree'  BY <2>1, <2>2 DEF IInv, PulsesAgree, SideAgrees
  <2> QED  BY <2>3, <2>4, <2>5, <2>6 DEF IInv
<1> QED  BY <1>1, <1>2, <1>3, <1>4 DEF Next

(* What each part of the passthrough holds of the pulses agrees with what  *)
(* the remote sent, wherever the interrupts fall.                          *)
THEOREM Invariance == Spec => []IInv
BY InitIInv, NextIInv, PTL DEF Spec

(* Every variable keeps its type; no pulse is measured as something a      *)
(* signed byte cannot hold.                                                *)
THEOREM TypeCorrect == Spec => []PassTypeOK
<1>1. IInv => PassTypeOK  BY DEF IInv
<1> QED  BY <1>1, Invariance, PTL

-----------------------------------------------------------------------------
(* The properties.                                                         *)

(* Half a cycle begins and ends only with an overflow, and a settled pin   *)
(* changes only with its own compare.                                      *)
LEMMA GeneratorSteps ==
    ASSUME IInv, [Next]_vars, settled
    PROVE  /\ half' # half => \A s \in Sides : due[s] = {}
           /\ \A c \in pins \ pins' : \E s \in Sides : c = at + s /\ Compare(s)
<1>1. CASE \E late \in Lateness : Overflow(late)
  <2>1. \A s \in Sides : due[s] = {}  BY <1>1 DEF Overflow
  <2>2. CASE half = "Start"
    <3>1. pins = {}  BY <2>1, <2>2, SidesDone
    <3> QED  BY <2>1, <3>1
  <2>3. CASE half # "Start"
    <3>1. PICK late \in Lateness : Overflow(late)  BY <1>1
    <3>2. \A s \in Sides : ocr[s] \in 52 .. 204  BY DEF IInv, PulsesAgree
    <3>3. Repeated(late) = {}  BY <3>2, NeverLate
    <3>4. pins' = pins  BY <2>3, <3>1, <3>3 DEF Overflow, PortAfter, Toggled
    <3> QED  BY <2>1, <3>4
  <2> QED  BY <2>2, <2>3
<1>2. CASE \E s \in Sides : Compare(s)
  <2>1. PICK s \in Sides : Compare(s)  BY <1>2
  <2>2. half' = half /\ \A c : c # at + s => (c \in pins' <=> c \in pins)
    BY <2>1 DEF Compare, Toggled
  <2> QED  BY <2>1, <2>2
<1>3. CASE UNCHANGED generator  BY <1>3 DEF generator
<1>4. CASE MainLoop
  BY <1>3, <1>4 DEF MainLoop, Poll, ReadGood, ReadWidth, SetServo
<1> QED  BY <1>1, <1>2, <1>3, <1>4 DEF Next, GeneratorNext, vars

(* Every pin is low when a cycle begins, so that the reset of the port in  *)
(* overflow() cuts no pulse short.                                         *)
THEOREM ResetIsHarmless == Spec => ResetCutsNothing
<1>1. ASSUME IInv, [Next]_vars, settled, half = "Start", half' = "Centre"
      PROVE  pins = {}
  <2>1. half' # half  BY <1>1
  <2> QED  BY <1>1, <2>1, GeneratorSteps, SidesDone
<1>2. IInv /\ [Next]_vars => [(settled /\ half = "Start" /\ half' = "Centre") => pins = {}]_vars
  BY <1>1
<1> QED  BY <1>2, Invariance, PTL DEF Spec, ResetCutsNothing

(* From the edges of the remote to the edges of the servos: the pulses the *)
(* two interrupts and the main loop make of the widths lie between pulses  *)
(* that were sent.                                                         *)
THEOREM FollowsSticks == Spec => ServosFollowSticks
<1> DEFINE Follows ==
               \A s \in Sides :
                  (settled /\ at + s \in pins \ pins') =>
                      \E t \in due[s] \ due'[s], low, high \in Sources(at + s) :
                          low <= t - rose[s] - 1 /\ t - rose[s] - 1 <= high
<1>1. ASSUME IInv, [Next]_vars, NEW s \in Sides, settled, at + s \in pins \ pins'
      PROVE  \E t \in due[s] \ due'[s], low, high \in Sources(at + s) :
                 low <= t - rose[s] - 1 /\ t - rose[s] - 1 <= high
  <2> DEFINE c == at + s
  <2>1. PassTypeOK /\ SideAgrees(s)  BY <1>1 DEF IInv, PulsesAgree
  <2>2. s \in {0, 1} /\ at \in {0, 2} /\ c \in ServoChannels
    BY <1>1, <2>1, ServoAssumption DEF PassTypeOK, ServoChannels, NumChannels
  <2>3. Compare(s)
    <3>1. PICK r \in Sides : c = at + r /\ Compare(r)  BY <1>1, GeneratorSteps
    <3>2. r \in {0, 1}  BY ServoAssumption
    <3> QED  BY <2>2, <3>1, <3>2
  <2>4. PICK t \in due[s] : due' = [due EXCEPT ![s] = @ \ {t}]  BY <2>3 DEF Compare
  <2>5. half # "Centre"  BY <1>1, <2>1, <2>4 DEF SideAgrees
  <2>6. /\ due[s] = {ocr[s]} /\ t = ocr[s]
        /\ ocr[s] \in Falls(c) /\ rose[s] + 256 \in Rises(c)
    BY <2>1, <2>4, <2>5 DEF SideAgrees
  <2>7. t \in due[s] \ due'[s]  BY <1>1, <2>1, <2>4 DEF PassTypeOK
  <2>8. PICK m \in Sources(c) : t = FallsAt(m - CenterCounts)  BY <2>6 DEF Falls
  <2>9. PICK n \in Sources(c) : rose[s] + 256 = RisesAt(n - CenterCounts)
    BY <2>6 DEF Rises
  <2>10. n \in 153 .. 407 /\ m \in 153 .. 407  BY <2>1, <2>2, SourcesResult
  <2> DEFINE length == t - rose[s] - 1
  <2>11. /\ t \in Int /\ rose[s] \in Int /\ length \in Int
         /\ RisesAt(n - CenterCounts) \in Int
    BY <1>1, <2>1, <2>6, <2>9 DEF PassTypeOK
  <2>12. length = FallsAt(m - CenterCounts) + 256 - RisesAt(n - CenterCounts) - 1
    BY <2>8, <2>9, <2>11
  <2> HIDE DEF length, c
  (* A pulse whose halves are computed from two positions lies between them. *)
  <2>13. (n <= length /\ length <= m) \/ (m <= length /\ length <= n)
    <3>1. n \in 153 .. 407 /\ m \in 153 .. 407 /\ length \in Int  BY <2>10, <2>11
    <3> QED
      BY ONLY <2>12, <3>1 DEF RisesAt, FallsAt, Bias, CenterCounts
  <2> QED  BY <2>7, <2>13 DEF length, c
<1>2. IInv /\ [Next]_vars => [Follows]_vars  BY <1>1
<1> QED  BY <1>2, Invariance, PTL DEF Spec, ServosFollowSticks
=============================================================================
