------------------------ MODULE DelayImplementsProofs ------------------------
(***************************************************************************)
(* The first channel of a delay implements a DelayLine, for every length,  *)
(* rate, delay and number of channels.                                     *)
(*                                                                         *)
(* Whatever an operation does, it does one of five things to the buffer of *)
(* the channel, each of which is a step of the line; and where the read    *)
(* pointer is (BufferOK) is what makes the tap of the line come out.       *)
(***************************************************************************)
EXTENDS DelayImplements, DelayProofs

(* What a setter makes of a buffer: it leaves its samples alone, or makes  *)
(* it anew.                                                                *)
Kept(b, p) == p.size = b.size /\ p.write = b.write /\ p.cells = b.cells

Made(p) ==
    /\ p.live /\ p.size \in Nat \ {0} /\ p.write = 0
    /\ p.cells = [i \in 0..p.size |-> IF i < p.size THEN Silence ELSE Foreign]

Set(b, p) == ~p.live \/ (Kept(b, p) /\ p.live = b.live) \/ Made(p)

----------------------------------------------------------------------------
(* The buffer and the line                                                 *)

(* Going back from the write pointer, every index is met once.             *)
LEMMA WrittenBeforeIndex ==
    ASSUME NEW b, b.size \in Nat, b.write \in 0..b.size, NEW k \in 0..b.size
    PROVE  /\ WrittenBefore(b, k) \in 0..b.size
           /\ (WrittenBefore(b, k) = b.size) = (k = b.write)
           /\ (WrittenBefore(b, k) = b.write) = (k = b.size)
BY DEF WrittenBefore

(* The index that is read, and the ones of the samples before.             *)
LEMMA TapIndex ==
    ASSUME NEW b, b.size \in Nat, b.write \in 0..b.size, NEW d \in 1..b.size
    PROVE  /\ d - 1 \in 0..b.size
           /\ Behind(b, d) = WrittenBefore(b, d - 1)
           /\ Behind(b, d) # b.write
<1> DEFINE n == b.size
           w == b.write
<1>1. n \in Nat /\ w \in 0..n /\ d \in 1..n
      OBVIOUS
<1>2. Behind(b, d) = IF w < d THEN w - d + n + 1 ELSE w - d
      BY DEF Behind
<1>3. WrittenBefore(b, d - 1) = IF d - 1 < w THEN w - 1 - (d - 1) ELSE w - 1 - (d - 1) + (n + 1)
      BY DEF WrittenBefore
<1> HIDE DEF n, w
<1>4. CASE w < d
      BY <1>1, <1>2, <1>3, <1>4 DEF w
<1>5. CASE w >= d
      BY <1>1, <1>2, <1>3, <1>5 DEF w
<1>. QED BY <1>1, <1>4, <1>5

(* When a sample has been fed, all others are one further back.            *)
LEMMA NextIndex ==
    ASSUME NEW b, b.size \in Nat, b.write \in 0..b.size,
           NEW p, p.size = b.size, p.write = IF b.write = b.size THEN 0 ELSE b.write + 1,
           NEW k \in 0..b.size, k # 0
    PROVE  /\ k - 1 \in 0..b.size
           /\ WrittenBefore(p, k) = WrittenBefore(b, k - 1)
           /\ WrittenBefore(b, k - 1) \in 0..b.size
           /\ WrittenBefore(b, k - 1) # b.write
<1> DEFINE n == b.size
           w == b.write
           v == p.write
<1>1. n \in Nat /\ w \in 0..n /\ k \in 1..n /\ v = IF w = n THEN 0 ELSE w + 1
      OBVIOUS
<1>2. WrittenBefore(p, k) = IF k < v THEN v - 1 - k ELSE v - 1 - k + (n + 1)
      BY DEF WrittenBefore
<1>3. WrittenBefore(b, k - 1) = IF k - 1 < w THEN w - 1 - (k - 1) ELSE w - 1 - (k - 1) + (n + 1)
      BY DEF WrittenBefore
<1> HIDE DEF n, w, v
<1>4. CASE w = n
      BY <1>1, <1>2, <1>3, <1>4 DEF n, w
<1>5. CASE w # n
      BY <1>1, <1>2, <1>3, <1>5 DEF n, w
<1>. QED BY <1>4, <1>5

(* What the read pointer will read is on the line, where the tap is.       *)
LEMMA TapOnLine ==
    ASSUME NEW b, NEW d \in Nat, BufferOK(b, d), b.live
    PROVE  /\ d = 0 => TapOf(b, d) = "sample"
           /\ d \in 1..b.size => TapOf(b, d) = LineOf(b)[d - 1]
<1> DEFINE cells == [i \in 0..b.size |-> IF i = b.write THEN 0 ELSE Older(b.cells[i])]
<1>1. /\ b \in Buffer /\ b.size \in Nat /\ b.size > 0 /\ b.write \in 0..b.size
      /\ \A i \in 0..b.size : b.cells[i] \in Content
      BY DEF BufferOK, Buffer
<1>2. Written(b).cells = cells /\ Written(b).size = b.size
      BY <1>1 DEF Written, Indices, Buffer
<1>3. ASSUME d <= b.size
      PROVE  /\ b.read = Behind(b, d) /\ b.read \in 0..b.size
             /\ Heard(b) = cells[b.read]
  <2>1. b.read = Behind(b, d)
        BY <1>3 DEF BufferOK
  <2>2. b.read \in 0..b.size
        BY <1>1, <1>3, <2>1 DEF Behind
  <2>. QED BY <1>2, <2>1, <2>2 DEF Heard, At, Indices
<1>4. d = 0 => TapOf(b, d) = "sample"
  <2>1. d = 0 => b.read = b.write
        BY <1>1, <1>3 DEF Behind
  <2>. QED BY <1>1, <1>3, <2>1 DEF TapOf, LeftOf
<1>5. ASSUME d \in 1..b.size
      PROVE  TapOf(b, d) = LineOf(b)[d - 1]
  <2>1. d - 1 \in 0..b.size /\ b.read = WrittenBefore(b, d - 1) /\ b.read # b.write
        BY <1>1, <1>3, <1>5, TapIndex
  <2>2. Heard(b) = Older(b.cells[b.read]) /\ b.cells[b.read] \in Content
        BY <1>1, <1>3, <1>5, <2>1
  <2>3. LineOf(b)[d - 1] = LeftOf(b.cells[b.read], d - 1)
        BY <2>1 DEF LineOf, Indices
  <2>. QED BY <2>2, <2>3, ContentAssumption DEF TapOf, LeftOf, Older, Content
<1>. QED BY <1>4, <1>5

(* A buffer just made is a fresh line.                                     *)
LEMMA MadeLine ==
    ASSUME NEW p, Made(p)
    PROVE  /\ SeamOf(p) = 0
           /\ LineOf(p) = [k \in 0..p.size |-> IF k = 0 THEN Foreign ELSE Silence]
<1>1. \A k \in 0..p.size : /\ WrittenBefore(p, k) \in 0..p.size
                           /\ WrittenBefore(p, k) = IF k = 0 THEN p.size ELSE p.size - k
      BY DEF Made, WrittenBefore
<1>2. \A k \in 0..p.size : p.cells[WrittenBefore(p, k)] = IF k = 0 THEN Foreign ELSE Silence
      BY <1>1 DEF Made
<1>. QED BY <1>2, ContentAssumption DEF Made, SeamOf, LineOf, LeftOf, Indices

(* A sample fed to a buffer moves the line on by one.                      *)
LEMMA FedLine ==
    ASSUME NEW b, NEW d \in Nat, BufferOK(b, d), b.live, NEW p, p = Fed(b)
    PROVE  /\ SeamOf(p) = IF SeamOf(b) = b.size THEN 0 ELSE SeamOf(b) + 1
           /\ LineOf(p) = [k \in 0..b.size |-> IF k = 0 THEN "sample" ELSE LineOf(b)[k - 1]]
<1> DEFINE cells == [i \in 0..b.size |-> IF i = b.write THEN 0 ELSE Older(b.cells[i])]
<1>1. /\ b \in Buffer /\ b.size \in Nat /\ b.write \in 0..b.size
      /\ \A i \in 0..b.size : b.cells[i] \in Content
      BY DEF BufferOK, Buffer
<1>2. p = WithAll(b, cells, Advanced(b, b.write), Advanced(b, b.read))
      BY DEF Fed, Written, Indices, WithAll
<1>3. p.size = b.size /\ p.write = Advanced(b, b.write) /\ p.cells = cells
      BY <1>1, <1>2, WithFields
<1>4. p.write = IF b.write = b.size THEN 0 ELSE b.write + 1
      BY <1>1, <1>3 DEF Advanced
<1>5. ASSUME NEW k \in 0..b.size
      PROVE  LeftOf(p.cells[WrittenBefore(p, k)], k) = IF k = 0 THEN "sample" ELSE LineOf(b)[k - 1]
  <2>1. CASE k = 0
    <3>1. WrittenBefore(p, 0) = b.write
          BY <1>1, <1>3, <1>4 DEF WrittenBefore
    <3>. QED BY <1>1, <1>3, <2>1, <3>1 DEF LeftOf
  <2>2. CASE k # 0
    <3>1. /\ k - 1 \in 0..b.size
          /\ WrittenBefore(p, k) = WrittenBefore(b, k - 1)
          /\ WrittenBefore(b, k - 1) \in 0..b.size
          /\ WrittenBefore(b, k - 1) # b.write
          BY <1>1, <1>3, <1>4, <2>2, NextIndex
    <3> DEFINE c == b.cells[WrittenBefore(b, k - 1)]
    <3>2. c \in Content /\ p.cells[WrittenBefore(p, k)] = Older(c)
          BY <1>1, <1>3, <3>1
    <3>3. LineOf(b)[k - 1] = LeftOf(c, k - 1)
          BY <3>1 DEF LineOf, Indices
    <3> HIDE DEF c
    <3>4. LeftOf(Older(c), k) = LeftOf(c, k - 1)
          BY <3>2, <2>2, ContentAssumption DEF LeftOf, Older, Content
    <3>. QED BY <2>2, <3>2, <3>3, <3>4
  <2>. QED BY <2>1, <2>2
<1>6. LineOf(p) = [k \in 0..b.size |-> LeftOf(p.cells[WrittenBefore(p, k)], k)]
      BY <1>3 DEF LineOf, Indices
<1>. QED BY <1>4, <1>5, <1>6 DEF SeamOf

(* Clear silences the line, but for the seam.                              *)
LEMMA ClearedLine ==
    ASSUME NEW b, NEW d \in Nat, BufferOK(b, d), NEW p, p = Cleared(b)
    PROVE  /\ p.live = b.live /\ p.size = b.size /\ SeamOf(p) = SeamOf(b)
           /\ LineOf(p) = [k \in 0..b.size |-> IF k = SeamOf(b) THEN LineOf(b)[k] ELSE Silence]
<1> DEFINE cells == [i \in 0..b.size |-> IF i < b.size THEN Silence ELSE b.cells[i]]
<1>1. b \in Buffer /\ b.size \in Nat /\ b.write \in 0..b.size
      BY DEF BufferOK, Buffer
<1>2. p.live = b.live /\ p.size = b.size /\ p.write = b.write /\ p.cells = cells
      BY <1>1 DEF Cleared, Indices, Buffer
<1>3. ASSUME NEW k \in 0..b.size
      PROVE  LeftOf(p.cells[WrittenBefore(p, k)], k)
               = IF k = b.write THEN LineOf(b)[k] ELSE Silence
  <2>1. /\ WrittenBefore(p, k) = WrittenBefore(b, k)
        /\ WrittenBefore(b, k) \in 0..b.size
        /\ (WrittenBefore(b, k) = b.size) = (k = b.write)
    <3>1. WrittenBefore(p, k) = WrittenBefore(b, k)
          BY <1>2 DEF WrittenBefore
    <3>. QED BY <1>1, <3>1, WrittenBeforeIndex
  <2>2. p.cells[WrittenBefore(p, k)]
          = IF k = b.write THEN b.cells[WrittenBefore(b, k)] ELSE Silence
        BY <1>1, <1>2, <2>1
  <2>3. LineOf(b)[k] = LeftOf(b.cells[WrittenBefore(b, k)], k)
        BY DEF LineOf, Indices
  <2>. QED BY <2>2, <2>3, ContentAssumption DEF LeftOf
<1>4. LineOf(p) = [k \in 0..b.size |-> LeftOf(p.cells[WrittenBefore(p, k)], k)]
      BY <1>2 DEF LineOf, Indices
<1>. QED BY <1>2, <1>3, <1>4 DEF SeamOf

(* Whoever writes past the buffer writes to the seam.                      *)
LEMMA ForeignLine ==
    ASSUME NEW b, NEW d \in Nat, BufferOK(b, d),
           NEW p, p = [b EXCEPT !.cells[b.size] = Foreign]
    PROVE  /\ p.live = b.live /\ p.size = b.size /\ SeamOf(p) = SeamOf(b)
           /\ LineOf(p) = [LineOf(b) EXCEPT ![SeamOf(b)] = Foreign]
<1> DEFINE cells == [b.cells EXCEPT ![b.size] = Foreign]
<1>1. /\ b \in Buffer /\ b.size \in Nat /\ b.write \in 0..b.size
      /\ DOMAIN b.cells = 0..b.size
      BY DEF BufferOK, Buffer
<1>2. p = [b EXCEPT !.cells = cells]
      OBVIOUS
<1>3. /\ p.live = b.live /\ p.size = b.size /\ p.write = b.write
      /\ \A i \in 0..b.size : p.cells[i] = IF i = b.size THEN Foreign ELSE b.cells[i]
  <2> HIDE DEF cells
  <2>1. p.live = b.live /\ p.size = b.size /\ p.write = b.write /\ p.cells = cells
        BY <1>1, <1>2 DEF Buffer
  <2>2. \A i \in 0..b.size : cells[i] = IF i = b.size THEN Foreign ELSE b.cells[i]
        BY <1>1 DEF cells, BufferOK, Buffer
  <2>. QED BY <2>1, <2>2
<1>4. ASSUME NEW k \in 0..b.size
      PROVE  LeftOf(p.cells[WrittenBefore(p, k)], k)
               = IF k = b.write THEN Foreign ELSE LineOf(b)[k]
  <2>1. /\ WrittenBefore(p, k) = WrittenBefore(b, k)
        /\ WrittenBefore(b, k) \in 0..b.size
        /\ (WrittenBefore(b, k) = b.size) = (k = b.write)
    <3>1. WrittenBefore(p, k) = WrittenBefore(b, k)
          BY <1>3 DEF WrittenBefore
    <3>. QED BY <1>1, <3>1, WrittenBeforeIndex
  <2>2. p.cells[WrittenBefore(p, k)]
          = IF k = b.write THEN Foreign ELSE b.cells[WrittenBefore(b, k)]
        BY <1>3, <2>1
  <2>3. LineOf(b)[k] = LeftOf(b.cells[WrittenBefore(b, k)], k)
        BY DEF LineOf, Indices
  <2>. QED BY <2>2, <2>3, ContentAssumption DEF LeftOf
<1>5. LineOf(p) = [k \in 0..b.size |-> LeftOf(p.cells[WrittenBefore(p, k)], k)]
      BY <1>3 DEF LineOf, Indices
<1>6. LineOf(b) = [k \in 0..b.size |-> LineOf(b)[k]]
      BY DEF LineOf, Indices
<1> DEFINE l == LineOf(b)
<1>7. l = [k \in 0..b.size |-> l[k]]
      BY <1>6
<1> HIDE DEF l
<1>8. [l EXCEPT ![b.write] = Foreign] = [k \in 0..b.size |-> IF k = b.write THEN Foreign ELSE l[k]]
      BY <1>7
<1>. QED BY <1>3, <1>4, <1>5, <1>8 DEF SeamOf, l

LEMMA KeptLine ==
    ASSUME NEW b, NEW p, Kept(b, p)
    PROVE  p.size = b.size /\ SeamOf(p) = SeamOf(b) /\ LineOf(p) = LineOf(b)
<1>1. \A k : WrittenBefore(p, k) = WrittenBefore(b, k)
      BY DEF Kept, WrittenBefore
<1>. QED BY <1>1 DEF Kept, SeamOf, LineOf, Indices

----------------------------------------------------------------------------
(* The operations                                                          *)

LEMMA PositionedKeeps ==
    ASSUME NEW b \in Buffer, NEW d
    PROVE  Kept(b, Positioned(b, d)) /\ Positioned(b, d).live = b.live
BY DEF Positioned, Kept, Buffer

LEMMA ResizedMakes ==
    ASSUME NEW b, NEW n \in Nat \ {0}, NEW d
    PROVE  Made(Positioned(Resized(b, n), d))
<1> DEFINE z == Resized(b, n)
           cells == [i \in 0..n |-> IF i < n THEN Silence ELSE Foreign]
<1>1. z = [live |-> TRUE, size |-> n, write |-> 0, read |-> 0, cells |-> cells]
      BY DEF Resized
<1>2. cells \in [0..n -> Content]
      BY DEF Content
<1>3. z \in Buffer
      BY <1>1, <1>2 DEF Buffer
<1>4. z.live /\ z.size = n /\ z.write = 0 /\ z.cells = cells
      BY <1>1
<1> HIDE DEF z
<1>. QED BY <1>3, <1>4, PositionedKeeps DEF Kept, Made, z

LEMMA SetTwice ==
    ASSUME NEW b, NEW p, NEW q, Set(b, p), Kept(p, q), q.live = p.live
    PROVE  Set(b, q)
BY DEF Set, Kept, Made

LEMMA FirstOK ==
    ASSUME IInv
    PROVE  /\ 0 \in DOMAIN mBuffers /\ delay.samples \in Nat /\ First \in Buffer
           /\ \A c \in DOMAIN mBuffers : BufferOK(mBuffers[c], delay.samples)
<1>1. 0 \in DOMAIN mBuffers
      BY FirstChannelAssumption, InputsAssumption DEF IInv, LengthsOK
<1>. QED BY <1>1 DEF IInv, LengthsOK, Length, First, BufferOK

(* init(): nothing, or a buffer made anew.                                 *)
LEMMA InitedSets ==
    ASSUME NEW max, NEW n \in Nat, NEW rate, NEW bs, 0 \in DOMAIN bs,
           NEW i, i = Inited(max, n, rate, bs)
    PROVE  /\ 0 \in DOMAIN i.buffers
           /\ i.buffers[0] = bs[0] \/ Made(i.buffers[0])
<1>1. CASE n = 0
      BY <1>1 DEF Inited
<1>2. CASE n # 0
  <2> DEFINE made == [c \in DOMAIN bs |-> Resized(bs[c], n)]
  <2>1. i.buffers = Reset(made, delay.samples)
        BY <1>2 DEF Inited
  <2>2. 0 \in DOMAIN i.buffers /\ i.buffers[0] = Positioned(Resized(bs[0], n), delay.samples)
        BY <2>1 DEF Reset
  <2>. QED BY <1>2, <2>2, ResizedMakes
<1>. QED BY <1>1, <1>2

LEMMA MaxNumChannelsSets ==
    ASSUME IInv, NEW n \in ChannelCounts, setMaxNumChannels(n)
    PROVE  Set(First, First')
<1>1. PICK moved \in BOOLEAN :
        LET resized == [c \in 0..(n - 1) |->
                            IF c \notin DOMAIN mBuffers THEN NewBuffer
                            ELSE [mBuffers[c] EXCEPT !.live = @ /\ ~moved]]
            inited  == Inited(delayMax, delayMax.samples, srMill, resized)
        IN  mBuffers' = inited.buffers
      BY DEF setMaxNumChannels
<1> DEFINE resized == [c \in 0..(n - 1) |->
                         IF c \notin DOMAIN mBuffers THEN NewBuffer
                         ELSE [mBuffers[c] EXCEPT !.live = @ /\ ~moved]]
           b == [First EXCEPT !.live = @ /\ ~moved]
<1>2. 0 \in DOMAIN resized /\ resized[0] = b
      BY FirstOK, FirstChannelAssumption, InputsAssumption DEF First
<1>3. Set(First, b)
  <2>1. First \in Buffer
        BY FirstOK
  <2>2. CASE moved
        BY <2>1, <2>2 DEF Set, Buffer
  <2>3. CASE ~moved
        BY <2>1, <2>3 DEF Set, Kept, Buffer
  <2>. QED BY <2>2, <2>3
<1>4. mBuffers' = Inited(delayMax, delayMax.samples, srMill, resized).buffers
      BY <1>1
<1>5. delayMax.samples \in Nat
      BY DEF IInv, LengthsOK, Length
<1> HIDE DEF resized, b
<1>6. First' = resized[0] \/ Made(First')
      BY <1>2, <1>4, <1>5, InitedSets DEF First
<1>. QED BY <1>2, <1>3, <1>6 DEF Set

LEMMA NewMaxSets ==
    ASSUME IInv, NEW max, NEW n \in Nat, mBuffers' = Inited(max, n, srMill, mBuffers).buffers
    PROVE  Set(First, First')
<1>1. First' = First \/ Made(First')
      BY FirstOK, InitedSets DEF First
<1>. QED BY <1>1 DEF Set, Kept

LEMMA ResetSets ==
    ASSUME NEW bs, 0 \in DOMAIN bs, bs[0] \in Buffer, NEW d, NEW b, Set(b, bs[0])
    PROVE  Set(b, Reset(bs, d)[0])
<1>1. Reset(bs, d)[0] = Positioned(bs[0], d)
      BY DEF Reset
<1>. QED BY <1>1, PositionedKeeps, SetTwice

LEMMA SrSets ==
    ASSUME IInv, NEW rate \in Rates, setSr(rate)
    PROVE  Set(First, First')
<1> DEFINE n == SamplesOf(delayMax.time, rate)
           inited == Inited(delayMax, n, rate, mBuffers)
           set == DelaySet(delay.time, inited.max, rate)
<1>1. mBuffers' = Reset(inited.buffers, set.samples)
      BY DEF setSr
<1>2. delayMax \in Length /\ n \in Nat
      BY ConversionsNat DEF IInv, LengthsOK, Length
<1> HIDE DEF n
<1>3. /\ 0 \in DOMAIN inited.buffers
      /\ inited.buffers[0] = First \/ Made(inited.buffers[0])
      BY <1>2, FirstOK, InitedSets DEF First
<1>4. inited.buffers[0] \in Buffer
  <2>1. n = 0 => Ready(delayMax, mBuffers)
        BY DEF IInv, BuffersReady, Ready
  <2>2. BufferOK(inited.buffers[0], delay.samples)
        BY <1>2, <2>1, FirstOK, InitedOK DEF IInv, LengthsOK
  <2>. QED BY <2>2 DEF BufferOK
<1> HIDE DEF inited, set
<1>5. Set(First, inited.buffers[0])
      BY <1>3 DEF Set, Kept
<1>. QED BY <1>1, <1>3, <1>4, <1>5, ResetSets DEF First

LEMMA NewDelaySets ==
    ASSUME IInv, NEW d, mBuffers' = Reset(mBuffers, d)
    PROVE  Set(First, First')
<1>1. Set(First, First)
      BY DEF Set, Kept
<1>. QED BY <1>1, FirstOK, ResetSets DEF First

----------------------------------------------------------------------------
(* The steps of the line                                                   *)

(* The tap always is where the delay says.                                 *)
LEMMA TapIsOK == ASSUME IInv PROVE Line!TapOK
<1>1. /\ delay.samples \in Nat /\ BufferOK(First, delay.samples)
      /\ First.size \in Nat
      BY FirstOK DEF First, BufferOK, Buffer
<1>2. CASE First.live
      BY <1>1, <1>2, TapOnLine DEF Line!TapOK, Line!Sample
<1>3. CASE ~First.live
      BY <1>1, <1>3 DEF Line!TapOK
<1>. QED BY <1>2, <1>3

LEMMA SetRefines ==
    ASSUME IInv, Line!TapOK', Set(First, First')
    PROVE  Line!Next
<1>1. CASE ~First'.live
      BY <1>1 DEF Line!Next, Line!Lose
<1>2. CASE Kept(First, First') /\ First'.live = First.live
      BY <1>2, KeptLine DEF Line!Next, Line!SetDelay
<1>3. CASE Made(First')
      BY <1>3, MadeLine DEF Line!Next, Line!Make, Line!Fresh, Line!Places, Made
<1>. QED BY <1>1, <1>2, <1>3 DEF Set

LEMMA ClearRefines ==
    ASSUME IInv, Line!TapOK', Clear
    PROVE  Line!Next
<1>1. First' = Cleared(First) /\ delay' = delay
      BY FirstOK DEF Clear, First
<1>2. delay.samples \in Nat /\ BufferOK(First, delay.samples)
      BY FirstOK DEF First
<1>3. CASE First.live
      BY <1>1, <1>2, <1>3, ClearedLine DEF Line!Next, Line!Clear, Line!Places
<1>4. CASE ~First.live
      BY <1>1, <1>2, <1>4, ClearedLine DEF Line!Next, Line!Lose
<1>. QED BY <1>3, <1>4

LEMMA ProcessRefines ==
    ASSUME IInv, Line!TapOK', NEW c \in DOMAIN mBuffers, process(c)
    PROVE  [Line!Next]_(Line!lineVars)
<1>1. First.live = TRUE \/ c # 0
      BY FirstOK DEF process, First, Buffer
<1>2. delay' = delay /\ First' = IF c = 0 THEN Fed(First) ELSE First
      BY FirstOK DEF process, First
<1>3. delay.samples \in Nat /\ BufferOK(First, delay.samples) /\ First.size \in Nat
      BY FirstOK DEF First, BufferOK, Buffer
<1>4. CASE c = 0
  <2>1. First'.live /\ First'.size = First.size /\ First.live /\ First.size > 0
        BY <1>1, <1>2, <1>3, <1>4, FedOK DEF BufferOK
  <2>2. /\ SeamOf(First)' = IF SeamOf(First) = First.size THEN 0 ELSE SeamOf(First) + 1
        /\ LineOf(First)' = [k \in 0..First.size |->
                               IF k = 0 THEN "sample" ELSE LineOf(First)[k - 1]]
        BY <1>2, <1>3, <1>4, <2>1, FedLine
  <2>. QED BY <1>2, <2>1, <2>2
           DEF Line!Next, Line!Feed, Line!Places, Line!Sample
<1>5. CASE c # 0
      BY <1>2, <1>5 DEF Line!lineVars, LineOf, SeamOf, TapOf
<1>. QED BY <1>4, <1>5

LEMMA ForeignWriteRefines ==
    ASSUME IInv, Line!TapOK', NEW c \in DOMAIN mBuffers, ForeignWrite(c)
    PROVE  [Line!Next]_(Line!lineVars)
<1>1. delay.samples \in Nat /\ BufferOK(First, delay.samples)
      BY FirstOK DEF First
<1> DEFINE p == [First EXCEPT !.cells[First.size] = Foreign]
<1>2. CASE c = 0
  <2>1. First' = p /\ delay' = delay
        BY <1>2, FirstOK DEF ForeignWrite, First
  <2> HIDE DEF p
  <2>2. /\ p.live = First.live /\ p.size = First.size /\ SeamOf(p) = SeamOf(First)
        /\ LineOf(p) = [LineOf(First) EXCEPT ![SeamOf(First)] = Foreign]
        BY <1>1, ForeignLine DEF p
  <2>. QED BY <2>1, <2>2 DEF Line!Next, Line!WriteSeam
<1>3. CASE c # 0
  <2>1. First' = First /\ delay' = delay
        BY <1>3, FirstOK DEF ForeignWrite, First
  <2>. QED BY <2>1 DEF Line!lineVars, LineOf, SeamOf, TapOf
<1>. QED BY <1>2, <1>3

----------------------------------------------------------------------------
(* The constructor makes a fresh line.                                     *)
LEMMA InitRefines == Init => Line!Init
<1> SUFFICES ASSUME Init
             PROVE  Line!Init
    OBVIOUS
<1>1. PICK n \in ChannelCounts, m \in SampleCounts, d \in SampleCounts :
        /\ m > 0
        /\ mBuffers = [c \in 0..(n - 1) |-> Positioned(Resized(NewBuffer, m), d)]
      BY DEF Init
<1>2. First = Positioned(Resized(NewBuffer, m), d) /\ m \in Nat \ {0}
      BY <1>1, FirstChannelAssumption, InputsAssumption DEF First
<1>3. Made(First)
      BY <1>2, ResizedMakes
<1>4. Line!Fresh
      BY <1>3, MadeLine DEF Line!Fresh, Line!Places, Made
<1>5. Line!TapOK
      BY InitOK, TapIsOK
<1>. QED BY <1>4, <1>5 DEF Line!Init

LEMMA StepRefines ==
    ASSUME IInv, Line!TapOK', [Next]_vars
    PROVE  [Line!Next]_(Line!lineVars)
<1>1. ASSUME NEW n \in ChannelCounts, setMaxNumChannels(n)
      PROVE  Line!Next
      BY <1>1, MaxNumChannelsSets, SetRefines
<1>2. ASSUME NEW rate \in Rates, setSr(rate)
      PROVE  Line!Next
      BY <1>2, SrSets, SetRefines
<1>3. ASSUME NEW t \in Times, setDelay(t)
      PROVE  Line!Next
      BY <1>3, NewDelaySets, SetRefines DEF setDelay
<1>4. ASSUME NEW t \in Times, setDelayMax(t)
      PROVE  Line!Next
  <2>1. SamplesOf(t, srMill) \in Nat
        BY InputsAssumption, ConversionsNat DEF IInv, LengthsOK
  <2>. QED BY <1>4, <2>1, NewMaxSets, SetRefines DEF setDelayMax
<1>5. ASSUME NEW n \in SampleCounts, setDelayInSamples(n)
      PROVE  Line!Next
      BY <1>5, NewDelaySets, SetRefines DEF setDelayInSamples
<1>6. ASSUME NEW n \in SampleCounts, setDelayMaxInSamples(n)
      PROVE  Line!Next
      BY <1>6, InputsAssumption, NewMaxSets, SetRefines DEF setDelayMaxInSamples
<1>7. ASSUME NEW name \in {"none", "linear", "cubic"}, setInterpolation(name)
      PROVE  [Line!Next]_(Line!lineVars)
      BY <1>7 DEF setInterpolation, Line!lineVars, First, LineOf, SeamOf, TapOf
<1>8. CASE UNCHANGED vars
      BY <1>8 DEF vars, Line!lineVars, First, LineOf, SeamOf, TapOf
<1>. QED BY <1>1, <1>2, <1>3, <1>4, <1>5, <1>6, <1>7, <1>8,
            ClearRefines, ProcessRefines, ForeignWriteRefines DEF Next

(* ImplementsDelayLine: what the first channel does with its circular      *)
(* buffer is what a line of samples with a tap does, at every delay.       *)
THEOREM DelayIsALine == Spec => ImplementsDelayLine
<1>1. IInv => Line!TapOK
      BY TapIsOK
<1>2. IInv /\ Line!TapOK' /\ [Next]_vars => [Line!Next]_(Line!lineVars)
      BY StepRefines
<1>. QED BY <1>1, <1>2, InitRefines, Invariance, PTL DEF Spec, ImplementsDelayLine, Line!Spec
=============================================================================
