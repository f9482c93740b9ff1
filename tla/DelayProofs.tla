----------------------------- MODULE DelayProofs -----------------------------
(***************************************************************************)
(* The delay of TTDelay is exact for every length, rate and number of      *)
(* channels.                                                               *)
(*                                                                         *)
(* The invariant says of each buffer with memory what is in each of its    *)
(* cells: the sample that, going round from the write pointer, must have   *)
(* been written there last, unless it was cleared since; and where the     *)
(* read pointer is: mDelayInSamples behind.  HeardIsDelayed by itself says *)
(* nothing of the cells that will be heard next.                           *)
(***************************************************************************)
EXTENDS Delay, TLAPS

(* How long ago the cell i was written, if it has been.                    *)
AgeAt(b, i) == IF i < b.write THEN b.write - 1 - i ELSE b.write - i + b.size

(* The index d samples behind the write pointer.                           *)
Behind(b, d) == IF b.write < d THEN b.write - d + b.size + 1 ELSE b.write - d

(* The pointers are d apart when the buffer is gone round, however often:  *)
(* a delay longer than the buffer goes round it more than once.            *)
Apart(b, d) ==
    /\ b.read <= b.size
    /\ \E turns \in Int : b.write - b.read - d = turns * (b.size + 1)

Buffer == [live : BOOLEAN, size : Nat, write : Nat, read : Int,
           cells : UNION { [0..n -> Content] : n \in Nat }]

BufferOK(b, d) ==
    /\ b \in Buffer
    /\ DOMAIN b.cells = 0..b.size
    /\ b.write \in 0..b.size
    /\ b.live => /\ b.size > 0
                 /\ d <= b.size => b.read = Behind(b, d)
                 /\ Apart(b, d)
                 /\ \A i \in 0..b.size : \/ b.cells[i] \in {AgeAt(b, i), Silence}
                                         \/ i = b.size /\ b.cells[i] = Foreign

LengthsOK ==
    /\ srMill \in Rates
    /\ maxNumChannels \in ChannelCounts
    /\ delay \in Length
    /\ delayMax \in Length
    /\ loop \in {"none", "linear", "cubic"}

IInv ==
    /\ LengthsOK
    /\ DOMAIN mBuffers = 0..(maxNumChannels - 1)
    /\ \A c \in DOMAIN mBuffers : BufferOK(mBuffers[c], delay.samples)
    /\ BuffersReady

----------------------------------------------------------------------------
(* The buffer                                                              *)

(* A new element of mBuffers is in order: it has no memory.                *)
LEMMA NewBufferOK == ASSUME NEW d \in Nat PROVE BufferOK(NewBuffer, d)
<1>1. NewBuffer.cells = [i \in 0..0 |-> Foreign]
    BY DEF NewBuffer
<1>2. NewBuffer.cells \in [0..0 -> Content]
    BY <1>1 DEF Content
<1>. QED BY <1>1, <1>2 DEF NewBuffer, BufferOK, Buffer

(* reset() puts the read pointer where a delay it has room for needs it.   *)
LEMMA PositionedOK ==
    ASSUME NEW b, NEW d0, NEW d \in Nat, BufferOK(b, d0)
    PROVE  /\ BufferOK(Positioned(b, d), d)
           /\ Positioned(b, d).live = b.live
           /\ Positioned(b, d).size = b.size
<1> DEFINE p == Positioned(b, d)
<1>1. /\ p \in Buffer
      /\ p.live = b.live /\ p.size = b.size /\ p.write = b.write /\ p.cells = b.cells
    BY DEF Positioned, BufferOK, Buffer
<1>2. ASSUME b.live
      PROVE  Apart(p, d) /\ (d <= b.size => p.read = Behind(p, d))
  <2>1. b.size \in Nat /\ b.write \in 0..b.size
    BY DEF BufferOK, Buffer
  <2>2. p.read = IF b.write - d < 0 THEN b.size + (b.write - d) + 1
                 ELSE IF b.write - d > b.size THEN b.write - d - b.size
                 ELSE b.write - d
    <3>1. b = [live |-> b.live, size |-> b.size, write |-> b.write, read |-> b.read,
               cells |-> b.cells]
      BY DEF BufferOK, Buffer
    <3>. QED BY <1>2, <3>1 DEF Positioned
  <2>3. p.write = b.write /\ p.size = b.size
    BY <1>1
  <2> HIDE DEF p
  <2>4. CASE b.write < d
    <3>1. p.read = b.size + (b.write - d) + 1
      BY <2>1, <2>2, <2>4
    <3>2. p.write - p.read - d = -(b.size + 1) /\ p.read <= p.size
      BY <2>1, <2>3, <2>4, <3>1
    <3>3. -(b.size + 1) = (-1) * (b.size + 1) /\ -1 \in Int
      BY <2>1
    <3>4. Apart(p, d)
      BY <2>3, <3>2, <3>3 DEF Apart
    <3>. QED BY <2>1, <2>3, <2>4, <3>1, <3>4 DEF Behind
  <2>5. CASE b.write >= d
    <3>1. p.read = b.write - d
      BY <2>1, <2>2, <2>5
    <3>2. p.write - p.read - d = 0 * (p.size + 1) /\ p.read <= p.size
      BY <2>1, <2>3, <2>5, <3>1
    <3>. QED BY <2>1, <2>3, <2>5, <3>1, <3>2 DEF Behind, Apart
  <2>. QED BY <2>1, <2>4, <2>5
<1>3. \A i \in 0..b.size : AgeAt(p, i) = AgeAt(b, i)
    BY <1>1 DEF AgeAt
<1> HIDE DEF p
<1>4. BufferOK(p, d)
    BY <1>1, <1>2, <1>3 DEF BufferOK
<1>. QED BY <1>1, <1>4 DEF p

(* init() leaves a buffer of the length asked for, in order.               *)
LEMMA ResizedOK ==
    ASSUME NEW b, NEW n \in Nat \ {0}, NEW d \in Nat
    PROVE  /\ BufferOK(Positioned(Resized(b, n), d), d)
           /\ Positioned(Resized(b, n), d).live
           /\ Positioned(Resized(b, n), d).size = n
<1> DEFINE z == Resized(b, n)
           cells == [i \in 0..n |-> IF i < n THEN Silence ELSE Foreign]
<1>1. z = [live |-> TRUE, size |-> n, write |-> 0, read |-> 0, cells |-> cells]
    BY DEF Resized
<1>2. cells \in [0..n -> Content]
    BY DEF Content
<1>3. z \in Buffer
    BY <1>1, <1>2 DEF Buffer
<1>4. /\ DOMAIN cells = 0..n
      /\ \A i \in 0..n : cells[i] = Silence \/ (i = n /\ cells[i] = Foreign)
    OBVIOUS
<1> HIDE DEF z, cells
<1>5. z.live /\ z.size = n /\ z.write = 0 /\ z.read = 0 /\ z.cells = cells
    BY <1>1
<1>6. Apart(z, 0)
  <2>1. z.write - z.read - 0 = 0 * (z.size + 1) /\ z.read <= z.size
    BY <1>5
  <2>. QED BY <2>1 DEF Apart
<1>7. BufferOK(z, 0)
    BY <1>3, <1>4, <1>5, <1>6 DEF BufferOK, Behind
<1>. QED BY <1>5, <1>7, PositionedOK DEF z

(* Clear zeroes samples, and moves nothing.                                *)
LEMMA ClearedOK ==
    ASSUME NEW b, NEW d \in Nat, BufferOK(b, d)
    PROVE  /\ BufferOK(Cleared(b), d)
           /\ Cleared(b).live = b.live
           /\ Cleared(b).size = b.size
<1> DEFINE cells == [i \in 0..b.size |-> IF i < b.size THEN Silence ELSE b.cells[i]]
           p == [b EXCEPT !.cells = cells]
<1>1. Cleared(b) = p
    BY DEF Cleared, Indices
<1>2. /\ b \in Buffer /\ b.size \in Nat
      /\ \A i \in 0..b.size : b.cells[i] \in Content
    BY DEF BufferOK, Buffer
<1>3. cells \in [0..b.size -> Content]
    BY <1>2 DEF Content
<1>4. \A i \in 0..b.size : cells[i] \in {b.cells[i], Silence}
    OBVIOUS
<1> HIDE DEF cells
<1>5. /\ p.live = b.live /\ p.size = b.size /\ p.write = b.write /\ p.read = b.read
      /\ p.cells = cells
      /\ p \in Buffer
    BY <1>2, <1>3 DEF Buffer
<1>6. \A i \in 0..b.size : AgeAt(p, i) = AgeAt(b, i)
    BY <1>5 DEF AgeAt
<1>7. Behind(p, d) = Behind(b, d) /\ (Apart(b, d) => Apart(p, d))
    BY <1>5 DEF Behind, Apart
<1> HIDE DEF p
<1>9. BufferOK(p, d)
    BY <1>3, <1>4, <1>5, <1>6, <1>7 DEF BufferOK
<1>. QED BY <1>1, <1>5, <1>9

(* The owner of the memory past the end may write there what it likes.     *)
LEMMA ForeignWriteOK ==
    ASSUME NEW b, NEW d \in Nat, BufferOK(b, d)
    PROVE  /\ BufferOK([b EXCEPT !.cells[b.size] = Foreign], d)
           /\ [b EXCEPT !.cells[b.size] = Foreign].live = b.live
           /\ [b EXCEPT !.cells[b.size] = Foreign].size = b.size
<1> DEFINE cells == [b.cells EXCEPT ![b.size] = Foreign]
           p == [b EXCEPT !.cells = cells]
<1>1. [b EXCEPT !.cells[b.size] = Foreign] = p
    OBVIOUS
<1>2. /\ b \in Buffer /\ b.size \in Nat /\ b.cells \in [0..b.size -> Content]
    BY DEF BufferOK, Buffer
<1>3. /\ cells \in [0..b.size -> Content]
      /\ \A i \in 0..b.size : cells[i] = IF i = b.size THEN Foreign ELSE b.cells[i]
    BY <1>2 DEF Content
<1> HIDE DEF cells
<1>5. /\ p.live = b.live /\ p.size = b.size /\ p.write = b.write /\ p.read = b.read
      /\ p.cells = cells
      /\ p \in Buffer
    BY <1>2, <1>3 DEF Buffer
<1>6. \A i \in 0..b.size : AgeAt(p, i) = AgeAt(b, i)
    BY <1>5 DEF AgeAt
<1>7. Behind(p, d) = Behind(b, d) /\ (Apart(b, d) => Apart(p, d))
    BY <1>5 DEF Behind, Apart
<1> HIDE DEF p
<1>9. BufferOK(p, d)
    BY <1>3, <1>5, <1>6, <1>7 DEF BufferOK
<1>. QED BY <1>1, <1>5, <1>9

(* A buffer with other samples and pointers ...                            *)
WithAll(b, cells, w, r) == [[b EXCEPT !.cells = cells] EXCEPT !.write = w, !.read = r]

(* ... field by field.                                                     *)
LEMMA WithFields ==
    ASSUME NEW b \in Buffer, NEW cells, NEW w, NEW r
    PROVE  WithAll(b, cells, w, r)
             = [live |-> b.live, size |-> b.size, write |-> w, read |-> r, cells |-> cells]
<1> DEFINE l == b.live
           s == b.size
           x == b.write
           y == b.read
           z == b.cells
<1>1. b = [live |-> l, size |-> s, write |-> x, read |-> y, cells |-> z]
    BY DEF Buffer
<1> HIDE DEF l, s, x, y, z
<1> DEFINE p == [b EXCEPT !.cells = cells]
           q == [p EXCEPT !.write = w]
<1>2. p = [live |-> l, size |-> s, write |-> x, read |-> y, cells |-> cells]
    BY <1>1
<1> HIDE DEF p
<1>3. q = [live |-> l, size |-> s, write |-> w, read |-> y, cells |-> cells]
    BY <1>2
<1>4. [p EXCEPT !.write = w, !.read = r] = [q EXCEPT !.read = r]
    OBVIOUS
<1> HIDE DEF q
<1>5. [q EXCEPT !.read = r]
        = [live |-> l, size |-> s, write |-> w, read |-> r, cells |-> cells]
    BY <1>3
<1>. QED BY <1>4, <1>5 DEF p, l, s, WithAll

(* Two pointers that both go one on, round a buffer of n + 1 places, stay d *)
(* apart.                                                                  *)
LEMMA NextBehind ==
    ASSUME NEW b, b.size \in Nat, b.write \in 0..b.size,
           NEW p, p.size = b.size,
           p.write = IF b.write = b.size THEN 0 ELSE b.write + 1,
           p.read = IF b.read + 1 > b.size THEN 0 ELSE b.read + 1,
           NEW d \in Nat, d <= b.size, b.read = Behind(b, d)
    PROVE  p.read = Behind(p, d)
<1>1. CASE b.write < d
  <2>1. b.read = b.write - d + b.size + 1
    BY <1>1 DEF Behind
  <2>2. CASE b.write + 1 = d
    <3>1. b.read = b.size /\ p.read = 0
      BY <2>1, <2>2
    <3>2. p.write = IF d = b.size + 1 THEN 0 ELSE d
      BY <2>2
    <3>. QED BY <2>2, <3>1, <3>2 DEF Behind
  <2>3. CASE b.write + 1 < d
    <3>1. p.write = b.write + 1 /\ p.read = b.write - d + b.size + 2
      BY <2>1, <2>3
    <3>. QED BY <2>3, <3>1 DEF Behind
  <2>. QED BY <1>1, <2>2, <2>3
<1>2. CASE b.write >= d
  <2>1. b.read = b.write - d
    BY <1>2 DEF Behind
  <2>2. CASE b.write = b.size
    <3>1. p.write = 0 /\ p.read = IF d = 0 THEN 0 ELSE b.size - d + 1
      BY <2>1, <2>2
    <3>. QED BY <3>1 DEF Behind
  <2>3. CASE b.write # b.size
    <3>1. p.write = b.write + 1 /\ p.read = b.write - d + 1
      BY <2>1, <2>3
    <3>. QED BY <1>2, <3>1 DEF Behind
  <2>. QED BY <2>2, <2>3
<1>. QED BY <1>1, <1>2

LEMMA NextApart ==
    ASSUME NEW b, b.size \in Nat, b.write \in 0..b.size, b.read \in Int,
           NEW p, p.size = b.size,
           p.write = IF b.write = b.size THEN 0 ELSE b.write + 1,
           p.read = IF b.read + 1 > b.size THEN 0 ELSE b.read + 1,
           NEW d \in Nat, Apart(b, d)
    PROVE  Apart(p, d)
<1> DEFINE round == b.size + 1
           gap == p.write - p.read - d
<1>1. PICK turns \in Int : b.write - b.read - d = turns * round
    BY DEF Apart
<1>2. b.read <= b.size
    BY DEF Apart
<1>3. /\ round \in Nat
      /\ (turns - 1) * round = turns * round - round
      /\ (turns + 1) * round = turns * round + round
    <2>1. round \in Nat
      OBVIOUS
    <2> HIDE DEF round
    <2>. QED BY <2>1
<1>4. \/ gap = turns * round
      \/ gap = turns * round - round
      \/ gap = turns * round + round
  <2> DEFINE product == turns * round
  <2>1. product \in Int /\ b.write - b.read - d = product
    BY <1>1, <1>3
  <2> HIDE DEF product
  <2>2. gap \in {product, product - round, product + round}
    BY <1>2, <2>1
  <2>. QED BY <2>2 DEF product
<1>5. \E more \in Int : gap = more * round
  <2>1. turns - 1 \in Int /\ turns + 1 \in Int
    OBVIOUS
  <2> HIDE DEF gap, round
  <2>. QED BY <1>3, <1>4, <2>1
<1>6. p.read <= p.size
    BY <1>2
<1>. QED BY <1>5, <1>6 DEF Apart

(* Any place but the one written to is one further behind the pointer.     *)
LEMMA NextAge ==
    ASSUME NEW b, b.size \in Nat, b.write \in 0..b.size,
           NEW p, p.size = b.size,
           p.write = IF b.write = b.size THEN 0 ELSE b.write + 1,
           NEW i \in 0..b.size, i # b.write
    PROVE  AgeAt(b, i) \in Nat /\ AgeAt(p, i) = AgeAt(b, i) + 1
<1>1. CASE b.write = b.size
  <2>1. AgeAt(b, i) = b.size - 1 - i /\ AgeAt(p, i) = b.size - i
    BY <1>1 DEF AgeAt
  <2>. QED BY <2>1, <1>1
<1>2. CASE b.write # b.size /\ i < b.write
  <2>1. AgeAt(b, i) = b.write - 1 - i /\ AgeAt(p, i) = b.write - i
    BY <1>2 DEF AgeAt
  <2>. QED BY <2>1, <1>2
<1>3. CASE b.write # b.size /\ i > b.write
  <2>1. AgeAt(b, i) = b.write - i + b.size /\ AgeAt(p, i) = b.write + 1 - i + b.size
    BY <1>3 DEF AgeAt
  <2>. QED BY <2>1, <1>3
<1>. QED BY <1>1, <1>2, <1>3

(* A sample through the loop: what was in the cell written to had gone all *)
(* the way round, and every other sample is one older.                     *)
LEMMA FedOK ==
    ASSUME NEW b, NEW d \in Nat, BufferOK(b, d), b.live
    PROVE  BufferOK(Fed(b), d) /\ Fed(b).live /\ Fed(b).size = b.size
<1> DEFINE cells == [i \in 0..b.size |-> IF i = b.write THEN 0 ELSE Older(b.cells[i])]
           w == Advanced(b, b.write)
           r == Advanced(b, b.read)
           p == WithAll(b, cells, w, r)
<1>1. Fed(b) = p
    BY DEF Fed, Written, Indices, WithAll
<1>2. /\ b \in Buffer /\ b.size \in Nat /\ b.write \in Nat /\ b.read \in Int
      /\ b.cells \in [0..b.size -> Content]
      /\ b.live \in BOOLEAN /\ b.write <= b.size /\ b.size > 0
    BY DEF BufferOK, Buffer
<1>3. /\ cells \in [0..b.size -> Content]
      /\ \A i \in 0..b.size : cells[i] = IF i = b.write THEN 0 ELSE Older(b.cells[i])
    BY <1>2 DEF Content, Older
<1> HIDE DEF cells
<1>4. /\ w = IF b.write = b.size THEN 0 ELSE b.write + 1
      /\ r = IF b.read + 1 > b.size THEN 0 ELSE b.read + 1
      /\ w \in Nat /\ w <= b.size /\ r \in Int
    BY <1>2 DEF Advanced
<1> HIDE DEF w, r
<1>5. p = [live |-> b.live, size |-> b.size, write |-> w, read |-> r, cells |-> cells]
  <2>1. b \in Buffer
    BY <1>2
  <2>. QED BY <2>1, WithFields
<1> HIDE DEF p
<1>6. /\ p.live /\ p.size = b.size /\ p.cells = cells /\ p.write = w /\ p.read = r
      /\ p \in Buffer
  <2>1. cells \in UNION { [0..n -> Content] : n \in Nat }
    BY <1>2, <1>3
  <2>. QED BY <1>2, <1>4, <1>5, <2>1 DEF Buffer
<1>7. ASSUME d <= b.size PROVE p.read = Behind(p, d)
  <2>1. b.read = Behind(b, d) /\ b.write \in 0..b.size
    BY <1>2, <1>7 DEF BufferOK
  <2>. QED BY <1>2, <1>4, <1>6, <1>7, <2>1, NextBehind
<1>8. Apart(p, d)
  <2>1. Apart(b, d) /\ b.write \in 0..b.size
    BY <1>2 DEF BufferOK
  <2>. QED BY <1>2, <1>4, <1>6, <2>1, NextApart
<1>9. ASSUME NEW i \in 0..b.size
      PROVE  \/ cells[i] \in {AgeAt(p, i), Silence}
             \/ i = b.size /\ cells[i] = Foreign
  <2>1. AgeAt(p, i) = IF i < w THEN w - 1 - i ELSE w - i + b.size
    BY <1>6 DEF AgeAt
  <2>2. CASE i = b.write
    BY <1>2, <1>3, <1>4, <2>1, <2>2
  <2>3. CASE i # b.write /\ b.cells[i] = AgeAt(b, i)
    <3>1. AgeAt(b, i) \in Nat /\ AgeAt(p, i) = AgeAt(b, i) + 1
      <4>1. b.write \in 0..b.size /\ i # b.write
        BY <1>2, <2>3
      <4>. QED BY <1>2, <1>4, <1>6, <4>1, NextAge
    <3>. QED BY <1>3, <2>3, <3>1 DEF Older
  <2>4. CASE i # b.write /\ b.cells[i] # AgeAt(b, i)
    <3>1. b.cells[i] = Silence \/ (i = b.size /\ b.cells[i] = Foreign)
        BY <2>4 DEF BufferOK
    <3>. QED BY <1>3, <2>4, <3>1, ContentAssumption DEF Older
  <2>. QED BY <2>2, <2>3, <2>4
<1>10. BufferOK(p, d)
    BY <1>2, <1>3, <1>4, <1>6, <1>7, <1>9, <1>8 DEF BufferOK
<1>. QED BY <1>1, <1>6, <1>10 DEF p

(* Pointers apart by whole turns leave nothing over.                       *)
LEMMA WholeTurns ==
    ASSUME NEW b, NEW d \in Nat, BufferOK(b, d), b.live
    PROVE  /\ (b.write - b.read - d) % (b.size + 1) = 0
           /\ d <= b.size => b.read \in Indices(b)
<1>1. b.size \in Nat /\ b.write \in 0..b.size /\ b.read \in Int
    BY DEF BufferOK, Buffer
<1>2. PICK turns \in Int : b.write - b.read - d = turns * (b.size + 1)
    BY DEF BufferOK, Apart
<1>3. ASSUME NEW x, NEW round \in Nat \ {0}, x = turns * round
      PROVE  x % round = 0
    BY <1>3
<1>4. b.size + 1 \in Nat \ {0}
    BY <1>1
<1>5. (b.write - b.read - d) % (b.size + 1) = 0
    BY <1>2, <1>3, <1>4
<1>6. d <= b.size => b.read \in Indices(b)
    BY <1>1 DEF BufferOK, Behind, Indices
<1>. QED BY <1>5, <1>6

(* What comes out of a buffer in order, without interpolation.             *)
LEMMA HeardFromBuffer ==
    ASSUME NEW b, NEW d \in Nat, BufferOK(b, d), b.live, d <= b.size
    PROVE  \/ Heard(b) \in {d, Silence}
           \/ Heard(b) = Foreign /\ b.read = b.size
<1> DEFINE cells == [i \in 0..b.size |-> IF i = b.write THEN 0 ELSE Older(b.cells[i])]
<1>1. /\ b \in Buffer /\ b.size \in Nat /\ b.write \in Nat /\ b.read = Behind(b, d)
      /\ b.write \in 0..b.size
    BY DEF BufferOK, Buffer
<1>2. b.read \in 0..b.size
    BY <1>1 DEF Behind
<1>3. Written(b) = [b EXCEPT !.cells = cells]
    BY DEF Written, Indices
<1>4. \A i \in 0..b.size : cells[i] = IF i = b.write THEN 0 ELSE Older(b.cells[i])
    OBVIOUS
<1> HIDE DEF cells
<1>5. Heard(b) = cells[b.read]
    BY <1>1, <1>2, <1>3 DEF Heard, At, Indices, Buffer
<1>6. CASE b.read = b.write
    BY <1>1, <1>2, <1>4, <1>5, <1>6 DEF Behind
<1>7. CASE b.read # b.write
  <2>1. AgeAt(b, b.read) + 1 = d /\ AgeAt(b, b.read) \in Nat
      BY <1>1, <1>2, <1>7 DEF AgeAt, Behind
  <2>2. Heard(b) = Older(b.cells[b.read])
      BY <1>2, <1>4, <1>5, <1>7
  <2>3. \/ b.cells[b.read] \in {AgeAt(b, b.read), Silence}
        \/ b.read = b.size /\ b.cells[b.read] = Foreign
      BY <1>2 DEF BufferOK
  <2>. QED BY <2>1, <2>2, <2>3, ContentAssumption DEF Older
<1>. QED BY <1>6, <1>7

(* Where the loops read from a buffer in order.                            *)
LEMMA TapsFromBuffer ==
    ASSUME NEW b, NEW d \in Nat, NEW l \in {"none", "linear", "cubic"},
           BufferOK(b, d), b.live, d <= b.size,
           NEW i \in DOMAIN Taps(b, l)
    PROVE  Taps(b, l)[i] \in 0..b.size
<1>1. /\ b.size \in Nat /\ b.size > 0 /\ b.write \in 0..b.size /\ b.read = Behind(b, d)
    BY DEF BufferOK, Buffer
<1>2. b.read \in 0..b.size
    BY <1>1 DEF Behind
<1> DEFINE r == Advanced(b, b.read)
<1>3. r \in 0..b.size
    BY <1>1, <1>2 DEF Advanced
<1> HIDE DEF r
<1>4. /\ Wrap(b, r + 1) \in 0..b.size /\ Wrap(b, r) \in 0..b.size
      /\ Wrap(b, r - 1) \in 0..b.size /\ Wrap(b, r - 2) \in 0..b.size
    BY <1>1, <1>3 DEF Wrap
<1>5. CASE l = "none"
  <2>1. Taps(b, l) = <<b.read>> BY <1>5 DEF Taps
  <2>. QED BY <1>2, <2>1
<1>6. CASE l = "linear"
  <2>1. Taps(b, l) = <<Wrap(b, r + 1), r>> BY <1>6 DEF Taps, r
  <2>. QED BY <1>3, <1>4, <2>1
<1>7. CASE l = "cubic"
  <2>1. Taps(b, l) = <<Wrap(b, r + 1), Wrap(b, r), Wrap(b, r - 1), Wrap(b, r - 2)>>
      BY <1>7 DEF Taps, r
  <2>. QED BY <1>4, <2>1
<1>. QED BY <1>5, <1>6, <1>7
----------------------------------------------------------------------------
(* The buffers of all channels, and the parameters                         *)

(* A conversion between times and samples gives a number there can be.     *)
LEMMA ConversionsNat ==
    ASSUME NEW rate \in Rates, NEW t \in Nat
    PROVE  SamplesOf(t, rate) \in Nat /\ TimeOf(t, rate) \in Nat
<1>1. rate \in Nat /\ rate > 0 /\ PerMs \in Nat /\ PerMs > 0
    BY RatesAssumption
<1>2. \A a \in Nat, b \in Nat : b > 0 => a \div b \in Nat
    OBVIOUS
<1>3. \A a, b \in Nat : a * b \in Nat
    OBVIOUS
<1>. QED BY <1>1, <1>2, <1>3 DEF SamplesOf, TimeOf

Ready(max, bs) ==
    max.samples > 0 => \A c \in DOMAIN bs : bs[c].live /\ bs[c].size = max.samples

(* reset() keeps all buffers in order, for the new delay.                  *)
LEMMA ResetOK ==
    ASSUME NEW bs, NEW d0, NEW d \in Nat, NEW max,
           \A c \in DOMAIN bs : BufferOK(bs[c], d0), Ready(max, bs)
    PROVE  /\ DOMAIN Reset(bs, d) = DOMAIN bs
           /\ \A c \in DOMAIN bs : BufferOK(Reset(bs, d)[c], d)
           /\ Ready(max, Reset(bs, d))
<1>1. DOMAIN Reset(bs, d) = DOMAIN bs
    BY DEF Reset
<1>2. \A c \in DOMAIN bs : Reset(bs, d)[c] = Positioned(bs[c], d)
    BY DEF Reset
<1>3. \A c \in DOMAIN bs : /\ BufferOK(Reset(bs, d)[c], d)
                           /\ Reset(bs, d)[c].live = bs[c].live
                           /\ Reset(bs, d)[c].size = bs[c].size
    BY <1>2, PositionedOK
<1>. QED BY <1>1, <1>3 DEF Ready

(* init() leaves all buffers in order and of the length of the maximum, or *)
(* has nothing to do.                                                      *)
LEMMA InitedOK ==
    ASSUME NEW max \in Length, NEW n \in Nat, NEW rate \in Rates, NEW bs,
           delay \in Length,
           \A c \in DOMAIN bs : BufferOK(bs[c], delay.samples),
           n = 0 => Ready(max, bs)
    PROVE  LET i == Inited(max, n, rate, bs)
           IN  /\ i.max \in Length
               /\ DOMAIN i.buffers = DOMAIN bs
               /\ \A c \in DOMAIN bs : BufferOK(i.buffers[c], delay.samples)
               /\ Ready(i.max, i.buffers)
<1>1. CASE n = 0
    BY <1>1 DEF Inited
<1>2. CASE n # 0
  <2> DEFINE i == Inited(max, n, rate, bs)
             resized == [c \in DOMAIN bs |-> Resized(bs[c], n)]
             newMax == [time |-> TimeOf(n, rate), samples |-> n]
  <2>1. i = [max |-> newMax, buffers |-> Reset(resized, delay.samples)]
    BY <1>2 DEF Inited
  <2>2. newMax \in Length /\ newMax.samples = n
    BY ConversionsNat DEF Length
  <2>3. delay.samples \in Nat
    BY DEF Length
  <2>4. /\ DOMAIN Reset(resized, delay.samples) = DOMAIN bs
        /\ \A c \in DOMAIN bs :
             Reset(resized, delay.samples)[c] = Positioned(Resized(bs[c], n), delay.samples)
    BY DEF Reset
  <2> HIDE DEF resized, newMax
  <2>5. \A c \in DOMAIN bs : /\ BufferOK(Reset(resized, delay.samples)[c], delay.samples)
                             /\ Reset(resized, delay.samples)[c].live
                             /\ Reset(resized, delay.samples)[c].size = n
    BY <1>2, <2>3, <2>4, ResizedOK
  <2>6. i.max = newMax /\ i.buffers = Reset(resized, delay.samples)
    BY <2>1
  <2> HIDE DEF i
  <2>7. Ready(i.max, i.buffers)
    BY <2>2, <2>4, <2>5, <2>6 DEF Ready
  <2>8. /\ i.max \in Length
        /\ DOMAIN i.buffers = DOMAIN bs
        /\ \A c \in DOMAIN bs : BufferOK(i.buffers[c], delay.samples)
    BY <2>2, <2>4, <2>5, <2>6
  <2>. QED BY <2>7, <2>8 DEF i
<1>. QED BY <1>1, <1>2

(* setDelay() makes a delay there can be.                                  *)
LEMMA DelaySetOK ==
    ASSUME NEW t \in Nat, NEW max \in Length, NEW rate \in Rates
    PROVE  DelaySet(t, max, rate) \in Length /\ DelaySet(t, max, rate).samples \in Nat
<1>1. ClipTo(t, max.time) \in Nat
    BY DEF ClipTo, Length
<1>. QED BY <1>1, ConversionsNat DEF DelaySet, Length

(* Buffers in order for the delay there is, and of the maximum's length:   *)
(* the invariant, put together from its parts.                             *)
LEMMA IInvFromParts ==
    ASSUME LengthsOK, DOMAIN mBuffers = 0..(maxNumChannels - 1),
           \A c \in DOMAIN mBuffers : BufferOK(mBuffers[c], delay.samples),
           Ready(delayMax, mBuffers)
    PROVE  IInv
BY DEF IInv, Ready, BuffersReady
----------------------------------------------------------------------------
(* The invariant                                                           *)

(* The delay the constructor leaves satisfies the invariant.               *)
LEMMA InitOK == Init => IInv
<1>. SUFFICES ASSUME NEW rate \in Rates, NEW n \in ChannelCounts,
                     NEW m \in SampleCounts, NEW d \in SampleCounts,
                     m > 0, d <= m,
                     srMill = rate, maxNumChannels = n,
                     delayMax = [time |-> TimeOf(m, rate), samples |-> m],
                     delay = [time |-> TimeOf(d, rate), samples |-> d],
                     loop = "cubic",
                     mBuffers = [c \in 0..(n - 1) |-> Positioned(Resized(NewBuffer, m), d)]
              PROVE  IInv
    BY DEF Init
<1>1. m \in Nat \ {0} /\ d \in Nat
    BY InputsAssumption
<1>2. delay \in Length /\ delayMax \in Length /\ delay.samples = d /\ delayMax.samples = m
    BY <1>1, ConversionsNat DEF Length
<1>3. LengthsOK
    BY <1>2 DEF LengthsOK
<1>4. DOMAIN mBuffers = 0..(maxNumChannels - 1)
    OBVIOUS
<1>5. \A c \in DOMAIN mBuffers : mBuffers[c] = Positioned(Resized(NewBuffer, m), d)
    OBVIOUS
<1>6. \A c \in DOMAIN mBuffers :
        BufferOK(mBuffers[c], d) /\ mBuffers[c].live /\ mBuffers[c].size = m
    BY <1>1, <1>5, ResizedOK
<1>7. Ready(delayMax, mBuffers)
    BY <1>2, <1>6 DEF Ready
<1>. QED BY <1>2, <1>3, <1>4, <1>6, <1>7, IInvFromParts

(* A change of the number of channels: what is new has no memory until     *)
(* init() has run, and what is not may have lost it.                       *)
LEMMA MaxNumChannelsKeeps ==
    ASSUME IInv, NEW n \in ChannelCounts, setMaxNumChannels(n)
    PROVE  IInv'
<1>1. PICK moved \in BOOLEAN :
        LET resized == [c \in 0..(n - 1) |->
                            IF c \notin DOMAIN mBuffers THEN NewBuffer
                            ELSE [mBuffers[c] EXCEPT !.live = @ /\ ~moved]]
            inited  == Inited(delayMax, delayMax.samples, srMill, resized)
        IN  delayMax' = inited.max /\ mBuffers' = inited.buffers
    BY InputsAssumption DEF setMaxNumChannels
<1> DEFINE resized == [c \in 0..(n - 1) |->
                            IF c \notin DOMAIN mBuffers THEN NewBuffer
                            ELSE [mBuffers[c] EXCEPT !.live = @ /\ ~moved]]
           inited  == Inited(delayMax, delayMax.samples, srMill, resized)
<1>2. /\ delay \in Length /\ delayMax \in Length /\ srMill \in Rates
      /\ delay.samples \in Nat /\ delayMax.samples \in Nat
    BY DEF IInv, LengthsOK, Length
<1>3. ASSUME NEW c \in DOMAIN resized PROVE BufferOK(resized[c], delay.samples)
  <2>1. CASE c \notin DOMAIN mBuffers
    BY <1>2, <2>1, NewBufferOK
  <2>2. CASE c \in DOMAIN mBuffers
    <3> DEFINE b == mBuffers[c]
               p == [b EXCEPT !.live = b.live /\ ~moved]
    <3>1. BufferOK(b, delay.samples)
        BY <2>2 DEF IInv
    <3>2. b \in Buffer
        BY <3>1 DEF BufferOK
    <3>3. resized[c] = p
        BY <2>2
    <3> HIDE DEF b
    <3>4. (b.live /\ ~moved) \in BOOLEAN
        OBVIOUS
    <3>5. /\ p \in Buffer /\ p.live = (b.live /\ ~moved)
          /\ p.size = b.size /\ p.write = b.write /\ p.read = b.read /\ p.cells = b.cells
        BY <3>2, <3>4 DEF Buffer
    <3> HIDE DEF p
    <3>6. /\ Behind(p, delay.samples) = Behind(b, delay.samples)
          /\ \A i \in 0..b.size : AgeAt(p, i) = AgeAt(b, i)
          /\ Apart(b, delay.samples) => Apart(p, delay.samples)
        BY <3>5 DEF Behind, AgeAt, Apart
    <3>7. BufferOK(p, delay.samples)
        BY <3>1, <3>5, <3>6 DEF BufferOK
    <3>. QED BY <3>3, <3>7
  <2>. QED BY <2>1, <2>2
<1>4. delayMax.samples = 0 => Ready(delayMax, resized)
    BY DEF Ready
<1>5. DOMAIN resized = 0..(n - 1)
    OBVIOUS
<1> HIDE DEF resized
<1>6. /\ inited.max \in Length
      /\ DOMAIN inited.buffers = 0..(n - 1)
      /\ \A c \in 0..(n - 1) : BufferOK(inited.buffers[c], delay.samples)
      /\ Ready(inited.max, inited.buffers)
  <2>1. \A c \in DOMAIN resized : BufferOK(resized[c], delay.samples)
    BY <1>3
  <2>2. /\ inited.max \in Length
        /\ DOMAIN inited.buffers = DOMAIN resized
        /\ \A c \in DOMAIN resized : BufferOK(inited.buffers[c], delay.samples)
        /\ Ready(inited.max, inited.buffers)
    BY <1>2, <1>4, <2>1, InitedOK
  <2>. QED BY <2>2, <1>5
<1>7. delayMax' = inited.max /\ mBuffers' = inited.buffers
    BY <1>1 DEF resized
<1> HIDE DEF inited
<1>8. /\ maxNumChannels' = n
      /\ srMill' = srMill /\ delay' = delay /\ loop' = loop
    BY DEF setMaxNumChannels
<1>9. LengthsOK'
    BY <1>2, <1>6, <1>7, <1>8 DEF LengthsOK, IInv
<1>10. Ready(delayMax', mBuffers')
    BY <1>6, <1>7
<1>. QED BY <1>6, <1>7, <1>8, <1>9, <1>10 DEF IInv, Ready, BuffersReady

(* A change of the rate, and one of the maximum from either side.          *)
LEMMA SrKeeps ==
    ASSUME IInv, NEW rate \in Rates, setSr(rate)
    PROVE  IInv'
<1> DEFINE n == SamplesOf(delayMax.time, rate)
           inited == Inited(delayMax, n, rate, mBuffers)
           set == DelaySet(delay.time, inited.max, rate)
<1>1. /\ delay \in Length /\ delayMax \in Length
      /\ delay.time \in Nat /\ delayMax.time \in Nat /\ delay.samples \in Nat
      /\ \A c \in DOMAIN mBuffers : BufferOK(mBuffers[c], delay.samples)
      /\ Ready(delayMax, mBuffers)
    BY DEF IInv, LengthsOK, Length, Ready, BuffersReady
<1>2. n \in Nat
    BY <1>1, ConversionsNat
<1> HIDE DEF n
<1>3. /\ inited.max \in Length
      /\ DOMAIN inited.buffers = DOMAIN mBuffers
      /\ \A c \in DOMAIN mBuffers : BufferOK(inited.buffers[c], delay.samples)
      /\ Ready(inited.max, inited.buffers)
  <2>1. n = 0 => Ready(delayMax, mBuffers)
    BY <1>1
  <2>. QED BY <1>1, <1>2, <2>1, InitedOK
<1>4. /\ srMill' = rate /\ delayMax' = inited.max /\ delay' = set
      /\ mBuffers' = Reset(inited.buffers, set.samples)
      /\ maxNumChannels' = maxNumChannels /\ loop' = loop
    BY DEF setSr, n
<1> HIDE DEF inited
<1>5. set \in Length /\ set.samples \in Nat
    BY <1>1, <1>3, DelaySetOK
<1> HIDE DEF set
<1>6. /\ DOMAIN mBuffers' = DOMAIN mBuffers
      /\ \A c \in DOMAIN mBuffers : BufferOK(mBuffers'[c], delay'.samples)
      /\ Ready(delayMax', mBuffers')
    BY <1>3, <1>4, <1>5, ResetOK
<1>7. LengthsOK'
    BY <1>3, <1>4, <1>5 DEF LengthsOK, IInv
<1>. QED BY <1>4, <1>6, <1>7 DEF IInv, Ready, BuffersReady

(* What all that call init() with a maximum of their own have in common.   *)
LEMMA NewMaxKeeps ==
    ASSUME IInv, NEW max \in Length, NEW n \in Nat, n = max.samples,
           delayMax' = Inited(max, n, srMill, mBuffers).max,
           mBuffers' = Inited(max, n, srMill, mBuffers).buffers,
           UNCHANGED <<srMill, maxNumChannels, delay, loop>>
    PROVE  IInv'
<1> DEFINE inited == Inited(max, n, srMill, mBuffers)
<1>1. /\ delay \in Length /\ srMill \in Rates
      /\ \A c \in DOMAIN mBuffers : BufferOK(mBuffers[c], delay.samples)
    BY DEF IInv, LengthsOK
<1>2. n = 0 => Ready(max, mBuffers)
    BY DEF Ready
<1>3. /\ inited.max \in Length
      /\ DOMAIN inited.buffers = DOMAIN mBuffers
      /\ \A c \in DOMAIN mBuffers : BufferOK(inited.buffers[c], delay.samples)
      /\ Ready(inited.max, inited.buffers)
    BY <1>1, <1>2, InitedOK
<1> HIDE DEF inited
<1>4. delayMax' = inited.max /\ mBuffers' = inited.buffers
    BY DEF inited
<1>5. LengthsOK'
    BY <1>3, <1>4 DEF LengthsOK, IInv
<1>. QED BY <1>3, <1>4, <1>5 DEF IInv, Ready, BuffersReady

LEMMA DelayMaxKeeps ==
    ASSUME IInv, NEW t \in Nat, setDelayMax(t)
    PROVE  IInv'
<1> DEFINE n == SamplesOf(t, srMill)
           max == [time |-> t, samples |-> n]
<1>1. n \in Nat
    BY ConversionsNat DEF IInv, LengthsOK
<1>2. max \in Length /\ n = max.samples
    BY <1>1 DEF Length
<1>3. /\ delayMax' = Inited(max, n, srMill, mBuffers).max
      /\ mBuffers' = Inited(max, n, srMill, mBuffers).buffers
      /\ UNCHANGED <<srMill, maxNumChannels, delay, loop>>
    BY DEF setDelayMax
<1> HIDE DEF n, max
<1>. QED BY <1>1, <1>2, <1>3, NewMaxKeeps

LEMMA DelayMaxInSamplesKeeps ==
    ASSUME IInv, NEW n \in Nat, setDelayMaxInSamples(n)
    PROVE  IInv'
<1> DEFINE max == [time |-> TimeOf(n, srMill), samples |-> n]
<1>1. TimeOf(n, srMill) \in Nat
    BY ConversionsNat DEF IInv, LengthsOK
<1>2. max \in Length /\ n = max.samples
    BY <1>1 DEF Length
<1>3. /\ delayMax' = Inited(max, n, srMill, mBuffers).max
      /\ mBuffers' = Inited(max, n, srMill, mBuffers).buffers
      /\ UNCHANGED <<srMill, maxNumChannels, delay, loop>>
    BY DEF setDelayMaxInSamples
<1> HIDE DEF max
<1>. QED BY <1>2, <1>3, NewMaxKeeps

(* A change of the delay, from either side.                                *)
LEMMA NewDelayKeeps ==
    ASSUME IInv, delay' \in Length, mBuffers' = Reset(mBuffers, delay'.samples),
           UNCHANGED <<srMill, maxNumChannels, delayMax, loop>>
    PROVE  IInv'
<1>1. /\ delay'.samples \in Nat
      /\ \A c \in DOMAIN mBuffers : BufferOK(mBuffers[c], delay.samples)
      /\ Ready(delayMax, mBuffers)
    BY DEF IInv, Length, Ready, BuffersReady
<1>2. /\ DOMAIN mBuffers' = DOMAIN mBuffers
      /\ \A c \in DOMAIN mBuffers : BufferOK(mBuffers'[c], delay'.samples)
      /\ Ready(delayMax, mBuffers')
    BY <1>1, ResetOK
<1>3. LengthsOK'
    BY DEF LengthsOK, IInv
<1>. QED BY <1>2, <1>3 DEF IInv, Ready, BuffersReady

(* Clear, a sample through a channel, and a write past a buffer's end.     *)
LEMMA NewSamplesKeep ==
    ASSUME IInv, DOMAIN mBuffers' = DOMAIN mBuffers,
           \A c \in DOMAIN mBuffers : /\ BufferOK(mBuffers'[c], delay.samples)
                                      /\ mBuffers'[c].live = mBuffers[c].live
                                      /\ mBuffers'[c].size = mBuffers[c].size,
           UNCHANGED <<srMill, maxNumChannels, delay, delayMax, loop>>
    PROVE  IInv'
<1>1. LengthsOK'
    BY DEF LengthsOK, IInv
<1>2. BuffersReady'
    BY DEF IInv, BuffersReady
<1>. QED BY <1>1, <1>2 DEF IInv

LEMMA ClearKeeps == ASSUME IInv, Clear PROVE IInv'
<1>1. delay.samples \in Nat /\ \A c \in DOMAIN mBuffers : BufferOK(mBuffers[c], delay.samples)
    BY DEF IInv, LengthsOK, Length
<1>2. /\ DOMAIN mBuffers' = DOMAIN mBuffers
      /\ \A c \in DOMAIN mBuffers : mBuffers'[c] = Cleared(mBuffers[c])
      /\ UNCHANGED <<srMill, maxNumChannels, delay, delayMax, loop>>
    BY DEF Clear
<1>3. \A c \in DOMAIN mBuffers : /\ BufferOK(mBuffers'[c], delay.samples)
                                 /\ mBuffers'[c].live = mBuffers[c].live
                                 /\ mBuffers'[c].size = mBuffers[c].size
    BY <1>1, <1>2, ClearedOK
<1>. QED BY <1>2, <1>3, NewSamplesKeep

LEMMA ProcessKeeps ==
    ASSUME IInv, NEW c \in DOMAIN mBuffers, process(c)
    PROVE  IInv'
<1>1. delay.samples \in Nat /\ \A k \in DOMAIN mBuffers : BufferOK(mBuffers[k], delay.samples)
    BY DEF IInv, LengthsOK, Length
<1>2. /\ DOMAIN mBuffers' = DOMAIN mBuffers
      /\ \A k \in DOMAIN mBuffers : mBuffers'[k] = IF k = c THEN Fed(mBuffers[c]) ELSE mBuffers[k]
      /\ UNCHANGED <<srMill, maxNumChannels, delay, delayMax, loop>>
      /\ mBuffers[c].live
    BY DEF process, IInv
<1>3. BufferOK(Fed(mBuffers[c]), delay.samples) /\ Fed(mBuffers[c]).live
        /\ Fed(mBuffers[c]).size = mBuffers[c].size
    BY <1>1, <1>2, FedOK
<1>4. mBuffers[c].live \in BOOLEAN /\ Fed(mBuffers[c]).live \in BOOLEAN
    BY <1>1, <1>3 DEF BufferOK, Buffer
<1>5. Fed(mBuffers[c]).live = mBuffers[c].live
    BY <1>2, <1>3, <1>4
<1>6. \A k \in DOMAIN mBuffers : /\ BufferOK(mBuffers'[k], delay.samples)
                                 /\ mBuffers'[k].live = mBuffers[k].live
                                 /\ mBuffers'[k].size = mBuffers[k].size
    BY <1>1, <1>2, <1>3, <1>5
<1>. QED BY <1>2, <1>6, NewSamplesKeep

LEMMA ForeignWriteKeeps ==
    ASSUME IInv, NEW c \in DOMAIN mBuffers, ForeignWrite(c)
    PROVE  IInv'
<1> DEFINE b == mBuffers[c]
           p == [b EXCEPT !.cells[b.size] = Foreign]
<1>1. delay.samples \in Nat /\ \A k \in DOMAIN mBuffers : BufferOK(mBuffers[k], delay.samples)
    BY DEF IInv, LengthsOK, Length
<1>2. mBuffers' = [mBuffers EXCEPT ![c] = p]
    BY DEF ForeignWrite
<1>3. BufferOK(p, delay.samples) /\ p.live = b.live /\ p.size = b.size
    BY <1>1, ForeignWriteOK
<1> HIDE DEF p
<1>4. /\ DOMAIN mBuffers' = DOMAIN mBuffers
      /\ \A k \in DOMAIN mBuffers : mBuffers'[k] = IF k = c THEN p ELSE mBuffers[k]
    BY <1>2 DEF IInv
<1>5. UNCHANGED <<srMill, maxNumChannels, delay, delayMax, loop>>
    BY DEF ForeignWrite
<1>6. \A k \in DOMAIN mBuffers : /\ BufferOK(mBuffers'[k], delay.samples)
                                 /\ mBuffers'[k].live = mBuffers[k].live
                                 /\ mBuffers'[k].size = mBuffers[k].size
    BY <1>1, <1>3, <1>4
<1>. QED BY <1>4, <1>5, <1>6, NewSamplesKeep
----------------------------------------------------------------------------
(* Every operation of a delay keeps its buffers in order.                  *)
THEOREM Invariance == Spec => []IInv
<1>1. ASSUME IInv, [Next]_vars PROVE IInv'
  <2>1. ASSUME NEW n \in ChannelCounts, setMaxNumChannels(n) PROVE IInv'
    BY <1>1, <2>1, MaxNumChannelsKeeps
  <2>2. ASSUME NEW rate \in Rates, setSr(rate) PROVE IInv'
    BY <1>1, <2>2, SrKeeps
  <2>3. ASSUME NEW t \in Times, setDelay(t) PROVE IInv'
    <3>1. delay' \in Length
      <4>1. t \in Nat /\ delayMax \in Length /\ srMill \in Rates
        BY <1>1, InputsAssumption DEF IInv, LengthsOK
      <4>. QED BY <2>3, <4>1, DelaySetOK DEF setDelay
    <3>. QED BY <1>1, <2>3, <3>1, NewDelayKeeps DEF setDelay
  <2>4. ASSUME NEW t \in Times, setDelayMax(t) PROVE IInv'
    BY <1>1, <2>4, InputsAssumption, DelayMaxKeeps
  <2>5. ASSUME NEW n \in SampleCounts, setDelayInSamples(n) PROVE IInv'
    <3> DEFINE d == ClipTo(n, delayMax.samples)
    <3>1. d \in Nat /\ srMill \in Rates
        BY <1>1, InputsAssumption DEF IInv, LengthsOK, Length, ClipTo
    <3>2. /\ delay' = [samples |-> d, time |-> TimeOf(d, srMill)]
          /\ mBuffers' = Reset(mBuffers, d)
          /\ UNCHANGED <<srMill, maxNumChannels, delayMax, loop>>
        BY <2>5 DEF setDelayInSamples
    <3> HIDE DEF d
    <3>3. delay' \in Length /\ delay'.samples = d
        BY <3>1, <3>2, ConversionsNat DEF Length
    <3>. QED BY <1>1, <3>2, <3>3, NewDelayKeeps
  <2>6. ASSUME NEW n \in SampleCounts, setDelayMaxInSamples(n) PROVE IInv'
    BY <1>1, <2>6, InputsAssumption, DelayMaxInSamplesKeeps
  <2>7. ASSUME NEW name \in {"none", "linear", "cubic"}, setInterpolation(name) PROVE IInv'
    BY <1>1, <2>7 DEF IInv, LengthsOK, BuffersReady, setInterpolation
  <2>8. ASSUME Clear PROVE IInv'
    BY <1>1, <2>8, ClearKeeps
  <2>9. ASSUME NEW c \in DOMAIN mBuffers, process(c) PROVE IInv'
    BY <1>1, <2>9, ProcessKeeps
  <2>10. ASSUME NEW c \in DOMAIN mBuffers, ForeignWrite(c) PROVE IInv'
    BY <1>1, <2>10, ForeignWriteKeeps
  <2>11. CASE UNCHANGED vars
    BY <1>1, <2>11 DEF IInv, LengthsOK, BuffersReady, vars
  <2>. QED BY <1>1, <2>1, <2>2, <2>3, <2>4, <2>5, <2>6, <2>7, <2>8, <2>9, <2>10, <2>11 DEF Next
<1>. QED BY <1>1, InitOK, PTL DEF Spec

(* TypeOK: among other things, the write pointer of every buffer never     *)
(* leaves the indices from its head to one past its end.                   *)
THEOREM DelayTypeOK == Spec => []TypeOK
<1>1. ASSUME IInv PROVE TypeOK
  <2>1. ASSUME NEW c \in DOMAIN mBuffers
        PROVE  LET b == mBuffers[c]
               IN  /\ b \in [live : BOOLEAN, size : Nat, write : Nat, read : Int,
                             cells : [Indices(b) -> Content]]
                   /\ b.write \in Indices(b)
    <3> DEFINE b == mBuffers[c]
    <3>1. BufferOK(b, delay.samples)
        BY <1>1 DEF IInv
    <3> HIDE DEF b
    <3>2. b.cells \in [Indices(b) -> Content]
        BY <3>1 DEF BufferOK, Buffer, Indices
    <3>3. b \in [live : BOOLEAN, size : Nat, write : Nat, read : Int,
                 cells : [Indices(b) -> Content]]
        BY <3>1, <3>2 DEF BufferOK, Buffer
    <3>4. b.write \in Indices(b)
        BY <3>1 DEF BufferOK, Indices
    <3>. QED BY <3>3, <3>4 DEF b
  <2>. QED BY <1>1, <2>1 DEF IInv, LengthsOK, TypeOK
<1>. QED BY <1>1, Invariance, PTL

(* BuffersReady: a channel with no memory of the right length is never met *)
(* while the maximum is not zero.                                          *)
THEOREM EveryChannelReady == Spec => []BuffersReady
<1>1. IInv => BuffersReady
    BY DEF IInv
<1>. QED BY <1>1, Invariance, PTL

(* PointersApart: the pointers stay the delay apart round the buffer, also *)
(* when the buffer is the shorter of the two.                              *)
THEOREM PointersStayApart == Spec => []PointersApart
<1>1. ASSUME IInv PROVE PointersApart
  <2>1. delay.samples \in Nat /\ \A c \in DOMAIN mBuffers : BufferOK(mBuffers[c], delay.samples)
    BY <1>1 DEF IInv, LengthsOK, Length
  <2>. QED BY <2>1, WholeTurns DEF PointersApart
<1>. QED BY <1>1, Invariance, PTL

(* HeardIsDelayed: the delay without interpolation is exact to the sample. *)
THEOREM DelayIsExact == Spec => []HeardIsDelayed
<1>1. ASSUME IInv PROVE HeardIsDelayed
  <2>1. delay.samples \in Nat /\ \A c \in DOMAIN mBuffers : BufferOK(mBuffers[c], delay.samples)
    BY <1>1 DEF IInv, LengthsOK, Length
  <2>. QED BY <2>1, HeardFromBuffer DEF HeardIsDelayed
<1>. QED BY <1>1, Invariance, PTL

(* TapsInBuffer: no loop reads outside the buffer, as long as the delay is *)
(* one the buffer has room for.                                            *)
THEOREM LoopsReadInBuffer == Spec => []TapsInBuffer
<1>1. ASSUME IInv PROVE TapsInBuffer
  <2>1. /\ delay.samples \in Nat /\ loop \in {"none", "linear", "cubic"}
        /\ \A c \in DOMAIN mBuffers : BufferOK(mBuffers[c], delay.samples)
    BY <1>1 DEF IInv, LengthsOK, Length
  <2>. QED BY <2>1, TapsFromBuffer DEF TapsInBuffer, Indices
<1>. QED BY <1>1, Invariance, PTL
=============================================================================
