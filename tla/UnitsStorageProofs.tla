------------------------- MODULE UnitsStorageProofs -------------------------
(***************************************************************************)
(* What units keep sounds and gains in is as large as they think it is,    *)
(* for all values of the constants: TTBuffer, TTMatrixMixer,               *)
(* TTSoundfilePlayer and the signals of jcom.gain~.                        *)
(*                                                                         *)
(* Each unit has an invariant of its own variables, of which it is shown   *)
(* that its own steps preserve it; a step of the composition is a step of  *)
(* each unit or leaves that unit alone (UnitSteps).                        *)
(***************************************************************************)
EXTENDS Units, Sequences, FiniteSetTheorems, TLAPS

LEMMA UnitSteps ==
    ASSUME [Next]_vars
    PROVE  /\ [A!Next]_adsrVars /\ [R!Next]_ramp /\ [L!Next]_limiterVars /\ [B!Next]_bufferVars
           /\ [M!Next]_mixerVars /\ [P!Next]_playerVars /\ [G!Next]_gainVars
<1>1. CASE UNCHANGED vars
      BY <1>1 DEF vars
<1>2. CASE Next
      BY <1>2 DEF Next, ButAdsr, ButRamp, ButLimiter, ButBuffer, ButMixer, ButPlayer, ButGain
<1>. QED BY <1>1, <1>2

----------------------------------------------------------------------------
(* TTBuffer                                                                *)

(* ContentsFit does not say when there are contents, but init() allocates  *)
(* whenever both sizes are there, and what is freed depends on it.         *)
BufferInv ==
    /\ bufferChannels \in Nat /\ mLengthInSamples \in Nat
    /\ emptied \in BOOLEAN /\ misused \in BOOLEAN
    /\ mContents = NULL \/ mContents \in [channels : Nat, length : Nat, live : BOOLEAN]
    /\ ~emptied => /\ ~misused
                   /\ mContents = IF bufferChannels > 0 /\ mLengthInSamples > 0
                                  THEN B!Allocation(bufferChannels, mLengthInSamples) ELSE NULL

LEMMA ReallocatedKeeps ==
    ASSUME BufferInv, NEW channels \in Nat, NEW length \in Nat, B!Reallocated(channels, length)
    PROVE  BufferInv'
<1>1. emptied' \in BOOLEAN /\ misused' \in BOOLEAN
      BY Zenon DEF B!Reallocated
<1>2. ASSUME ~emptied'
      PROVE  /\ ~misused'
             /\ mContents' = IF channels > 0 /\ length > 0 THEN B!Allocation(channels, length) ELSE NULL
  <2>1. /\ ~emptied
        /\ mContents = NULL \/ (channels # 0 /\ length # 0)
        BY <1>2, Zenon DEF B!Reallocated
  <2>2. B!FreedRightly
    <3>1. mContents = NULL \/ mContents = B!Allocation(bufferChannels, mLengthInSamples)
          BY <2>1 DEF BufferInv
    <3>2. B!Allocation(bufferChannels, mLengthInSamples).live = TRUE
          /\ B!Allocation(bufferChannels, mLengthInSamples).channels = bufferChannels
          BY DEF B!Allocation
    <3>. QED BY <3>1, <3>2 DEF B!FreedRightly
  <2>3. ~misused'
        BY <2>1, <2>2, Zenon DEF B!Reallocated, BufferInv
  <2>4. mContents' = IF channels > 0 /\ length > 0 THEN B!Allocation(channels, length)
                     ELSE IF mContents = NULL THEN NULL ELSE [mContents EXCEPT !.live = FALSE]
        BY Zenon DEF B!Reallocated
  <2>5. mContents # NULL => channels > 0 /\ length > 0
        BY <2>1
  <2>. QED BY <2>3, <2>4, <2>5
<1>3. bufferChannels' = channels /\ mLengthInSamples' = length
      BY DEF B!Reallocated
<1>4. mContents' = NULL \/ mContents' \in [channels : Nat, length : Nat, live : BOOLEAN]
  <2>1. B!Allocation(channels, length) \in [channels : Nat, length : Nat, live : BOOLEAN]
        BY DEF B!Allocation
  <2>2. mContents # NULL =>
          [mContents EXCEPT !.live = FALSE] \in [channels : Nat, length : Nat, live : BOOLEAN]
        BY DEF BufferInv
  <2>. QED BY <2>1, <2>2, Zenon DEF B!Reallocated
<1>. QED BY <1>1, <1>2, <1>3, <1>4 DEF BufferInv

(* What reads and writes the contents finds all of them.                   *)
LEMMA AccessKeeps ==
    ASSUME BufferInv, B!Access
    PROVE  BufferInv'
<1>1. misused' \in BOOLEAN
      BY Zenon DEF B!Access
<1>2. ASSUME ~emptied
      PROVE  ~misused'
  <2>1. mContents = B!Allocation(bufferChannels, mLengthInSamples)
        BY <1>2 DEF B!Access, BufferInv
  <2>2. /\ mContents.live = TRUE
        /\ ~(mContents.channels < bufferChannels) /\ ~(mContents.length < mLengthInSamples)
        BY <2>1 DEF B!Allocation, BufferInv
  <2>. QED BY <1>2, <2>2, Zenon DEF B!Access, BufferInv
<1>3. UNCHANGED <<bufferChannels, mLengthInSamples, mContents, emptied>>
      BY DEF B!Access
<1>. QED BY <1>1, <1>2, <1>3 DEF BufferInv, B!Allocation

LEMMA BufferInit == B!Init => BufferInv
<1> SUFFICES ASSUME B!Init
             PROVE  BufferInv
    OBVIOUS
<1>1. bufferChannels = 0 /\ mLengthInSamples = 0 /\ mContents = NULL
      BY DEF B!Init
<1>2. emptied = FALSE /\ misused = FALSE
      BY DEF B!Init
<1>3. /\ bufferChannels \in Nat /\ mLengthInSamples \in Nat
      /\ mContents = IF bufferChannels > 0 /\ mLengthInSamples > 0
                     THEN B!Allocation(bufferChannels, mLengthInSamples) ELSE NULL
      BY <1>1
<1>4. emptied \in BOOLEAN /\ misused \in BOOLEAN /\ ~misused
      BY <1>2, Zenon
<1>. QED BY <1>1, <1>3, <1>4, Zenon DEF BufferInv

LEMMA BufferStep ==
    ASSUME BufferInv, [B!Next]_bufferVars
    PROVE  BufferInv'
<1>1. BufferChannels \subseteq Nat /\ BufferLengths \subseteq Nat
      BY UnitsAssumption DEF B!ConstantsOK
<1>2. ASSUME NEW n \in BufferChannels, B!setNumChannels(n)
      PROVE  BufferInv'
      BY <1>1, <1>2, ReallocatedKeeps DEF B!setNumChannels, BufferInv
<1>3. ASSUME NEW n \in BufferLengths, B!setLength(n) \/ B!setLengthInSamples(n)
      PROVE  BufferInv'
      BY <1>1, <1>3, ReallocatedKeeps DEF B!setLength, B!setLengthInSamples, BufferInv
<1>4. CASE UNCHANGED bufferVars
      BY <1>4 DEF bufferVars, BufferInv, B!Allocation
<1>. QED BY <1>2, <1>3, <1>4, AccessKeeps DEF B!Next

LEMMA BufferAlways == Spec => []BufferInv
<1>1. Init => BufferInv
      BY BufferInit DEF Init
<1>2. BufferInv /\ [Next]_vars => BufferInv'
      BY BufferStep, UnitSteps
<1>. QED BY <1>1, <1>2, PTL DEF Spec

LEMMA BufferTypes == ASSUME BufferInv PROVE B!TypeOK
BY Zenon DEF BufferInv, B!TypeOK

(* ContentsFit: what a buffer frees is what it allocated, once, and what   *)
(* it holds has its sizes, until one of them is set back to zero.          *)
THEOREM ContentsAlwaysFit == Spec => []ContentsFit
<1>1. BufferInv => ContentsFit
      BY DEF BufferInv, ContentsFit, B!ContentsFit
<1>. QED BY <1>1, BufferAlways, PTL

----------------------------------------------------------------------------
(* TTMatrixMixer                                                           *)

Pairs(columns, rows) == M!UpTo(columns) \X M!UpTo(rows)

(* The matrix of so many columns and rows that holds the gains, and zeros. *)
Columns(gains, columns, rows) ==
    [x \in M!UpTo(columns) |-> [y \in M!UpTo(rows) |-> M!GainOf(gains, x, y)]]

(* The matrix is what was asked, and it has the columns and the rows that  *)
(* the members say, the written ones excepted.                             *)
Shape(columns, rows) ==
    /\ DOMAIN asked \subseteq Pairs(columns, rows)
    /\ mGainMatrix = Columns(asked, columns, rows)
    /\ "inputs" \notin written => columns = mNumInputs
    /\ "outputs" \notin written => rows = mNumOutputs

MixerInv ==
    /\ mNumInputs \in SignalCounts \cup {0} /\ mNumOutputs \in SignalCounts \cup {0}
    /\ written \subseteq {"inputs", "outputs"}
    /\ \A p \in DOMAIN asked : asked[p] \in Gains
    /\ \E columns, rows \in Nat : Shape(columns, rows)

LEMMA CountsAreNumbers == SignalCounts \subseteq Nat /\ 0 \in Gains /\ Gains \subseteq Nat
BY UnitsAssumption DEF M!ConstantsOK

----------------------------------------------------------------------------
(* Resizing the matrix either way keeps of it what is kept of the gains.   *)
LEMMA InputsKeep ==
    ASSUME NEW gains, NEW columns \in Nat, NEW rows \in Nat, DOMAIN gains \subseteq Pairs(columns, rows),
           NEW n \in Nat, NEW r \in Nat
    PROVE  LET kept == M!ofOutputs(M!ofInputs(gains, n), r)
           IN  /\ M!withInputs(Columns(gains, columns, rows), n, r) = Columns(kept, n, r)
               /\ DOMAIN kept \subseteq Pairs(n, r) \cap DOMAIN gains
               /\ \A p \in DOMAIN kept : kept[p] = gains[p]
<1> DEFINE m == Columns(gains, columns, rows)
           columned == M!resize(m, n, M!Empty)
           kept == M!ofOutputs(M!ofInputs(gains, n), r)
<1>1. /\ DOMAIN kept = {p \in DOMAIN gains : p[1] < n /\ p[2] < r}
      /\ \A p \in DOMAIN kept : kept[p] = gains[p]
      BY DEF M!ofOutputs, M!ofInputs
<1>2. DOMAIN kept \subseteq Pairs(n, r)
  <2>1. ASSUME NEW p \in DOMAIN gains, p[1] < n, p[2] < r
        PROVE  p \in Pairs(n, r)
    <3>1. p = <<p[1], p[2]>> /\ p[1] \in M!UpTo(columns) /\ p[2] \in M!UpTo(rows)
          BY DEF Pairs
    <3>2. p[1] \in M!UpTo(n) /\ p[2] \in M!UpTo(r)
          BY <2>1, <3>1 DEF M!UpTo
    <3>. QED BY <3>1, <3>2 DEF Pairs
  <2>. QED BY <1>1, <2>1
<1> HIDE DEF kept
<1>3. ASSUME NEW x \in M!UpTo(n), NEW y \in M!UpTo(r)
      PROVE  M!resize(columned[x], r, 0)[y] = M!GainOf(kept, x, y)
  <2>1. M!GainOf(kept, x, y) = M!GainOf(gains, x, y)
    <3>1. x < n /\ y < r
          BY DEF M!UpTo
    <3>2. (<<x, y>> \in DOMAIN kept) = (<<x, y>> \in DOMAIN gains)
          BY <1>1, <3>1
    <3>. QED BY <1>1, <3>2 DEF M!GainOf
  <2>2. CASE x \in M!UpTo(columns)
    <3>1. columned[x] = [z \in M!UpTo(rows) |-> M!GainOf(gains, x, z)]
          BY <2>2 DEF M!resize, Columns
    <3>2. y \notin M!UpTo(rows) => M!GainOf(gains, x, y) = 0
          BY DEF M!GainOf, Pairs
    <3>. QED BY <2>1, <3>1, <3>2 DEF M!resize
  <2>3. CASE x \notin M!UpTo(columns)
    <3>1. columned[x] = M!Empty /\ DOMAIN M!Empty = {}
          BY <2>3 DEF M!resize, Columns, M!Empty
    <3>2. M!GainOf(gains, x, y) = 0
          BY <2>3 DEF M!GainOf, Pairs
    <3>. QED BY <2>1, <3>1, <3>2 DEF M!resize
  <2>. QED BY <2>2, <2>3
<1>4. ASSUME NEW x \in M!UpTo(n)
      PROVE  M!resize(columned[x], r, 0) = [y \in M!UpTo(r) |-> M!GainOf(kept, x, y)]
      BY <1>3 DEF M!resize
<1>5. M!withInputs(m, n, r) = Columns(kept, n, r)
      BY <1>4 DEF M!withInputs, Columns
<1>. QED BY <1>1, <1>2, <1>5 DEF kept

LEMMA OutputsKeep ==
    ASSUME NEW gains, NEW columns \in Nat, NEW rows \in Nat, DOMAIN gains \subseteq Pairs(columns, rows),
           NEW n \in Nat
    PROVE  LET kept == M!ofOutputs(gains, n)
           IN  /\ M!withOutputs(Columns(gains, columns, rows), n) = Columns(kept, columns, n)
               /\ DOMAIN kept \subseteq Pairs(columns, n) \cap DOMAIN gains
               /\ \A p \in DOMAIN kept : kept[p] = gains[p]
<1> DEFINE m == Columns(gains, columns, rows)
           kept == M!ofOutputs(gains, n)
<1>1. /\ DOMAIN kept = {p \in DOMAIN gains : p[2] < n}
      /\ \A p \in DOMAIN kept : kept[p] = gains[p]
      BY DEF M!ofOutputs
<1>2. DOMAIN kept \subseteq Pairs(columns, n)
  <2>1. ASSUME NEW p \in DOMAIN gains, p[2] < n
        PROVE  p \in Pairs(columns, n)
    <3>1. p = <<p[1], p[2]>> /\ p[1] \in M!UpTo(columns) /\ p[2] \in M!UpTo(rows)
          BY DEF Pairs
    <3>2. p[2] \in M!UpTo(n)
          BY <2>1, <3>1 DEF M!UpTo
    <3>. QED BY <3>1, <3>2 DEF Pairs
  <2>. QED BY <1>1, <2>1
<1> HIDE DEF kept
<1>3. ASSUME NEW x \in M!UpTo(columns), NEW y \in M!UpTo(n)
      PROVE  M!resize(m[x], n, 0)[y] = M!GainOf(kept, x, y)
  <2>1. M!GainOf(kept, x, y) = M!GainOf(gains, x, y)
    <3>1. y < n
          BY DEF M!UpTo
    <3>2. (<<x, y>> \in DOMAIN kept) = (<<x, y>> \in DOMAIN gains)
          BY <1>1, <3>1
    <3>. QED BY <1>1, <3>2 DEF M!GainOf
  <2>2. m[x] = [z \in M!UpTo(rows) |-> M!GainOf(gains, x, z)]
        BY DEF Columns
  <2>3. y \notin M!UpTo(rows) => M!GainOf(gains, x, y) = 0
        BY DEF M!GainOf, Pairs
  <2>. QED BY <2>1, <2>2, <2>3 DEF M!resize
<1>4. ASSUME NEW x \in M!UpTo(columns)
      PROVE  M!resize(m[x], n, 0) = [y \in M!UpTo(n) |-> M!GainOf(kept, x, y)]
      BY <1>3 DEF M!resize
<1>5. M!withOutputs(m, n) = Columns(kept, columns, n)
      BY <1>4 DEF M!withOutputs, Columns
<1>. QED BY <1>1, <1>2, <1>5 DEF kept

----------------------------------------------------------------------------
(* A write changes the number it names, and says so.                       *)
LEMMA WritesKeep ==
    ASSUME MixerInv, NEW n \in SignalCounts, M!writeNumInputs(n) \/ M!writeNumOutputs(n)
    PROVE  MixerInv'
<1>1. PICK columns \in Nat, rows \in Nat : Shape(columns, rows)
      BY DEF MixerInv
<1>2. Shape(columns, rows)' /\ asked' = asked /\ written' \subseteq {"inputs", "outputs"}
      BY <1>1 DEF Shape, MixerInv, M!writeNumInputs, M!writeNumOutputs
<1>3. mNumInputs' \in SignalCounts \cup {0} /\ mNumOutputs' \in SignalCounts \cup {0}
      BY DEF MixerInv, M!writeNumInputs, M!writeNumOutputs
<1>. QED BY <1>2, <1>3 DEF MixerInv

LEMMA SetGainKeeps ==
    ASSUME MixerInv, NEW x \in DOMAIN mGainMatrix, NEW y \in DOMAIN mGainMatrix[x],
           NEW gain \in Gains, M!SetGain(x, y, gain)
    PROVE  MixerInv'
<1>1. PICK columns \in Nat, rows \in Nat : Shape(columns, rows)
      BY DEF MixerInv
<1>2. x \in M!UpTo(columns) /\ y \in M!UpTo(rows)
      BY <1>1 DEF Shape, Columns
<1>3. /\ DOMAIN asked' = DOMAIN asked \cup {<<x, y>>}
      /\ \A p \in DOMAIN asked' : asked'[p] = IF p = <<x, y>> THEN gain ELSE asked[p]
      BY DEF M!SetGain
<1>4. DOMAIN asked' \subseteq Pairs(columns, rows)
      BY <1>1, <1>2, <1>3 DEF Shape, Pairs
<1>5. ASSUME NEW i \in M!UpTo(columns), NEW j \in M!UpTo(rows)
      PROVE  M!GainOf(asked', i, j) = IF i = x /\ j = y THEN gain ELSE M!GainOf(asked, i, j)
  <2>1. (<<i, j>> = <<x, y>>) = (i = x /\ j = y)
        OBVIOUS
  <2>. QED BY <1>3, <2>1 DEF M!GainOf
<1>6. mGainMatrix' = [i \in M!UpTo(columns) |->
                        IF i = x THEN [mGainMatrix[x] EXCEPT ![y] = gain] ELSE mGainMatrix[i]]
      BY <1>1 DEF M!SetGain, Shape, Columns
<1>7. ASSUME NEW i \in M!UpTo(columns)
      PROVE  mGainMatrix'[i] = [j \in M!UpTo(rows) |-> M!GainOf(asked', i, j)]
  <2>1. mGainMatrix[i] = [j \in M!UpTo(rows) |-> M!GainOf(asked, i, j)]
        BY <1>1 DEF Shape, Columns
  <2>2. CASE i = x
    <3>1. mGainMatrix'[i] = [j \in M!UpTo(rows) |-> IF j = y THEN gain ELSE M!GainOf(asked, i, j)]
          BY <1>6, <2>1, <2>2
    <3>. QED BY <1>5, <2>2, <3>1
  <2>3. CASE i # x
        BY <1>5, <1>6, <2>1, <2>3
  <2>. QED BY <2>2, <2>3
<1>8. mGainMatrix' = Columns(asked', columns, rows)
      BY <1>6, <1>7 DEF Columns
<1>9. Shape(columns, rows)'
      BY <1>1, <1>4, <1>8 DEF Shape, M!SetGain, Columns, M!GainOf
<1>10. \A p \in DOMAIN asked' : asked'[p] \in Gains
      BY <1>3 DEF MixerInv
<1>. QED BY <1>9, <1>10 DEF MixerInv, M!SetGain

LEMMA MixerClearKeeps ==
    ASSUME MixerInv, M!Clear
    PROVE  MixerInv'
<1>1. PICK columns \in Nat, rows \in Nat : Shape(columns, rows)
      BY DEF MixerInv
<1>2. mNumOutputs \in Nat
      BY CountsAreNumbers DEF MixerInv
<1>3. DOMAIN asked' = {}
      BY DEF M!Clear, M!Empty
<1>4. mGainMatrix' = [x \in M!UpTo(columns) |-> [y \in M!UpTo(mNumOutputs) |-> 0]]
      BY <1>1 DEF M!Clear, Shape, Columns
<1>5. mGainMatrix' = Columns(asked', columns, mNumOutputs)
      BY <1>3, <1>4 DEF Columns, M!GainOf
<1>6. Shape(columns, mNumOutputs)'
      BY <1>1, <1>3, <1>5 DEF Shape, M!Clear
<1>. QED BY <1>2, <1>3, <1>6 DEF MixerInv, M!Clear

(* The first half of a vector: the columns, and the rows with them.        *)
LEMMA ResizedFits ==
    ASSUME MixerInv, NEW n \in Nat
    PROVE  LET first == M!ResizedToInputs(n)
           IN  /\ first.written \subseteq written
               /\ \A p \in DOMAIN first.gains : first.gains[p] \in Gains
               /\ \E columns, rows \in Nat :
                    /\ DOMAIN first.gains \subseteq Pairs(columns, rows)
                    /\ first.m = Columns(first.gains, columns, rows)
                    /\ "inputs" \notin first.written => columns = n
                    /\ "outputs" \notin first.written => rows = mNumOutputs
<1> DEFINE first == M!ResizedToInputs(n)
<1>1. PICK columns \in Nat, rows \in Nat : Shape(columns, rows)
      BY DEF MixerInv
<1>2. mNumOutputs \in Nat
      BY CountsAreNumbers DEF MixerInv
<1>3. CASE n = mNumInputs
  <2>1. first = [m |-> mGainMatrix, gains |-> asked, written |-> written]
        BY <1>3 DEF M!ResizedToInputs
  <2>2. first.m = mGainMatrix /\ first.gains = asked /\ first.written = written
        BY <2>1
  <2> HIDE DEF first
  <2>3. /\ DOMAIN first.gains \subseteq Pairs(columns, rows)
        /\ first.m = Columns(first.gains, columns, rows)
        /\ "inputs" \notin first.written => columns = n
        /\ "outputs" \notin first.written => rows = mNumOutputs
        BY <1>1, <1>3, <2>2 DEF Shape
  <2>4. first.written \subseteq written /\ \A p \in DOMAIN first.gains : first.gains[p] \in Gains
        BY <2>2 DEF MixerInv
  <2>. QED BY <2>3, <2>4 DEF first
<1>4. CASE n # mNumInputs
  <2> DEFINE kept == M!ofOutputs(M!ofInputs(asked, n), mNumOutputs)
  <2>1. /\ first.m = M!withInputs(mGainMatrix, n, mNumOutputs)
        /\ first.gains = kept
        /\ first.written = {}
        BY <1>4 DEF M!ResizedToInputs
  <2>2. /\ M!withInputs(Columns(asked, columns, rows), n, mNumOutputs) = Columns(kept, n, mNumOutputs)
        /\ DOMAIN kept \subseteq Pairs(n, mNumOutputs) \cap DOMAIN asked
        /\ \A p \in DOMAIN kept : kept[p] = asked[p]
        BY <1>1, <1>2, InputsKeep DEF Shape
  <2> HIDE DEF first, kept
  <2>3. /\ DOMAIN first.gains \subseteq Pairs(n, mNumOutputs)
        /\ first.m = Columns(first.gains, n, mNumOutputs)
        BY <1>1, <2>1, <2>2 DEF Shape
  <2>4. first.written \subseteq written /\ \A p \in DOMAIN first.gains : first.gains[p] \in Gains
        BY <2>1, <2>2 DEF MixerInv
  <2>. QED BY <1>2, <2>3, <2>4 DEF first
<1>. QED BY <1>3, <1>4

LEMMA processAudioKeeps ==
    ASSUME MixerInv, NEW i \in SignalCounts, NEW o \in SignalCounts, M!processAudio(i, o)
    PROVE  MixerInv'
<1> DEFINE first == M!ResizedToInputs(i)
           kept == M!ofOutputs(first.gains, o)
<1>1. i \in Nat /\ o \in Nat
      BY CountsAreNumbers
<1>2. /\ first.written \subseteq written
      /\ \A p \in DOMAIN first.gains : first.gains[p] \in Gains
      BY <1>1, ResizedFits
<1>3. PICK columns \in Nat, rows \in Nat :
        /\ DOMAIN first.gains \subseteq Pairs(columns, rows)
        /\ first.m = Columns(first.gains, columns, rows)
        /\ "inputs" \notin first.written => columns = i
        /\ "outputs" \notin first.written => rows = mNumOutputs
      BY <1>1, ResizedFits
<1>4. /\ mNumInputs' = i /\ mNumOutputs' = o
      /\ o = mNumOutputs => /\ mGainMatrix' = first.m /\ asked' = first.gains
                            /\ written' = first.written
      /\ o # mNumOutputs => /\ mGainMatrix' = M!withOutputs(first.m, o) /\ asked' = kept
                            /\ written' = first.written \ {"outputs"}
      BY DEF M!processAudio
<1>5. /\ M!withOutputs(Columns(first.gains, columns, rows), o) = Columns(kept, columns, o)
      /\ DOMAIN kept \subseteq Pairs(columns, o) \cap DOMAIN first.gains
      /\ \A p \in DOMAIN kept : kept[p] = first.gains[p]
      BY <1>1, <1>3, OutputsKeep
<1> HIDE DEF first, kept
<1>6. written' \subseteq {"inputs", "outputs"}
      BY <1>2, <1>4 DEF MixerInv
<1>7. \A p \in DOMAIN asked' : asked'[p] \in Gains
      BY <1>2, <1>4, <1>5
<1>8. \E r \in Nat : Shape(columns, r)'
  <2>1. CASE o = mNumOutputs
        BY <1>3, <1>4, <2>1 DEF Shape
  <2>2. CASE o # mNumOutputs
    <3>1. mGainMatrix' = Columns(asked', columns, o) /\ DOMAIN asked' \subseteq Pairs(columns, o)
          BY <1>3, <1>4, <1>5, <2>2
    <3>2. "inputs" \notin written' => columns = mNumInputs'
          BY <1>3, <1>4, <2>2
    <3>. QED BY <1>1, <1>4, <3>1, <3>2 DEF Shape
  <2>. QED BY <2>1, <2>2
<1>. QED BY <1>4, <1>6, <1>7, <1>8 DEF MixerInv

LEMMA MixerInit == M!Init => MixerInv
<1> SUFFICES ASSUME M!Init PROVE MixerInv
    OBVIOUS
<1>1. M!UpTo(0) = {} /\ DOMAIN asked = {} /\ mGainMatrix = [x \in {} |-> 0]
      BY DEF M!UpTo, M!Init, M!Empty
<1>2. Shape(0, 0)
      BY <1>1 DEF M!Init, Shape, Columns
<1>. QED BY <1>1, <1>2 DEF M!Init, MixerInv

LEMMA MixerStep ==
    ASSUME MixerInv, [M!Next]_mixerVars
    PROVE  MixerInv'
<1>1. CASE UNCHANGED mixerVars
      BY <1>1 DEF mixerVars, MixerInv, Shape
<1>. QED BY <1>1, WritesKeep, SetGainKeeps, MixerClearKeeps, processAudioKeeps DEF M!Next

LEMMA MixerAlways == Spec => []MixerInv
<1>1. Init => MixerInv
      BY MixerInit DEF Init
<1>2. MixerInv /\ [Next]_vars => MixerInv'
      BY MixerStep, UnitSteps
<1>. QED BY <1>1, <1>2, PTL DEF Spec

LEMMA MixerTypes == ASSUME MixerInv PROVE M!TypeOK
<1>1. PICK columns \in Nat, rows \in Nat : Shape(columns, rows)
      BY DEF MixerInv
<1>2. \A x, y : M!GainOf(asked, x, y) \in Gains
      BY CountsAreNumbers DEF M!GainOf, MixerInv
<1>3. \A x \in DOMAIN mGainMatrix : \A y \in DOMAIN mGainMatrix[x] : mGainMatrix[x][y] \in Gains
      BY <1>1, <1>2 DEF Shape, Columns
<1>. QED BY <1>3 DEF MixerInv, M!TypeOK

(* EveryPairHasItsGain: however the numbers of signals came and went, the  *)
(* matrix has the gain set last for every pair it was never too small for, *)
(* and has every pair of the signals whose number was not written.         *)
THEOREM GainsStay == Spec => []EveryPairHasItsGain
<1>1. ASSUME MixerInv PROVE EveryPairHasItsGain
  <2>1. PICK columns \in Nat, rows \in Nat : Shape(columns, rows)
        BY <1>1 DEF MixerInv
  <2>2. /\ DOMAIN mGainMatrix = M!UpTo(columns)
        /\ \A x \in M!UpTo(columns) : mGainMatrix[x] = [y \in M!UpTo(rows) |-> M!GainOf(asked, x, y)]
        BY <2>1 DEF Shape, Columns
  <2>3. \A p \in DOMAIN asked : p[1] \in M!UpTo(columns) /\ p[2] \in M!UpTo(rows)
        BY <2>1 DEF Shape, Pairs
  <2>4. /\ "inputs" \notin written => columns = mNumInputs
        /\ "outputs" \notin written => rows = mNumOutputs
        BY <2>1 DEF Shape
  <2>. QED BY <2>2, <2>3, <2>4 DEF EveryPairHasItsGain, M!EveryPairHasItsGain
<1>. QED BY <1>1, MixerAlways, PTL

----------------------------------------------------------------------------
(* TTSoundfilePlayer                                                       *)

(* The buffer is as large as its two sizes say, and the output has the     *)
(* channels of the last file played, unless its caller resized it since.   *)
PlayerInv ==
    /\ mSoundFile \in Files \cup {NoFile} /\ position \in Nat
    /\ mSoundFile # NoFile => position <= mSoundFile.frames
    /\ mPlay \in BOOLEAN /\ mLoop \in BOOLEAN /\ mContinue \in BOOLEAN /\ resized \in BOOLEAN
    /\ mSeek \in Nat /\ mNumChannels \in Nat /\ mNumBufferFrames \in Nat /\ mBuffer \in Nat
    /\ out \in [max : Nat, frames : Nat \ {0}]
    /\ mBuffer = mNumBufferFrames * mNumChannels
    /\ mSoundFile = NoFile => mNumChannels = 0
    /\ ~resized => mNumChannels \in {0, out.max}

LEMMA PlayerConstants ==
    /\ \A f \in Files : f.channels \in Nat \ {0} /\ f.frames \in Nat
    /\ NoFile \notin Files /\ Seeks \subseteq Nat
    /\ PlayerVectors \subseteq Nat \ {0} /\ OutChannels \subseteq Nat \ {0}
    /\ PlayerVectors # {} /\ OutChannels # {}
BY UnitsAssumption DEF P!ConstantsOK

LEMMA PlayerInit == P!Init => PlayerInv
<1> SUFFICES ASSUME P!Init
             PROVE  PlayerInv
    OBVIOUS
<1>1. /\ mSoundFile = NoFile /\ position = 0 /\ mSeek = 0
      /\ mNumChannels = 0 /\ mNumBufferFrames = 0 /\ mBuffer = 0
      BY DEF P!Init
<1>2. mPlay = FALSE /\ mLoop = FALSE /\ mContinue = FALSE /\ resized = FALSE
      BY DEF P!Init
<1>3. mPlay \in BOOLEAN /\ mLoop \in BOOLEAN /\ mContinue \in BOOLEAN /\ resized \in BOOLEAN
      BY <1>2, Zenon
<1>4. out \in [max : Nat, frames : Nat \ {0}]
  <2>1. /\ (CHOOSE n \in OutChannels : TRUE) \in Nat
        /\ (CHOOSE n \in PlayerVectors : TRUE) \in Nat \ {0}
        BY PlayerConstants
  <2>. QED BY <2>1 DEF P!Init
<1>5. /\ mSoundFile \in Files \cup {NoFile} /\ position \in Nat
      /\ mSeek \in Nat /\ mNumChannels \in Nat /\ mNumBufferFrames \in Nat /\ mBuffer \in Nat
      /\ mBuffer = mNumBufferFrames * mNumChannels
      BY <1>1
<1>. QED BY <1>1, <1>3, <1>4, <1>5 DEF PlayerInv

LEMMA WholeFrames ==
    ASSUME NEW samples \in Nat, NEW frames \in Nat, NEW channels \in Nat \ {0},
           samples <= frames * channels
    PROVE  samples \div channels \in Nat /\ samples \div channels <= frames
<1> DEFINE q == samples \div channels
<1>1. q \in Int /\ q * channels <= samples /\ samples < (q + 1) * channels
      OBVIOUS
<1> HIDE DEF q
<1>2. q <= frames
      BY <1>1
<1>3. q >= 0
      BY <1>1
<1>. QED BY <1>1, <1>2, <1>3 DEF q

(* What is read does not end behind the end of the file.                   *)
LEMMA ReadInFile ==
    ASSUME PlayerInv, mSoundFile # NoFile, NEW wanted \in Nat
    PROVE  LET read == P!sf_read_double(wanted)
           IN  /\ read \in Nat
               /\ position + read \div mSoundFile.channels \in Nat
               /\ position + read \div mSoundFile.channels <= mSoundFile.frames
<1> DEFINE left == mSoundFile.frames - position
           samples == left * mSoundFile.channels
           read == P!sf_read_double(wanted)
<1>1. /\ mSoundFile.channels \in Nat \ {0} /\ mSoundFile.frames \in Nat
      /\ position \in Nat /\ position <= mSoundFile.frames
      BY PlayerConstants DEF PlayerInv
<1>2. left \in Nat
      BY <1>1
<1>3. samples \in Nat
      BY <1>1, <1>2
<1>4. read \in Nat /\ read <= samples
  <2> HIDE DEF samples
  <2>1. P!Min({wanted, samples}) \in {wanted, samples} /\ P!Min({wanted, samples}) <= samples
    <3>1. \E x \in {wanted, samples} : \A y \in {wanted, samples} : x <= y
          BY <1>3
    <3>. QED BY <1>3, <3>1 DEF P!Min
  <2>2. read = 0 \/ read = P!Min({wanted, samples})
        BY DEF P!sf_read_double, samples
  <2>. QED BY <1>3, <2>1, <2>2
<1> HIDE DEF left, read
<1>5. read \div mSoundFile.channels \in Nat /\ read \div mSoundFile.channels <= left
      BY <1>1, <1>2, <1>4, WholeFrames
<1>. QED BY <1>1, <1>4, <1>5 DEF left, read

LEMMA SeekInFile ==
    ASSUME PlayerInv, mSoundFile # NoFile, NEW target \in Nat, NEW from \in Nat, from <= mSoundFile.frames
    PROVE  P!sf_seek(target, from) \in Nat /\ P!sf_seek(target, from) <= mSoundFile.frames
BY DEF P!sf_seek

(* Messages and attributes: none of them touches what a vector needs.      *)
LEMMA TransportKeeps ==
    ASSUME PlayerInv,
           \/ \E f \in Files : P!setFilePath(f)
           \/ \E on \in BOOLEAN : P!setPlay(on) \/ P!setLoop(on)
           \/ \E time \in Seeks : P!setSeek(time)
           \/ P!Pause \/ P!Resume
    PROVE  PlayerInv'
<1>1. UNCHANGED <<mNumChannels, mNumBufferFrames, mBuffer, out, resized>>
      BY DEF P!setFilePath, P!setPlay, P!setLoop, P!setSeek, P!Pause, P!Resume, P!playback, P!transport
<1>2. mPlay' \in BOOLEAN /\ mLoop' \in BOOLEAN /\ mContinue' \in BOOLEAN
      BY Zenon DEF PlayerInv, P!setFilePath, P!setPlay, P!setLoop, P!setSeek, P!Pause, P!Resume
<1>3. mSoundFile' \in Files \/ mSoundFile' = mSoundFile
      BY DEF P!setFilePath, P!setPlay, P!setLoop, P!setSeek, P!Pause, P!Resume
<1>4. mSeek' \in Nat
      BY PlayerConstants DEF PlayerInv, P!setFilePath, P!setPlay, P!setLoop, P!setSeek, P!Pause, P!Resume
<1>5. position' \in Nat /\ (mSoundFile' # NoFile => position' <= mSoundFile'.frames)
  <2>1. ASSUME NEW f \in Files, P!setFilePath(f)
        PROVE  position' \in Nat /\ position' <= mSoundFile'.frames
        BY <2>1, PlayerConstants DEF P!setFilePath
  <2>2. ASSUME NEW on \in BOOLEAN, P!setPlay(on)
        PROVE  position' \in Nat /\ (mSoundFile' # NoFile => position' <= mSoundFile'.frames)
    <3>1. mSoundFile' = mSoundFile /\ (position' = position \/ position' = 0)
          BY <2>2 DEF P!setPlay
    <3>2. mSoundFile # NoFile => mSoundFile.frames \in Nat
          BY PlayerConstants DEF PlayerInv
    <3>. QED BY <3>1, <3>2 DEF PlayerInv
  <2>3. ASSUME NEW time \in Seeks, P!setSeek(time)
        PROVE  position' \in Nat /\ (mSoundFile' # NoFile => position' <= mSoundFile'.frames)
    <3>1. /\ mSoundFile # NoFile /\ time \in Nat /\ mSoundFile' = mSoundFile
          /\ position' = P!sf_seek(time, position) /\ position \in Nat /\ position <= mSoundFile.frames
          BY <2>3, PlayerConstants DEF P!setSeek, PlayerInv
    <3>. QED BY <3>1, SeekInFile
  <2>4. ASSUME \/ \E on \in BOOLEAN : P!setLoop(on)
               \/ P!Pause \/ P!Resume
        PROVE  position' \in Nat /\ (mSoundFile' # NoFile => position' <= mSoundFile'.frames)
        BY <2>4 DEF P!setLoop, P!Pause, P!Resume, PlayerInv
  <2>. QED BY <2>1, <2>2, <2>3, <2>4
<1>6. mSoundFile' \in Files \cup {NoFile} /\ (mSoundFile' = NoFile => mSoundFile = NoFile)
      BY <1>3, PlayerConstants DEF PlayerInv
<1>. QED BY <1>1, <1>2, <1>4, <1>5, <1>6 DEF PlayerInv

LEMMA ReallocateKeeps ==
    ASSUME PlayerInv, NEW max \in OutChannels, NEW frames \in PlayerVectors, P!Reallocate(max, frames)
    PROVE  PlayerInv'
<1>1. /\ UNCHANGED <<mSoundFile, position, mPlay, mLoop, mContinue, mSeek,
                     mNumChannels, mNumBufferFrames, mBuffer>>
      /\ out' = [max |-> max, frames |-> frames]
      BY DEF P!Reallocate, P!transport
<1>2. out' \in [max : Nat, frames : Nat \ {0}] /\ out'.max = max
      BY <1>1, PlayerConstants
<1>3. resized' \in BOOLEAN
      BY Zenon DEF P!Reallocate
<1>4. ASSUME ~resized' PROVE mNumChannels \in {0, max}
  <2>1. ~resized /\ (mNumChannels = 0 \/ max = out.max)
        BY <1>4, Zenon DEF P!Reallocate
  <2>. QED BY <2>1 DEF PlayerInv
<1>. QED BY <1>1, <1>2, <1>3, <1>4 DEF PlayerInv

LEMMA SilentKeeps ==
    ASSUME PlayerInv, P!Silent
    PROVE  PlayerInv'
<1>1. /\ UNCHANGED <<mSoundFile, position, mPlay, mLoop, mContinue, mSeek,
                     mNumChannels, mNumBufferFrames, mBuffer, resized>>
      /\ mNumChannels = 0
      BY DEF P!Silent, P!transport, PlayerInv
<1>2. out' \in [max : Nat, frames : Nat \ {0}]
      BY DEF P!Silent, PlayerInv
<1>. QED BY <1>1, <1>2 DEF PlayerInv

(* A vector: the buffer and the output have its room.                      *)
LEMMA PlayingFits ==
    ASSUME PlayerInv, P!Playing
    PROVE  /\ mNumChannels' \in Nat /\ mNumBufferFrames' \in Nat /\ mBuffer' \in Nat
           /\ out' \in [max : Nat, frames : Nat \ {0}]
           /\ mBuffer' = mNumBufferFrames' * mNumChannels'
           /\ ~resized => mNumChannels' = mSoundFile.channels /\ out'.max = mNumChannels'
           /\ resized' = resized /\ mSoundFile' = mSoundFile /\ mSoundFile # NoFile
<1> DEFINE newChannels == out.max # mSoundFile.channels \/ mNumChannels = 0
<1>1. /\ mSoundFile # NoFile /\ mSoundFile' = mSoundFile /\ resized' = resized
      /\ mNumChannels' = IF newChannels THEN mSoundFile.channels ELSE mNumChannels
      /\ out' = IF newChannels THEN [out EXCEPT !.max = mSoundFile.channels] ELSE out
      /\ mNumBufferFrames' = out.frames
      /\ mBuffer' = IF newChannels \/ mNumBufferFrames # out.frames
                    THEN out.frames * mNumChannels' ELSE mBuffer
      BY DEF P!Playing, P!Adapted
<1>2. /\ mSoundFile.channels \in Nat \ {0}
      /\ out \in [max : Nat, frames : Nat \ {0}] /\ out.frames \in Nat /\ out.max \in Nat
      /\ mNumChannels \in Nat /\ mNumBufferFrames \in Nat /\ mBuffer = mNumBufferFrames * mNumChannels
      /\ ~resized => mNumChannels \in {0, out.max}
      BY <1>1, PlayerConstants DEF PlayerInv
<1>3. CASE newChannels
  <2>1. out' = [out EXCEPT !.max = mSoundFile.channels] /\ mNumChannels' = mSoundFile.channels
        BY <1>1, <1>3
  <2>2. out' \in [max : Nat, frames : Nat \ {0}] /\ out'.max = mSoundFile.channels
        BY <1>2, <2>1
  <2>3. mBuffer' = out.frames * mNumChannels' /\ mNumBufferFrames' = out.frames
        BY <1>1, <1>3
  <2>. QED BY <1>1, <1>2, <2>1, <2>2, <2>3
<1>4. CASE ~newChannels
  <2>1. out' = out /\ mNumChannels' = mNumChannels /\ out.max = mSoundFile.channels /\ mNumChannels # 0
        BY <1>1, <1>4
  <2>2. ~resized => mNumChannels' = mSoundFile.channels
        BY <1>2, <2>1
  <2>3. mBuffer' = out.frames * mNumChannels'
        BY <1>1, <1>2, <1>4
  <2>. QED BY <1>1, <1>2, <2>1, <2>2, <2>3
<1>. QED BY <1>3, <1>4

LEMMA PlayingKeeps ==
    ASSUME PlayerInv, P!Playing
    PROVE  PlayerInv'
<1>1. /\ mNumChannels' \in Nat /\ mNumBufferFrames' \in Nat /\ mBuffer' \in Nat
      /\ out' \in [max : Nat, frames : Nat \ {0}]
      /\ mBuffer' = mNumBufferFrames' * mNumChannels'
      /\ ~resized => out'.max = mNumChannels'
      /\ resized' = resized /\ mSoundFile' = mSoundFile /\ mSoundFile # NoFile
      BY PlayingFits
<1>2. UNCHANGED <<mLoop, mContinue, mSeek>>
      BY DEF P!Playing
<1> DEFINE wanted == out.frames * mNumChannels'
           read == P!sf_read_double(wanted)
           behind == position + read \div mSoundFile.channels
<1>3. mPlay' \in BOOLEAN
      BY Zenon DEF P!Playing, P!Played, PlayerInv
<1>4. position' \in Nat /\ position' <= mSoundFile.frames
  <2>1. wanted \in Nat
        BY <1>1 DEF PlayerInv
  <2> HIDE DEF wanted
  <2>2. behind \in Nat /\ behind <= mSoundFile.frames
        BY <1>1, <2>1, ReadInFile
  <2>3. position' \in {position, behind, P!sf_seek(mSeek, behind)}
        BY DEF P!Playing, P!Played, wanted
  <2> HIDE DEF behind
  <2>4. P!sf_seek(mSeek, behind) \in Nat /\ P!sf_seek(mSeek, behind) <= mSoundFile.frames
        BY <1>1, <2>2, SeekInFile DEF PlayerInv
  <2>. QED BY <1>1, <2>2, <2>3, <2>4 DEF PlayerInv
<1>5. mSoundFile' \in Files \cup {NoFile} /\ resized' \in BOOLEAN
      BY <1>1 DEF PlayerInv
<1>. QED BY <1>1, <1>2, <1>3, <1>4, <1>5 DEF PlayerInv

LEMMA PlayerStep ==
    ASSUME PlayerInv, [P!Next]_playerVars
    PROVE  PlayerInv'
<1>1. CASE UNCHANGED playerVars
      BY <1>1 DEF playerVars, PlayerInv
<1>. QED BY <1>1, TransportKeeps, ReallocateKeeps, SilentKeeps, PlayingKeeps DEF P!Next, P!processAudio

LEMMA PlayerAlways == Spec => []PlayerInv
<1>1. Init => PlayerInv
      BY PlayerInit DEF Init
<1>2. PlayerInv /\ [Next]_vars => PlayerInv'
      BY PlayerStep, UnitSteps
<1>. QED BY <1>1, <1>2, PTL DEF Spec

LEMMA PlayerTypes == ASSUME PlayerInv PROVE P!TypeOK
<1>1. {mPlay, mLoop, mContinue, resized} \subseteq BOOLEAN
      BY Zenon DEF PlayerInv
<1>2. {mSeek, mNumChannels, mNumBufferFrames, mBuffer} \subseteq Nat
      BY DEF PlayerInv
<1>. QED BY <1>1, <1>2 DEF PlayerInv, P!TypeOK

(* VectorFits: in whatever order files are opened, vectors change their    *)
(* size and the caller allocates, a vector has its room in the buffer, and *)
(* in an output that the caller did not resize between two vectors.        *)
THEOREM VectorsAlwaysFit == Spec => VectorFits
<1>1. PlayerInv /\ [Next]_vars =>
        [P!Playing => /\ mBuffer' = mNumBufferFrames' * mNumChannels'
                      /\ ~resized => mNumChannels' = mSoundFile.channels /\ out'.max = mNumChannels']_(P!vars)
      BY PlayingFits
<1>. QED BY <1>1, PlayerAlways, PTL DEF Spec, VectorFits, P!VectorFits

LEMMA WholeQuotient ==
    ASSUME NEW samples \in Nat, NEW channels \in Nat \ {0}
    PROVE  samples \div channels \in Nat
OBVIOUS

(* A whole vector that is read has a frame at least.                       *)
LEMMA SomeFrames ==
    ASSUME NEW samples \in Nat \ {0}, NEW channels \in Nat \ {0}, samples % channels = 0
    PROVE  samples \div channels \in Nat \ {0}
BY WholeQuotient

(* A vector of a player that plays takes it on in its file by a frame at   *)
(* least, or it ends: then the player is back at its cue, or where it was  *)
(* when the file has no such place, and goes on only in a loop.  With the  *)
(* fairness of processAudio this is why LeftAloneEnds holds.               *)
VectorPlaysOn ==
    P!Playing /\ mPlay /\ mContinue =>
        \/ mPlay' /\ position < position' /\ position' <= mSoundFile.frames
        \/ /\ mPlay' = mLoop
           /\ position' = mSeek \/ (mSeek > mSoundFile.frames /\ position <= position')

THEOREM VectorsPlayOn == Spec => [][VectorPlaysOn]_vars
<1>1. ASSUME PlayerInv, P!Playing, mPlay, mContinue
      PROVE  \/ mPlay' /\ position < position' /\ position' <= mSoundFile.frames
             \/ /\ mPlay' = mLoop
                /\ position' = mSeek \/ (mSeek > mSoundFile.frames /\ position <= position')
  <2> DEFINE wanted == out.frames * mNumChannels'
             read == P!sf_read_double(wanted)
             frames == read \div mSoundFile.channels
  <2>1. /\ mSoundFile # NoFile
        /\ mNumChannels' = IF out.max # mSoundFile.channels \/ mNumChannels = 0
                           THEN mSoundFile.channels ELSE mNumChannels
        BY <1>1 DEF P!Playing, P!Adapted
  <2>2. /\ mSoundFile.channels \in Nat \ {0} /\ mSoundFile.frames \in Nat
        /\ position \in Nat /\ out.frames \in Nat \ {0} /\ mNumChannels \in Nat
        BY <1>1, <2>1, PlayerConstants DEF PlayerInv
  <2>3. wanted \in Nat \ {0}
    <3>1. mNumChannels' \in Nat \ {0}
          BY <2>1, <2>2
    <3>. QED BY <2>2, <3>1
  <2>4. P!Played(wanted)
        BY <1>1 DEF P!Playing
  <2>5. read \in Nat /\ position + frames <= mSoundFile.frames
        BY <1>1, <2>1, <2>3, ReadInFile
  <2> HIDE DEF wanted
  <2>6. CASE read < wanted
    <3>1. mPlay' = mLoop /\ position' = P!sf_seek(mSeek, position + frames)
          BY <2>4, <2>6, Zenon DEF P!Played
    <3>2. frames \in Nat
      <4> HIDE DEF read
      <4>. QED BY <2>2, <2>5, WholeQuotient
    <3> HIDE DEF frames
    <3>3. position <= position + frames /\ mSeek \in Nat
          BY <1>1, <2>2, <3>2 DEF PlayerInv
    <3>4. position' = mSeek \/ (mSeek > mSoundFile.frames /\ position <= position')
          BY <2>2, <3>1, <3>3 DEF P!sf_seek
    <3>. QED BY <3>1, <3>4, Zenon
  <2>7. CASE ~(read < wanted)
    <3>1. mPlay' /\ position' = position + frames
          BY <1>1, <2>4, <2>7, Zenon DEF P!Played
    <3>2. wanted % mSoundFile.channels = 0 /\ read # 0
          BY <2>3, <2>5, <2>7 DEF P!sf_read_double
    <3>3. read = wanted
      <4> DEFINE samples == (mSoundFile.frames - position) * mSoundFile.channels
      <4>1. read = P!Min({wanted, samples})
            BY <3>2 DEF P!sf_read_double
      <4>2. samples \in Int
            BY <2>2
      <4> HIDE DEF samples
      <4>3. P!Min({wanted, samples}) <= wanted
        <5>1. \E x \in {wanted, samples} : \A y \in {wanted, samples} : x <= y
              BY <2>3, <4>2
        <5>. QED BY <2>3, <4>2, <5>1 DEF P!Min
      <4>. QED BY <2>3, <2>5, <2>7, <4>1, <4>3
    <3>4. frames \in Nat \ {0}
          BY <2>2, <2>3, <3>2, <3>3, SomeFrames
    <3> HIDE DEF frames
    <3>5. position < position + frames
          BY <2>2, <3>4
    <3>. QED BY <2>5, <3>1, <3>5, Zenon
  <2>. QED BY <2>6, <2>7
<1>2. PlayerInv => VectorPlaysOn
      BY <1>1 DEF VectorPlaysOn
<1>. QED BY <1>2, PlayerAlways, PTL

----------------------------------------------------------------------------
(* jcom.gain~                                                              *)

(* The channel o of the external, raw and wet.                             *)
Own(o) == [a |-> o, b |-> N + o]

(* What is in the first channels of a signal, of which perform was told.   *)
Sounds(vectors) ==
    \A c \in 0..N - 1 : \/ vectors[c] = G!Garbage
                        \/ c + 1 \in DOMAIN chain /\ vectors[c] = Own(chain[c + 1])

(* The signal s, made for n channels.                                      *)
SignalFor(s, n) ==
    /\ s \in G!Memory!Signal
    /\ s.maxNumChannels = n /\ s.numChannels <= n
    /\ DOMAIN s.sampleVectors = 0..(n - 1)

(* The vectors that perform writes to are as long as it takes them to be,  *)
(* and what they hold is the sound of the channels perform takes them for: *)
(* both since the last dsp.                                                *)
GainInv ==
    /\ SignalFor(signalIn, 2 * N) /\ SignalFor(signalOut, N) /\ SignalFor(signalTemp, N)
    /\ sample \in [in : [0..2 * N - 1 -> (0..2 * N - 1) \cup {NULL}],
                   temp : [0..N - 1 -> G!Source], out : [0..N - 1 -> G!Source]]
    /\ chain \in Seq(0..N - 1)
    /\ chain # <<>> =>
         /\ signalOut.numChannels = Len(chain) /\ signalTemp.numChannels = Len(chain)
         /\ signalIn.numChannels = 2 * Len(chain)
         /\ \A c \in 0..N - 1 : /\ signalOut.sampleVectors[c] = signalIn.vectorSize
                                /\ signalTemp.sampleVectors[c] = signalIn.vectorSize
    /\ Sounds(sample.temp) /\ Sounds(sample.out)
    /\ outlet \in [0..N - 1 -> G!Source]
    /\ \A o \in 0..N - 1 : outlet[o] \in {G!Garbage, Own(o)}
    /\ overrun \subseteq {"in"}

LEMMA GainConstants == N \in Nat \ {0} /\ HostVectors \subseteq Nat \ {0} 
BY UnitsAssumption DEF G!ConstantsOK

LEMMA OwnIsSource == \A o \in 0..N - 1 : Own(o) \in G!Source
BY GainConstants DEF Own, G!Source

LEMMA ConstructedFor ==
    ASSUME NEW n \in 1..2 * N
    PROVE  SignalFor(G!Memory!Constructed(n), n)
<1> DEFINE s == G!Memory!Constructed(n)
           bare == [c \in 0..(n - 1) |-> NULL]
<1>1. n \in Nat \ {0} /\ n \in 0..2 * N
      BY GainConstants
<1>2. G!Memory!MaxOf(n, 1) = n /\ G!Memory!MinOf(n, n) = n
      BY <1>1 DEF G!Memory!MaxOf, G!Memory!MinOf
<1>3. s = [isLocallyOwned |-> FALSE, maxNumChannels |-> n, vectorSize |-> 0, numChannels |-> n,
           bitdepth |-> 0, sampleVectors |-> bare]
      BY <1>2 DEF G!Memory!Constructed, G!Memory!NullVectors, G!Memory!ChannelsUpTo
<1>4. bare \in [G!Memory!ChannelsUpTo(n) -> G!Memory!Pointer]
      BY DEF G!Memory!ChannelsUpTo, G!Memory!Pointer
<1>5. DOMAIN bare = 0..(n - 1)
      OBVIOUS
<1> HIDE DEF s, bare
<1>6. s \in G!Memory!Signal
      BY <1>1, <1>3, <1>4 DEF G!Memory!Signal
<1>. QED BY <1>3, <1>5, <1>6 DEF SignalFor, s

(* dsp gives a signal n valid channels ...                                 *)
LEMMA SizedFor ==
    ASSUME NEW s, NEW m \in Nat, SignalFor(s, m), NEW n \in Nat, n <= m, NEW vs \in HostVectors \cup {0}
    PROVE  LET t == G!Memory!SetVectorSize(G!Memory!SetNumChannels(s, n), vs)
           IN  SignalFor(t, m) /\ t.numChannels = n /\ t.vectorSize = vs
<1> DEFINE t == G!Memory!SetVectorSize(G!Memory!SetNumChannels(s, n), vs)
           u == G!Memory!SetNumChannels(s, n)
<1>1. s \in G!Memory!Signal /\ s.maxNumChannels = m /\ m \in 0..2 * N
      BY DEF SignalFor, G!Memory!Signal
<1>2. G!Memory!MinOf(n, m) = n /\ n \in 0..2 * N
      BY <1>1, GainConstants DEF G!Memory!MinOf
<1>3. u = [s EXCEPT !.numChannels = n]
      BY <1>1, <1>2 DEF G!Memory!SetNumChannels
<1>4. /\ u \in G!Memory!Signal /\ u.numChannels = n
      /\ u.maxNumChannels = m /\ u.sampleVectors = s.sampleVectors
      BY <1>1, <1>2, <1>3 DEF G!Memory!Signal
<1> HIDE DEF u
<1>5. t = [u EXCEPT !.vectorSize = vs]
      BY DEF t, u, G!Memory!SetVectorSize
<1>6. /\ t \in G!Memory!Signal /\ t.vectorSize = vs /\ t.numChannels = n
      /\ t.maxNumChannels = m /\ t.sampleVectors = s.sampleVectors
      BY <1>4, <1>5 DEF G!Memory!Signal
<1> HIDE DEF t
<1>7. SignalFor(t, m)
      BY <1>6 DEF SignalFor
<1>. QED BY <1>6, <1>7 DEF t

(* ... and all its vectors the length of the host's.                       *)
LEMMA FreshFor ==
    ASSUME NEW s, NEW m \in Nat, SignalFor(s, m)
    PROVE  /\ SignalFor(G!Fresh(s), m)
           /\ G!Fresh(s).numChannels = s.numChannels
           /\ G!Fresh(s).vectorSize = s.vectorSize
           /\ \A c \in 0..(m - 1) : G!Fresh(s).sampleVectors[c] = s.vectorSize
<1> DEFINE new == [c \in 0..(m - 1) |-> s.vectorSize]
           t == [s EXCEPT !.sampleVectors = new]
           owned == m > 0
<1>1. /\ s \in G!Memory!Signal /\ s.maxNumChannels = m /\ m \in 0..2 * N
      /\ s.vectorSize \in HostVectors \cup {0}
      BY DEF SignalFor, G!Memory!Signal
<1>2. new \in [G!Memory!ChannelsUpTo(m) -> G!Memory!Pointer] /\ DOMAIN new = 0..(m - 1)
      BY <1>1 DEF G!Memory!ChannelsUpTo, G!Memory!Pointer
<1>3. owned \in BOOLEAN
      OBVIOUS
<1>4. G!Fresh(s) = [t EXCEPT !.isLocallyOwned = owned]
      BY <1>1 DEF G!Fresh, G!Memory!Allocated, G!Memory!Channels, G!Memory!ChannelsUpTo
<1>5. \A c \in 0..(m - 1) : new[c] = s.vectorSize
      OBVIOUS
<1> HIDE DEF new, owned
<1>6. new \in UNION { [G!Memory!ChannelsUpTo(n) -> G!Memory!Pointer] : n \in 0..2 * N }
      BY <1>1, <1>2
<1>7. /\ t \in G!Memory!Signal /\ t.sampleVectors = new
      /\ t.maxNumChannels = m /\ t.numChannels = s.numChannels /\ t.vectorSize = s.vectorSize
      BY <1>1, <1>6 DEF G!Memory!Signal
<1> HIDE DEF t
<1>8. /\ G!Fresh(s) \in G!Memory!Signal /\ G!Fresh(s).sampleVectors = new
      /\ G!Fresh(s).maxNumChannels = m /\ G!Fresh(s).numChannels = s.numChannels
      /\ G!Fresh(s).vectorSize = s.vectorSize
      BY <1>3, <1>4, <1>7 DEF G!Memory!Signal
<1>. QED BY <1>2, <1>5, <1>8 DEF SignalFor

LEMMA LaidOutFor ==
    ASSUME NEW s, NEW m \in Nat, SignalFor(s, m), NEW n \in Nat, n <= m, NEW vs \in HostVectors \cup {0}
    PROVE  /\ SignalFor(G!LaidOut(s, n, vs), m)
           /\ G!LaidOut(s, n, vs).numChannels = n
           /\ \A c \in 0..(m - 1) : G!LaidOut(s, n, vs).sampleVectors[c] = vs
<1> DEFINE t == G!Memory!SetVectorSize(G!Memory!SetNumChannels(s, n), vs)
<1>1. SignalFor(t, m) /\ t.numChannels = n /\ t.vectorSize = vs
      BY SizedFor
<1>2. G!LaidOut(s, n, vs) = G!Fresh(t)
      BY DEF G!LaidOut
<1> HIDE DEF t
<1>. QED BY <1>1, <1>2, FreshFor

(* setVector() may give the input signal its vectors, and changes nothing  *)
(* else.                                                                   *)
LEMMA SetInFor ==
    ASSUME NEW s, NEW m \in Nat, SignalFor(s, m), NEW vs, vs = s.vectorSize
    PROVE  /\ SignalFor(G!SetIn(s, vs), m)
           /\ G!SetIn(s, vs).numChannels = s.numChannels
           /\ G!SetIn(s, vs).vectorSize = vs
<1> DEFINE u == [s EXCEPT !.bitdepth = 32]
           t == [u EXCEPT !.vectorSize = vs]
<1>1. s \in G!Memory!Signal /\ s.maxNumChannels = m
      BY DEF SignalFor
<1>2. G!Memory!Prepared32(s, vs) = t
      BY DEF G!Memory!Prepared32
<1>3. /\ u \in G!Memory!Signal /\ u.numChannels = s.numChannels /\ u.vectorSize = vs
      /\ u.maxNumChannels = m /\ u.sampleVectors = s.sampleVectors
      BY <1>1 DEF G!Memory!Signal
<1> HIDE DEF u
<1>4. /\ t \in G!Memory!Signal /\ t.numChannels = s.numChannels /\ t.vectorSize = vs
      /\ t.maxNumChannels = m /\ t.sampleVectors = s.sampleVectors
      BY <1>3 DEF G!Memory!Signal
<1> HIDE DEF t
<1>5. SignalFor(t, m)
      BY <1>4 DEF SignalFor
<1>. QED BY <1>2, <1>4, <1>5, FreshFor DEF G!SetIn

LEMMA GainInit == G!Init => GainInv
<1> SUFFICES ASSUME G!Init
             PROVE  GainInv
    OBVIOUS
<1>1. SignalFor(signalIn, 2 * N) /\ SignalFor(signalOut, N) /\ SignalFor(signalTemp, N)
  <2>1. 2 * N \in 1..2 * N /\ N \in 1..2 * N
        BY GainConstants
  <2>. QED BY <2>1, ConstructedFor DEF G!Init
<1>2. /\ sample.in = [c \in 0..2 * N - 1 |-> NULL]
      /\ sample.temp = [c \in 0..N - 1 |-> G!Garbage]
      /\ sample.out = [c \in 0..N - 1 |-> G!Garbage]
      /\ sample = [in |-> sample.in, temp |-> sample.temp, out |-> sample.out]
      /\ outlet = [c \in 0..N - 1 |-> G!Garbage]
      BY DEF G!Init
<1>3. G!Garbage \in G!Source
      BY DEF G!Source
<1>4. Sounds(sample.temp) /\ Sounds(sample.out)
      BY <1>2 DEF Sounds
<1>5. /\ sample.in \in [0..2 * N - 1 -> (0..2 * N - 1) \cup {NULL}]
      /\ sample.temp \in [0..N - 1 -> G!Source] /\ sample.out \in [0..N - 1 -> G!Source]
      BY <1>2, <1>3
<1>6. /\ outlet \in [0..N - 1 -> G!Source]
      /\ \A o \in 0..N - 1 : outlet[o] = G!Garbage
      BY <1>2, <1>3
<1>7. chain = <<>> /\ overrun = {}
      BY DEF G!Init
<1>8. sample \in [in : [0..2 * N - 1 -> (0..2 * N - 1) \cup {NULL}],
                  temp : [0..N - 1 -> G!Source], out : [0..N - 1 -> G!Source]]
      BY <1>2, <1>5
<1>. QED BY <1>1, <1>4, <1>6, <1>7, <1>8 DEF GainInv

(* The same operator of the same module, under two names.                  *)
LEMMA SameCardinality == ASSUME NEW S PROVE G!Cardinality(S) = Cardinality(S)
BY DEF G!Cardinality, Cardinality

LEMMA SeqElements ==
    ASSUME NEW S, NEW f \in Seq(S)
    PROVE  Len(f) \in Nat /\ DOMAIN f = 1..Len(f) /\ \A i \in 1..Len(f) : f[i] \in S
OBVIOUS

LEMMA FunctionIsSeq ==
    ASSUME NEW S, NEW n \in Nat, NEW f \in [1..n -> S]
    PROVE  f \in Seq(S) /\ Len(f) = n
OBVIOUS

LEMMA DspKeeps ==
    ASSUME GainInv, NEW connected \in SUBSET (0..N - 1), NEW s_n \in HostVectors,
           G!gain_dsp(connected, s_n)
    PROVE  GainInv'
<1> DEFINE n  == Cardinality(connected)
           vs == IF connected = {} THEN 0 ELSE s_n
           bare == [c \in 0..N - 1 |-> G!Garbage]
<1>1. n \in Nat /\ n <= N
  <2>1. IsFiniteSet(0..N - 1) /\ Cardinality(0..N - 1) = N
        BY GainConstants, FS_Interval
  <2>2. IsFiniteSet(connected) /\ Cardinality(connected) <= N
        BY <2>1, FS_Subset
  <2>. QED BY <2>2, FS_CardinalityType
<1>2. vs \in HostVectors \cup {0}
      OBVIOUS
<1>3. PICK channels \in [1..n -> connected] : chain' = channels
      BY SameCardinality DEF G!gain_dsp
<1>4. /\ signalIn' = G!Memory!SetVectorSize(G!Memory!SetNumChannels(signalIn, 2 * n), vs)
      /\ signalOut' = G!LaidOut(signalOut, n, vs)
      /\ signalTemp' = G!LaidOut(signalTemp, n, vs)
      /\ outlet' = outlet /\ overrun' = overrun
      BY SameCardinality DEF G!gain_dsp
<1>5. sample' = [[sample EXCEPT !.temp = bare] EXCEPT !.out = bare]
      BY DEF G!gain_dsp
<1> HIDE DEF n, vs
<1>6. chain' \in Seq(0..N - 1) /\ Len(chain') = n
  <2>1. channels \in [1..n -> 0..N - 1]
        BY <1>3
  <2>. QED BY <1>1, <1>3, <2>1, FunctionIsSeq
<1>7. /\ SignalFor(signalIn', 2 * N) /\ signalIn'.numChannels = 2 * n /\ signalIn'.vectorSize = vs
  <2>1. 2 * N \in Nat /\ 2 * n \in Nat /\ 2 * n <= 2 * N
        BY <1>1, GainConstants
  <2>. QED BY <1>2, <1>4, <2>1, SizedFor DEF GainInv
<1>8. /\ SignalFor(signalOut', N) /\ signalOut'.numChannels = n
      /\ \A c \in 0..N - 1 : signalOut'.sampleVectors[c] = vs
  <2>1. N \in Nat /\ SignalFor(signalOut, N) /\ signalOut' = G!LaidOut(signalOut, n, vs)
        BY <1>4, GainConstants DEF GainInv
  <2>2. G!LaidOut(signalOut, n, vs).numChannels = n /\ SignalFor(G!LaidOut(signalOut, n, vs), N)
        BY <1>1, <1>2, <2>1, LaidOutFor
  <2>3. \A c \in 0..N - 1 : G!LaidOut(signalOut, n, vs).sampleVectors[c] = vs
        BY <1>1, <1>2, <2>1, LaidOutFor
  <2>. QED BY <2>1, <2>2, <2>3
<1>9. /\ SignalFor(signalTemp', N) /\ signalTemp'.numChannels = n
      /\ \A c \in 0..N - 1 : signalTemp'.sampleVectors[c] = vs
  <2>1. N \in Nat /\ SignalFor(signalTemp, N) /\ signalTemp' = G!LaidOut(signalTemp, n, vs)
        BY <1>4, GainConstants DEF GainInv
  <2>2. G!LaidOut(signalTemp, n, vs).numChannels = n /\ SignalFor(G!LaidOut(signalTemp, n, vs), N)
        BY <1>1, <1>2, <2>1, LaidOutFor
  <2>3. \A c \in 0..N - 1 : G!LaidOut(signalTemp, n, vs).sampleVectors[c] = vs
        BY <1>1, <1>2, <2>1, LaidOutFor
  <2>. QED BY <2>1, <2>2, <2>3
<1>10. /\ sample' \in [in : [0..2 * N - 1 -> (0..2 * N - 1) \cup {NULL}],
                       temp : [0..N - 1 -> G!Source], out : [0..N - 1 -> G!Source]]
       /\ \A c \in 0..N - 1 : sample'.temp[c] = G!Garbage /\ sample'.out[c] = G!Garbage
  <2>1. bare \in [0..N - 1 -> G!Source] /\ \A c \in 0..N - 1 : bare[c] = G!Garbage
        BY DEF G!Source
  <2> HIDE DEF bare
  <2>. QED BY <1>5, <2>1 DEF GainInv
<1>11. Sounds(sample.temp)' /\ Sounds(sample.out)'
       BY <1>10 DEF Sounds
<1>. QED BY <1>4, <1>6, <1>7, <1>8, <1>9, <1>10, <1>11 DEF GainInv

LEMMA PerformKeeps ==
    ASSUME GainInv, NEW z_disabled \in BOOLEAN, G!gain_perform(z_disabled)
    PROVE  GainInv'
<1> DEFINE n    == signalOut.numChannels
           vs   == signalIn.vectorSize
           new  == [c \in 0..2 * n - 1 |-> IF c < n THEN chain[c + 1] ELSE N + chain[c - n + 1]]
           in   == G!Over(new, sample.in)
           temp == IF z_disabled \/ signalIn.numChannels # 2 * signalTemp.numChannels THEN sample.temp
                   ELSE G!Over(G!Crossfaded(in, signalTemp.numChannels), sample.temp)
           first == [c \in 0..G!Memory!MinOf(signalTemp.numChannels, n) - 1 |-> temp[c]]
           played == IF z_disabled THEN sample.out ELSE G!Over(first, sample.out)
<1>1. /\ chain # <<>> /\ chain \in Seq(0..N - 1)
      /\ n = Len(chain) /\ signalTemp.numChannels = n /\ n \in Nat /\ n <= N
      /\ N \in Nat \ {0} /\ vs \in Nat
      /\ \A i \in 1..n : i \in DOMAIN chain /\ chain[i] \in 0..N - 1
  <2>1. chain # <<>>
        BY DEF G!gain_perform
  <2>2. vs \in HostVectors \cup {0} /\ n <= N
        BY DEF GainInv, SignalFor, G!Memory!Signal
  <2>3. chain \in Seq(0..N - 1) /\ n = Len(chain) /\ signalTemp.numChannels = n
        BY <2>1 DEF GainInv
  <2> HIDE DEF n, vs
  <2>4. Len(chain) \in Nat /\ \A i \in 1..n : i \in DOMAIN chain /\ chain[i] \in 0..N - 1
        BY <2>3, SeqElements
  <2>. QED BY <2>1, <2>2, <2>3, <2>4, GainConstants
<1>2. /\ signalIn' = G!SetIn(signalIn, vs) /\ chain' = chain
      /\ signalOut' = signalOut /\ signalTemp' = signalTemp
      /\ sample' = [in |-> in, temp |-> temp, out |-> played]
      BY DEF G!gain_perform
<1>3. /\ outlet' = [o \in 0..N - 1 |->
                      IF \E i \in 1..n : chain[i] = o
                      THEN played[(CHOOSE i \in 1..n : chain[i] = o) - 1] ELSE outlet[o]]
      /\ overrun' = overrun \cup (IF G!TooShort(signalIn', vs) THEN {"in"} ELSE {})
                            \cup (IF G!TooShort(signalTemp, vs) THEN {"temp"} ELSE {})
                            \cup (IF G!TooShort(signalOut, vs) THEN {"out"} ELSE {})
      BY DEF G!gain_perform
<1>4. /\ sample.in \in [0..2 * N - 1 -> (0..2 * N - 1) \cup {NULL}]
      /\ sample.temp \in [0..N - 1 -> G!Source] /\ sample.out \in [0..N - 1 -> G!Source]
      /\ Sounds(sample.temp) /\ Sounds(sample.out)
      BY DEF GainInv
<1> HIDE DEF n, vs
<1>5. /\ in \in [0..2 * N - 1 -> (0..2 * N - 1) \cup {NULL}]
      /\ \A c \in 0..n - 1 : in[c] = chain[c + 1] /\ in[n + c] = N + chain[c + 1]
  <2>1. ASSUME NEW c \in 0..2 * n - 1
        PROVE  new[c] \in 0..2 * N - 1
    <3>1. n \in Nat /\ N \in Nat /\ c \in Nat /\ c <= 2 * n - 1
          BY <1>1
    <3>2. \A i \in 1..n : chain[i] \in 0..N - 1
          BY <1>1
    <3>3. CASE c < n
      <4>1. c + 1 \in 1..n /\ new[c] = chain[c + 1]
            BY <3>1, <3>3
      <4> HIDE DEF new
      <4>2. new[c] \in 0..N - 1
            BY <3>2, <4>1
      <4>. QED BY <3>1, <4>2
    <3>4. CASE ~(c < n)
      <4>1. c - n + 1 \in 1..n /\ new[c] = N + chain[c - n + 1]
            BY <3>1, <3>4
      <4> HIDE DEF new
      <4>2. chain[c - n + 1] \in 0..N - 1
            BY <3>2, <4>1
      <4>. QED BY <3>1, <4>1, <4>2
    <3>. QED BY <3>3, <3>4
  <2>2. \A c \in 0..n - 1 : new[c] = chain[c + 1] /\ new[n + c] = N + chain[c + 1]
        BY <1>1, SMTT(60)
  <2>3. DOMAIN new = 0..2 * n - 1
        OBVIOUS
  <2> HIDE DEF new
  <2>4. \A c \in 0..2 * N - 1 : in[c] = IF c \in 0..2 * n - 1 THEN new[c] ELSE sample.in[c]
        BY <1>4, <2>3 DEF G!Over
  <2>5. in = [c \in 0..2 * N - 1 |-> IF c \in 0..2 * n - 1 THEN new[c] ELSE sample.in[c]]
        BY <1>4, <2>3 DEF G!Over
  <2> HIDE DEF in
  <2>6. in \in [0..2 * N - 1 -> (0..2 * N - 1) \cup {NULL}]
        BY <1>4, <2>1, <2>5
  <2>7. \A c \in 0..n - 1 : c \in 0..2 * N - 1 /\ n + c \in 0..2 * N - 1 /\ c \in 0..2 * n - 1 /\ n + c \in 0..2 * n - 1
        BY <1>1, SMTT(30)
  <2>. QED BY <2>2, <2>4, <2>6, <2>7
<1> HIDE DEF in
<1>6. temp \in [0..N - 1 -> G!Source] /\ Sounds(temp)
  <2> DEFINE cross == G!Crossfaded(in, n)
  <2>1. ASSUME NEW c \in 0..n - 1
        PROVE  cross[c] = Own(chain[c + 1]) /\ cross[c] \in G!Source
    <3>1. cross[c] = Own(chain[c + 1])
          BY <1>5 DEF G!Crossfaded, Own
    <3>2. c + 1 \in 1..n
          BY <1>1
    <3>. QED BY <1>1, <3>1, <3>2, OwnIsSource
  <2>2. DOMAIN cross = 0..n - 1
        BY DEF G!Crossfaded
  <2> HIDE DEF cross
  <2>3. G!Over(cross, sample.temp) = [c \in 0..N - 1 |-> IF c \in 0..n - 1 THEN cross[c] ELSE sample.temp[c]]
        BY <1>4, <2>2 DEF G!Over
  <2>4. G!Over(cross, sample.temp) \in [0..N - 1 -> G!Source]
        BY <1>4, <2>1, <2>3
  <2>5. Sounds(G!Over(cross, sample.temp))
    <3>1. \A c \in 0..n - 1 : c + 1 \in DOMAIN chain
          BY <1>1
    <3>. QED BY <1>4, <2>1, <2>3, <3>1 DEF Sounds
  <2>. QED BY <1>1, <1>4, <2>4, <2>5 DEF cross
<1> HIDE DEF temp
<1>7. played \in [0..N - 1 -> G!Source] /\ Sounds(played)
  <2>1. first = [c \in 0..n - 1 |-> temp[c]]
        BY <1>1 DEF G!Memory!MinOf
  <2> HIDE DEF first
  <2>2. G!Over(first, sample.out) = [c \in 0..N - 1 |-> IF c \in 0..n - 1 THEN temp[c] ELSE sample.out[c]]
        BY <1>4, <2>1 DEF G!Over
  <2>3. G!Over(first, sample.out) \in [0..N - 1 -> G!Source]
        BY <1>4, <1>6, <2>2
  <2>4. Sounds(G!Over(first, sample.out))
        BY <1>4, <1>6, <2>2 DEF Sounds
  <2>. QED BY <1>4, <2>3, <2>4
<1> HIDE DEF played
<1>8. ASSUME NEW o \in 0..N - 1
      PROVE  outlet'[o] \in {G!Garbage, Own(o)} /\ outlet'[o] \in G!Source
  <2>1. CASE \E i \in 1..n : chain[i] = o
    <3>1. PICK i \in 1..n : chain[i] = o /\ outlet'[o] = played[i - 1]
          BY <1>3, <2>1
    <3>2. i - 1 \in 0..N - 1 /\ i - 1 + 1 = i
          BY <1>1
    <3>3. played[i - 1] = G!Garbage \/ played[i - 1] = Own(chain[i])
          BY <1>7, <3>2 DEF Sounds
    <3>. QED BY <1>7, <3>1, <3>2, <3>3
  <2>2. CASE ~ \E i \in 1..n : chain[i] = o
        BY <1>3, <2>2 DEF GainInv
  <2>. QED BY <2>1, <2>2
<1>9. overrun' \subseteq {"in"}
  <2>1. /\ signalTemp.numChannels <= N /\ signalOut.numChannels <= N
        /\ \A c \in 0..N - 1 : signalTemp.sampleVectors[c] = vs /\ signalOut.sampleVectors[c] = vs
        BY <1>1 DEF GainInv, SignalFor, vs
  <2>2. \A c \in 0..n - 1 : c \in 0..N - 1
        BY <1>1
  <2>3. signalTemp.numChannels = n /\ signalOut.numChannels = n
        BY <1>1 DEF n
  <2>4. ~G!TooShort(signalTemp, vs) /\ ~G!TooShort(signalOut, vs)
        BY <1>1, <2>1, <2>2, <2>3, SMTT(60) DEF G!TooShort
  <2>. QED BY <1>3, <2>4 DEF GainInv
<1>10. SignalFor(signalIn', 2 * N) /\ signalIn'.numChannels = signalIn.numChannels /\ signalIn'.vectorSize = vs
  <2>1. 2 * N \in Nat /\ SignalFor(signalIn, 2 * N)
        BY GainConstants DEF GainInv
  <2>2. vs = signalIn.vectorSize
        BY DEF vs
  <2>. QED BY <1>2, <2>1, <2>2, SetInFor
<1>11. Sounds(sample.temp)' /\ Sounds(sample.out)'
  <2>1. sample'.temp = temp /\ sample'.out = played
        BY <1>2
  <2>. QED BY <1>2, <1>6, <1>7, <2>1 DEF Sounds
<1>12. sample' \in [in : [0..2 * N - 1 -> (0..2 * N - 1) \cup {NULL}],
                    temp : [0..N - 1 -> G!Source], out : [0..N - 1 -> G!Source]]
       BY <1>2, <1>5, <1>6, <1>7
<1>13. outlet' \in [0..N - 1 -> G!Source]
       BY <1>3, <1>8
<1>14. \A o \in 0..N - 1 : outlet'[o] \in {G!Garbage, Own(o)}
       BY <1>8
<1>15. vs = signalIn.vectorSize
       BY DEF vs
<1>. QED BY <1>1, <1>2, <1>9, <1>10, <1>11, <1>12, <1>13, <1>14, <1>15 DEF GainInv

LEMMA GainStep ==
    ASSUME GainInv, [G!Next]_gainVars
    PROVE  GainInv'
<1>1. CASE UNCHANGED gainVars
  <2>1. Sounds(sample.temp)' /\ Sounds(sample.out)'
        BY <1>1 DEF gainVars, GainInv, Sounds
  <2>. QED BY <1>1, <2>1 DEF gainVars, GainInv
<1>. QED BY <1>1, DspKeeps, PerformKeeps DEF G!Next

LEMMA GainAlways == Spec => []GainInv
<1>1. Init => GainInv
      BY GainInit DEF Init
<1>2. GainInv /\ [Next]_vars => GainInv'
      BY GainStep, UnitSteps
<1>. QED BY <1>1, <1>2, PTL DEF Spec

LEMMA GainTypes == ASSUME GainInv PROVE G!TypeOK
BY DEF GainInv, SignalFor, G!TypeOK

(* OwnSoundAtOutlet: an outlet of jcom.gain~ never carries the sound of    *)
(* another channel, for any number of them, however they are connected.    *)
THEOREM OutletsKeepTheirSounds == Spec => []OwnSoundAtOutlet
<1>1. ASSUME GainInv PROVE OwnSoundAtOutlet
  <2>1. \A o \in 0..N - 1 : Own(o).a = o /\ Own(o).b = N + o
        BY DEF Own
  <2>. QED BY <1>1, <2>1 DEF GainInv, OwnSoundAtOutlet, G!OwnSoundAtOutlet
<1>. QED BY <1>1, GainAlways, PTL

(* OutputsFit: the vectors the units of jcom.gain~ write to have the room, *)
(* for every sequence of vector sizes of the host.                         *)
THEOREM OutputsAlwaysFit == Spec => []OutputsFit
<1>1. GainInv => OutputsFit
      BY DEF GainInv, OutputsFit, G!OutputsFit
<1>. QED BY <1>1, GainAlways, PTL
=============================================================================
