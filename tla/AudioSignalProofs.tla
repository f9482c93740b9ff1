-------------------------- MODULE AudioSignalProofs --------------------------
(***************************************************************************)
(* That a TTAudioSignal frees exactly what it malloc'ed, for any number of *)
(* channels, any vector sizes and any sequence of calls.                   *)
(*                                                                         *)
(* The invariants of AudioSignal are inductive together: that nothing is   *)
(* freed wrongly needs that the owned vectors are live and distinct, which *)
(* needs that a signal which does not own its vectors has no live block.   *)
(***************************************************************************)
EXTENDS AudioSignal, TLAPS

(* What every step keeps.                                                  *)
IInv == /\ TypeOK
        /\ OwnsItsVectors
        /\ NoBadFree
        /\ NoDanglingVector
        /\ UniformVectors

(* The shape of a signal's value, field by field.                          *)
WellFormed(s) ==
    /\ s \in Signal
    /\ DOMAIN s.sampleVectors = Channels(s)

----------------------------------------------------------------------------
(* A signal is a record of six typed fields.                               *)
LEMMA SignalFields ==
    ASSUME NEW s, WellFormed(s)
    PROVE  /\ s.isLocallyOwned \in BOOLEAN
           /\ s.maxNumChannels \in 0..MaxChannels
           /\ s.maxNumChannels \in Nat
           /\ s.vectorSize \in VectorSizes \cup {0}
           /\ s.numChannels \in 0..MaxChannels
           /\ s.bitdepth \in {0, 32, 64}
           /\ s.sampleVectors \in [Channels(s) -> Pointer]
           /\ s = [ isLocallyOwned |-> s.isLocallyOwned,
                    maxNumChannels |-> s.maxNumChannels,
                    vectorSize     |-> s.vectorSize,
                    numChannels    |-> s.numChannels,
                    bitdepth       |-> s.bitdepth,
                    sampleVectors  |-> s.sampleVectors ]
<1>1. /\ s.isLocallyOwned \in BOOLEAN
      /\ s.maxNumChannels \in 0..MaxChannels
      /\ s.vectorSize \in VectorSizes \cup {0}
      /\ s.numChannels \in 0..MaxChannels
      /\ s.bitdepth \in {0, 32, 64}
  BY DEF WellFormed, Signal
<1>2. s.maxNumChannels \in Nat
  BY <1>1, ChannelsAssumption
<1>3. s.sampleVectors \in [Channels(s) -> Pointer]
  <2>1. s.sampleVectors \in UNION { [ChannelsUpTo(n) -> Pointer] : n \in 0..MaxChannels }
    BY DEF WellFormed, Signal
  <2>2. PICK n \in 0..MaxChannels : s.sampleVectors \in [ChannelsUpTo(n) -> Pointer]
    BY <2>1
  <2>3. ChannelsUpTo(n) = Channels(s)
    BY <2>2 DEF WellFormed
  <2> QED  BY <2>2, <2>3
<1>4. s = [ isLocallyOwned |-> s.isLocallyOwned,
            maxNumChannels |-> s.maxNumChannels,
            vectorSize     |-> s.vectorSize,
            numChannels    |-> s.numChannels,
            bitdepth       |-> s.bitdepth,
            sampleVectors  |-> s.sampleVectors ]
  BY DEF WellFormed, Signal
<1> QED  BY <1>1, <1>2, <1>3, <1>4

(* An array of NULLs is an array of pointers.                              *)
LEMMA NullVectorsType ==
    ASSUME NEW n \in Nat
    PROVE  /\ NullVectors(n) \in [ChannelsUpTo(n) -> Pointer]
           /\ \A c \in ChannelsUpTo(n) : NullVectors(n)[c] = NULL
  BY DEF NullVectors, Pointer

----------------------------------------------------------------------------
(* A signal whose vectors are its own, live and distinct, frees nothing    *)
(* wrongly, and afterwards no block of it is live.                         *)
LEMMA FreeIsExact ==
    ASSUME IInv
    PROVE  /\ ~FreesWrongly
           /\ DOMAIN HeapAfterFree = {}
<1>1. ~FreesWrongly
  BY DEF IInv, OwnsItsVectors, FreesWrongly
<1>2. NULL \notin DOMAIN heap
  BY PointersAssumption DEF IInv, TypeOK
<1>3. Freed = DOMAIN heap
  BY <1>2 DEF Freed, IInv, OwnsItsVectors
<1> QED  BY <1>1, <1>3 DEF HeapAfterFree

(* Allocating into any well-formed signal leaves it owner of live vectors. *)
LEMMA AllocKeeps ==
    ASSUME IInv, NEW s, WellFormed(s), AllocInto(s), alive' \in BOOLEAN
    PROVE  IInv'
<1>1. PICK new \in FreshVectors(s.maxNumChannels) :
        /\ signal' = Allocated(s, new)
        /\ heap' = HeapAfterAlloc(new, s.vectorSize)
        /\ badFree' = (badFree \/ FreesWrongly)
  BY DEF AllocInto
<1>s. /\ s.maxNumChannels \in Nat
      /\ s.maxNumChannels \in 0..MaxChannels
      /\ s.vectorSize \in VectorSizes \cup {0}
      /\ s.numChannels \in 0..MaxChannels
      /\ s.bitdepth \in {0, 32, 64}
      /\ s = [ isLocallyOwned |-> s.isLocallyOwned,
               maxNumChannels |-> s.maxNumChannels,
               vectorSize     |-> s.vectorSize,
               numChannels    |-> s.numChannels,
               bitdepth       |-> s.bitdepth,
               sampleVectors  |-> s.sampleVectors ]
  BY SignalFields
<1> DEFINE max == s.maxNumChannels
<1>2. /\ new \in [ChannelsUpTo(max) -> Block]
      /\ \A c, d \in ChannelsUpTo(max) : new[c] = new[d] => c = d
  BY FreeIsExact DEF FreshVectors
<1>3. signal' = [ isLocallyOwned |-> max > 0,
                  maxNumChannels |-> max,
                  vectorSize     |-> s.vectorSize,
                  numChannels    |-> s.numChannels,
                  bitdepth       |-> s.bitdepth,
                  sampleVectors  |-> new ]
  BY <1>1, <1>s DEF Allocated
<1>4. WellFormed(signal')
  <2>1. new \in [ChannelsUpTo(max) -> Pointer]
    BY <1>2 DEF Pointer
  <2>2. new \in UNION { [ChannelsUpTo(n) -> Pointer] : n \in 0..MaxChannels }
    BY <1>s, <2>1
  <2>3. signal' \in Signal
    BY <1>3, <1>s, <2>2 DEF Signal
  <2>4. DOMAIN signal'.sampleVectors = Channels(signal')
    BY <1>3, <2>1 DEF Channels
  <2> QED  BY <2>3, <2>4 DEF WellFormed
<1>5. /\ DOMAIN heap' = { new[c] : c \in ChannelsUpTo(max) }
      /\ \A b \in DOMAIN heap' : heap'[b] = s.vectorSize
  BY <1>1, <1>2, FreeIsExact DEF HeapAfterAlloc
<1>6. ~badFree'
  BY <1>1, FreeIsExact DEF IInv, NoBadFree
<1>7. TypeOK'
  <2>1. DOMAIN heap' \subseteq Block
    BY <1>2, <1>5
  <2>2. s.vectorSize \in VectorSizes \cup {0}
    BY SignalFields
  <2>3. badFree' \in BOOLEAN
    BY <1>1, Zenon
  <2>4. \A b \in DOMAIN heap' : heap'[b] \in VectorSizes \cup {0}
    BY <1>5, <2>2
  <2> QED  BY <1>4, <2>1, <2>3, <2>4, Zenon DEF TypeOK, WellFormed
<1>8. OwnsItsVectors'
  <2>1. CASE max > 0
    <3>1. /\ signal'.isLocallyOwned
          /\ Channels(signal') = ChannelsUpTo(max)
          /\ signal'.sampleVectors = new
      BY <1>3, <2>1 DEF Channels
    <3> QED  BY <1>2, <1>5, <3>1 DEF OwnsItsVectors
  <2>2. CASE ~(max > 0)
    <3>1. ChannelsUpTo(max) = {}
      BY <2>2, <1>s DEF ChannelsUpTo
    <3>2. ~signal'.isLocallyOwned
      BY <1>3, <2>2
    <3> QED  BY <1>5, <3>1, <3>2 DEF OwnsItsVectors
  <2> QED  BY <2>1, <2>2
<1>9. NoDanglingVector'
  <2>1. SUFFICES ASSUME ~signal'.isLocallyOwned
                 PROVE  Channels(signal') = {}
    BY DEF NoDanglingVector
  <2>2. ~(max > 0)
    BY <1>3, <2>1
  <2> QED  BY <1>3, <2>2, <1>s DEF Channels, ChannelsUpTo
<1>10. UniformVectors'
  BY <1>5 DEF UniformVectors
<1> QED  BY <1>6, <1>7, <1>8, <1>9, <1>10 DEF IInv, NoBadFree

(* Giving everything up leaves a signal without live blocks, and sound as  *)
(* long as what it points to is not on the heap.                           *)
LEMMA FreeKeeps ==
    ASSUME IInv, FreeOnly, WellFormed(signal'), alive' \in BOOLEAN,
           ~signal'.isLocallyOwned,
           \A c \in Channels(signal') : signal'.sampleVectors[c] \in HostVector \cup {NULL}
    PROVE  IInv'
<1>1. DOMAIN heap' = {} /\ ~badFree'
  BY FreeIsExact DEF FreeOnly, IInv, NoBadFree
<1>2. TypeOK'
  <2>1. badFree' \in BOOLEAN
    BY Zenon DEF FreeOnly
  <2>2. /\ DOMAIN heap' \subseteq Block
        /\ \A b \in DOMAIN heap' : heap'[b] \in VectorSizes \cup {0}
    BY <1>1
  <2> QED  BY <2>1, <2>2, Zenon DEF TypeOK, WellFormed
<1> QED  BY <1>1, <1>2 DEF IInv, NoBadFree, OwnsItsVectors, NoDanglingVector, UniformVectors

(* A change to anything but the vectors.                                   *)
LEMMA KeepKeeps ==
    ASSUME IInv, KeepMemory, WellFormed(signal'), UNCHANGED alive,
           signal'.isLocallyOwned = signal.isLocallyOwned,
           signal'.maxNumChannels = signal.maxNumChannels,
           signal'.sampleVectors = signal.sampleVectors
    PROVE  IInv'
<1>1. Channels(signal') = Channels(signal)
  BY DEF Channels
<1>2. TypeOK'
  BY DEF IInv, TypeOK, WellFormed, KeepMemory
<1> QED
  BY <1>1, <1>2 DEF IInv, KeepMemory, NoBadFree, OwnsItsVectors, NoDanglingVector, UniformVectors

----------------------------------------------------------------------------
LEMMA InitKeeps == Init => IInv
<1> SUFFICES ASSUME Init PROVE IInv
  OBVIOUS
<1>1. PICK n \in 0..MaxChannels : signal = Constructed(n)
  BY DEF Init
<1>2. /\ DOMAIN heap = {}
      /\ ~badFree
      /\ badFree \in BOOLEAN
      /\ alive \in BOOLEAN
  BY DEF Init
<1> DEFINE max == MaxOf(n, 1)
<1>3. /\ max \in 0..MaxChannels
      /\ max \in Nat
      /\ MinOf(n, max) \in 0..MaxChannels
  BY ChannelsAssumption DEF MaxOf, MinOf
<1> HIDE DEF max
<1>4. /\ ~signal.isLocallyOwned
      /\ Channels(signal) = ChannelsUpTo(max)
      /\ signal.sampleVectors = NullVectors(max)
  BY <1>1 DEF Constructed, Channels, max
<1>5. NullVectors(max) \in UNION { [ChannelsUpTo(m) -> Pointer] : m \in 0..MaxChannels }
  BY <1>3, NullVectorsType
<1>6. signal \in Signal
  BY <1>1, <1>3, <1>5 DEF Constructed, Signal, max
<1>7. TypeOK
  BY <1>2, <1>3, <1>4, <1>6, NullVectorsType DEF TypeOK
<1> QED
  BY <1>2, <1>3, <1>4, <1>7, NullVectorsType
  DEF IInv, OwnsItsVectors, NoBadFree, NoDanglingVector, UniformVectors

(* A signal resized to max channels is well formed and points to nothing.  *)
LEMMA ResizedType ==
    ASSUME NEW s, WellFormed(s), NEW max \in 0..MaxChannels
    PROVE  /\ WellFormed(Resized(s, max))
           /\ Resized(s, max).isLocallyOwned = FALSE
           /\ Channels(Resized(s, max)) = ChannelsUpTo(max)
           /\ \A c \in ChannelsUpTo(max) : Resized(s, max).sampleVectors[c] = NULL
<1> DEFINE r == Resized(s, max)
<1>1. max \in Nat
  BY ChannelsAssumption
<1>2. NullVectors(max) \in UNION { [ChannelsUpTo(m) -> Pointer] : m \in 0..MaxChannels }
  BY <1>1, NullVectorsType
<1>3. NullVectors(0) \in UNION { [ChannelsUpTo(m) -> Pointer] : m \in 0..MaxChannels }
  BY NullVectorsType, ChannelsAssumption
<1>4. Chucked(s) \in Signal
  <2>1. 0 \in 0..MaxChannels /\ FALSE \in BOOLEAN
    BY ChannelsAssumption
  <2>2. s \in Signal
    BY DEF WellFormed
  <2> QED  BY <1>3, <2>1, <2>2 DEF Signal, Chucked
<1>5. r \in Signal
  BY <1>2, <1>4 DEF Signal, Resized
<1>6. /\ r.isLocallyOwned = FALSE
      /\ r.maxNumChannels = max
      /\ r.sampleVectors = NullVectors(max)
  <2>1. Chucked(s).isLocallyOwned = FALSE
    BY DEF WellFormed, Signal, Chucked
  <2> QED  BY <1>4, <2>1 DEF Signal, Resized
<1> QED  BY <1>1, <1>5, <1>6, NullVectorsType DEF WellFormed, Channels

(* setMaxNumChannels() keeps the invariant, growing or shrinking.          *)
LEMMA SetMaxNumChannelsKeeps ==
    ASSUME IInv, NEW n \in 0..MaxChannels, setMaxNumChannels(n)
    PROVE  IInv'
<1> DEFINE max == MaxOf(n, 1)
<1>1. max \in 0..MaxChannels
  BY ChannelsAssumption DEF MaxOf
<1>2. WellFormed(signal) /\ alive' \in BOOLEAN
  BY Zenon DEF IInv, TypeOK, WellFormed, setMaxNumChannels
<1> HIDE DEF max
<1>3. CASE signal.isLocallyOwned
  <2>1. AllocInto(Resized(signal, max))
    BY <1>3 DEF setMaxNumChannels, max
  <2> QED  BY <1>1, <1>2, <2>1, ResizedType, AllocKeeps
<1>4. CASE ~signal.isLocallyOwned
  <2>1. signal' = Resized(signal, max) /\ FreeOnly
    BY <1>4 DEF setMaxNumChannels, max
  <2>2. /\ WellFormed(signal')
        /\ ~signal'.isLocallyOwned
        /\ \A c \in Channels(signal') : signal'.sampleVectors[c] = NULL
    BY <1>1, <1>2, <2>1, ResizedType
  <2> QED  BY <1>2, <2>1, <2>2, FreeKeeps
<1> QED  BY <1>3, <1>4

(* The attribute writes that leave the vectors alone.                      *)
LEMMA AttributesKeep ==
    ASSUME IInv,
           \/ \E n \in 0..MaxChannels : setNumChannels(n)
           \/ \E vs \in VectorSizes : setVectorSize(vs)
    PROVE  IInv'
<1>1. WellFormed(signal) /\ alive \in BOOLEAN
  BY DEF IInv, TypeOK, WellFormed
<1>s. /\ signal = [ isLocallyOwned |-> signal.isLocallyOwned,
                    maxNumChannels |-> signal.maxNumChannels,
                    vectorSize     |-> signal.vectorSize,
                    numChannels    |-> signal.numChannels,
                    bitdepth       |-> signal.bitdepth,
                    sampleVectors  |-> signal.sampleVectors ]
      /\ signal.maxNumChannels \in 0..MaxChannels
      /\ signal.numChannels \in 0..MaxChannels
  BY <1>1, SignalFields
<1>2. CASE \E n \in 0..MaxChannels : setNumChannels(n)
  <2>1. PICK n \in 0..MaxChannels : setNumChannels(n)
    BY <1>2
  <2> DEFINE num == MinOf(n, signal.maxNumChannels)
  <2>2. num \in 0..MaxChannels
    BY <1>s DEF MinOf
  <2>3. signal' = [signal EXCEPT !.numChannels = num]
    BY <2>1 DEF setNumChannels, SetNumChannels
  <2> HIDE DEF num
  <2>4. WellFormed(signal')
    BY <1>1, <2>2, <2>3 DEF WellFormed, Signal, Channels
  <2>5. /\ signal'.isLocallyOwned = signal.isLocallyOwned
        /\ signal'.maxNumChannels = signal.maxNumChannels
        /\ signal'.sampleVectors = signal.sampleVectors
    BY <1>s, <2>3
  <2> QED  BY <2>1, <2>4, <2>5, KeepKeeps DEF setNumChannels
<1>3. CASE \E vs \in VectorSizes : setVectorSize(vs)
  <2>1. PICK vs \in VectorSizes : setVectorSize(vs)
    BY <1>3
  <2>2. signal' = [signal EXCEPT !.vectorSize = vs]
    BY <2>1 DEF setVectorSize, SetVectorSize
  <2>3. WellFormed(signal')
    BY <1>1, <2>2 DEF WellFormed, Signal, Channels
  <2>4. /\ signal'.isLocallyOwned = signal.isLocallyOwned
        /\ signal'.maxNumChannels = signal.maxNumChannels
        /\ signal'.sampleVectors = signal.sampleVectors
    BY <1>s, <2>2
  <2> QED  BY <2>1, <2>3, <2>4, KeepKeeps DEF setVectorSize
<1> QED  BY <1>2, <1>3

(* setVector() with the host's vector: nothing owned, nothing dangling.    *)
LEMMA SetVector64Keeps ==
    ASSUME IInv, NEW vs \in VectorSizes, NEW channel \in Channels(signal),
           NEW vector \in HostVector, setVector64(channel, vs, vector)
    PROVE  IInv'
<1>1. WellFormed(signal) /\ alive' \in BOOLEAN
  BY Zenon DEF IInv, TypeOK, WellFormed, setVector64
<1>s. /\ signal = [ isLocallyOwned |-> signal.isLocallyOwned,
                    maxNumChannels |-> signal.maxNumChannels,
                    vectorSize     |-> signal.vectorSize,
                    numChannels    |-> signal.numChannels,
                    bitdepth       |-> signal.bitdepth,
                    sampleVectors  |-> signal.sampleVectors ]
      /\ signal.maxNumChannels \in 0..MaxChannels
      /\ signal.maxNumChannels \in Nat
      /\ signal.numChannels \in 0..MaxChannels
      /\ signal.sampleVectors \in [Channels(signal) -> Pointer]
  BY <1>1, SignalFields
<1> DEFINE max  == signal.maxNumChannels
           kept == IF signal.isLocallyOwned THEN NullVectors(max) ELSE signal.sampleVectors
           now  == [kept EXCEPT ![channel] = vector]
<1>2. /\ kept \in [ChannelsUpTo(max) -> Pointer]
      /\ \A c \in ChannelsUpTo(max) : kept[c] \in HostVector \cup {NULL}
  <2>1. CASE signal.isLocallyOwned
    BY <2>1, <1>s, NullVectorsType
  <2>2. CASE ~signal.isLocallyOwned
    BY <2>2, <1>s DEF Channels, IInv, NoDanglingVector
  <2> QED  BY <2>1, <2>2
<1>3. signal' = [ isLocallyOwned |-> FALSE,
                  maxNumChannels |-> max,
                  vectorSize     |-> vs,
                  numChannels    |-> signal.numChannels,
                  bitdepth       |-> 64,
                  sampleVectors  |-> now ]
  BY <1>s DEF setVector64, References
<1> HIDE DEF kept
<1>4. /\ now \in [ChannelsUpTo(max) -> Pointer]
      /\ \A c \in ChannelsUpTo(max) : now[c] \in HostVector \cup {NULL}
  BY <1>2 DEF Channels, Pointer
<1> HIDE DEF now
<1>5. /\ ~signal'.isLocallyOwned
      /\ Channels(signal') = ChannelsUpTo(max)
      /\ signal'.sampleVectors = now
  BY <1>3 DEF Channels
<1>6. WellFormed(signal')
  <2>1. now \in UNION { [ChannelsUpTo(n) -> Pointer] : n \in 0..MaxChannels }
    BY <1>4, <1>s
  <2>2. signal' \in Signal
    BY <1>3, <1>s, <2>1 DEF Signal
  <2> QED  BY <2>2, <1>4, <1>5 DEF WellFormed
<1>7. FreeOnly
  BY DEF setVector64
<1> QED  BY <1>1, <1>4, <1>5, <1>6, <1>7, FreeKeeps

(* The calls that allocate at a vector size: setVector() with 32-bit       *)
(* samples, alloc and allocWithVectorSize().                               *)
LEMMA AllocatingCallsKeep ==
    ASSUME IInv,
           \/ \E vs \in VectorSizes, c \in Channels(signal) : setVector32(c, vs)
           \/ \E vs \in VectorSizes : allocWithVectorSize(vs)
           \/ alloc
    PROVE  IInv'
<1>1. WellFormed(signal) /\ alive \in BOOLEAN
  BY DEF IInv, TypeOK, WellFormed
<1>2. CASE \E vs \in VectorSizes, c \in Channels(signal) : setVector32(c, vs)
  <2>1. PICK vs \in VectorSizes, c \in Channels(signal) : setVector32(c, vs)
    BY <1>2
  <2>2. alive' \in BOOLEAN
    BY <1>1, <2>1, Zenon DEF setVector32
  <2>3. CASE NeedsAlloc32(signal, vs)
    <3>1. AllocInto(Prepared32(signal, vs))
      BY <2>1, <2>3 DEF setVector32
    <3>2. WellFormed(Prepared32(signal, vs))
      BY <1>1 DEF WellFormed, Signal, Channels, Prepared32
    <3> QED  BY <2>2, <3>1, <3>2, AllocKeeps
  <2>4. CASE ~NeedsAlloc32(signal, vs)
    BY <1>1, <2>1, <2>4, KeepKeeps DEF setVector32
  <2> QED  BY <2>3, <2>4
<1>3. CASE \E vs \in VectorSizes : allocWithVectorSize(vs)
  <2>1. PICK vs \in VectorSizes : allocWithVectorSize(vs)
    BY <1>3
  <2>2. alive' \in BOOLEAN
    BY <1>1, <2>1, Zenon DEF allocWithVectorSize
  <2>3. WellFormed(SetVectorSize(signal, vs))
    BY <1>1 DEF WellFormed, Signal, Channels, SetVectorSize
  <2> QED  BY <2>1, <2>2, <2>3, AllocKeeps DEF allocWithVectorSize
<1>4. CASE alloc
  <2>1. alive' \in BOOLEAN
    BY <1>1, <1>4, Zenon DEF alloc
  <2> QED  BY <1>1, <1>4, <2>1, AllocKeeps DEF alloc
<1> QED  BY <1>2, <1>3, <1>4

(* operator=(): the vectors are allocated again if they were our own, and  *)
(* those of the host survive unless the array had to grow.                 *)
LEMMA AssignKeeps ==
    ASSUME IInv, NEW m \in 1..MaxChannels, NEW n \in 0..MaxChannels,
           NEW vs \in VectorSizes, assign(m, n, vs)
    PROVE  IInv'
<1>1. WellFormed(signal) /\ alive' \in BOOLEAN
  BY Zenon DEF IInv, TypeOK, WellFormed, assign
<1> DEFINE grown  == IF m > signal.maxNumChannels THEN Resized(signal, m) ELSE signal
           shaped == [grown EXCEPT !.numChannels = n, !.vectorSize = vs]
<1>2. m \in 0..MaxChannels
  BY ChannelsAssumption
<1>3. /\ WellFormed(grown)
      /\ ~signal.isLocallyOwned =>
           /\ ~grown.isLocallyOwned
           /\ \A c \in Channels(grown) : grown.sampleVectors[c] \in HostVector \cup {NULL}
  <2>1. CASE m > signal.maxNumChannels
    <3>1. grown = Resized(signal, m)
      BY <2>1
    <3>2. /\ WellFormed(Resized(signal, m))
          /\ ~Resized(signal, m).isLocallyOwned
          /\ \A c \in Channels(Resized(signal, m)) : Resized(signal, m).sampleVectors[c] = NULL
      BY <1>1, <1>2, ResizedType
    <3> HIDE DEF grown
    <3> QED  BY <3>1, <3>2
  <2>2. CASE ~(m > signal.maxNumChannels)
    <3>1. grown = signal
      BY <2>2
    <3> QED  BY <1>1, <3>1 DEF IInv, NoDanglingVector
  <2> QED  BY <2>1, <2>2
<1> HIDE DEF grown
<1>4. /\ WellFormed(shaped)
      /\ shaped.isLocallyOwned = grown.isLocallyOwned
      /\ shaped.sampleVectors = grown.sampleVectors
      /\ Channels(shaped) = Channels(grown)
  BY <1>3 DEF WellFormed, Signal, Channels
<1>5. CASE signal.isLocallyOwned
  <2>1. AllocInto(shaped)
    BY <1>5 DEF assign, grown
  <2> HIDE DEF shaped
  <2> QED  BY <1>1, <1>4, <2>1, AllocKeeps
<1>6. CASE ~signal.isLocallyOwned
  <2>1. signal' = shaped /\ FreeOnly
    BY <1>6 DEF assign, grown
  <2> HIDE DEF shaped
  <2>2. /\ WellFormed(signal')
        /\ ~signal'.isLocallyOwned
        /\ \A c \in Channels(signal') : signal'.sampleVectors[c] \in HostVector \cup {NULL}
    BY <1>3, <1>4, <1>6, <2>1
  <2> QED  BY <1>1, <2>1, <2>2, FreeKeeps
<1> QED  BY <1>5, <1>6

(* The destructor leaves no channel and no block.                          *)
LEMMA DestroyKeeps ==
    ASSUME IInv, destroy
    PROVE  IInv'
<1>1. /\ alive' \in BOOLEAN
      /\ FreeOnly
  BY Zenon DEF destroy
<1>2. signal \in Signal
  BY DEF IInv, TypeOK
<1>3. NullVectors(0) \in UNION { [ChannelsUpTo(k) -> Pointer] : k \in 0..MaxChannels }
  BY NullVectorsType, ChannelsAssumption
<1>4. 0 \in 0..MaxChannels /\ FALSE \in BOOLEAN
  BY ChannelsAssumption
<1>5. Chucked(signal) \in Signal
  BY <1>2, <1>3, <1>4 DEF Signal, Chucked
<1>6. /\ Chucked(signal).isLocallyOwned = FALSE
      /\ Chucked(signal).maxNumChannels = 0
      /\ Chucked(signal).sampleVectors = NullVectors(0)
  BY <1>2 DEF Signal, Chucked
<1>7. signal' = Chucked(signal)
  BY DEF destroy
<1>8. Channels(signal') = {}
  BY <1>6, <1>7 DEF Channels, ChannelsUpTo
<1>9. WellFormed(signal') /\ ~signal'.isLocallyOwned
  <2>1. DOMAIN NullVectors(0) = ChannelsUpTo(0)
    BY DEF NullVectors
  <2>2. DOMAIN signal'.sampleVectors = Channels(signal')
    BY <1>6, <1>7, <2>1 DEF Channels
  <2> QED  BY <1>5, <1>6, <1>7, <2>2 DEF WellFormed
<1> QED  BY <1>1, <1>8, <1>9, FreeKeeps

(* Every step of the specification, stuttering included.                   *)
LEMMA StepKeeps == IInv /\ [Next]_vars => IInv'
<1> SUFFICES ASSUME IInv, [Next]_vars PROVE IInv'
  OBVIOUS
<1>1. CASE \E n \in 0..MaxChannels : setMaxNumChannels(n)
  BY <1>1, SetMaxNumChannelsKeeps
<1>2. CASE \/ \E n \in 0..MaxChannels : setNumChannels(n)
           \/ \E vs \in VectorSizes : setVectorSize(vs)
  BY <1>2, AttributesKeep
<1>3. CASE \E vs \in VectorSizes, c \in Channels(signal), v \in HostVector :
             setVector64(c, vs, v)
  BY <1>3, SetVector64Keeps
<1>4. CASE \/ \E vs \in VectorSizes, c \in Channels(signal) : setVector32(c, vs)
           \/ \E vs \in VectorSizes : allocWithVectorSize(vs)
           \/ alloc
  BY <1>4, AllocatingCallsKeep
<1>5. CASE \E vs \in VectorSizes, m \in 1..MaxChannels, n \in 0..MaxChannels : assign(m, n, vs)
  BY <1>5, AssignKeeps
<1>6. CASE destroy
  BY <1>6, DestroyKeeps
<1>7. CASE UNCHANGED vars
  BY <1>7 DEF vars, IInv, TypeOK, OwnsItsVectors, NoBadFree, NoDanglingVector, UniformVectors,
              Channels
<1> QED
  BY <1>1, <1>2, <1>3, <1>4, <1>5, <1>6, <1>7 DEF Next

----------------------------------------------------------------------------
(* The conjunction of the invariants, for every number of channels, every  *)
(* set of vector sizes and every supply of addresses.                      *)
THEOREM Invariance == Spec => []IInv
BY InitKeeps, StepKeeps, PTL DEF Spec

(* The state of a TTAudioSignal keeps its shape: in particular the pointer *)
(* array always has mMaxNumChannels elements.                              *)
THEOREM SignalTypeOK == Spec => []TypeOK
BY Invariance, PTL DEF IInv

(* A signal owns exactly the blocks it malloc'ed and did not free: none is *)
(* shared by two channels, none leaks, none outlives the destructor.       *)
THEOREM Ownership == Spec => []OwnsItsVectors
BY Invariance, PTL DEF IInv

(* TTFree16 never gets a vector of the host, nor a block a second time.    *)
THEOREM FreesAreSound == Spec => []NoBadFree
BY Invariance, PTL DEF IInv

(* A signal that does not own its vectors keeps no address it has freed.   *)
THEOREM NothingDangles == Spec => []NoDanglingVector
BY Invariance, PTL DEF IInv

(* The vectors a signal owns all have one length.                          *)
THEOREM OneVectorSize == Spec => []UniformVectors
BY Invariance, PTL DEF IInv
=============================================================================
