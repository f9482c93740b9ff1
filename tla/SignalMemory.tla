---------------------------- MODULE SignalMemory ----------------------------
(***************************************************************************)
(* The value of a TTAudioSignal (library/includes/TTAudioSignal.h) and the *)
(* parts of its methods that are functions of that value alone.  The       *)
(* sample vectors of a signal are pointers: NULL, the address of a block   *)
(* this signal has malloc'ed, or the address of a vector that belongs to   *)
(* the host.  The heap itself is kept by the modules that use this one.    *)
(***************************************************************************)
EXTENDS Integers

CONSTANTS Block,        \* addresses TTMalloc16 can return
          HostVector,   \* addresses of vectors that belong to the host
          NULL,
          MaxChannels,  \* bound on MaxNumChannels
          VectorSizes   \* the vector sizes a caller may ask for

ASSUME ChannelsAssumption == MaxChannels \in Nat \ {0}
ASSUME VectorSizesAssumption == VectorSizes \subseteq Nat
ASSUME PointersAssumption == /\ Block \cap HostVector = {}
                             /\ NULL \notin Block \cup HostVector

Pointer == Block \cup HostVector \cup {NULL}

MinOf(a, b) == IF a < b THEN a ELSE b
MaxOf(a, b) == IF a > b THEN a ELSE b

(* The channels a signal has room for: the indices of mSampleVectors.      *)
ChannelsUpTo(n) == 0..(n - 1)
Channels(s) == ChannelsUpTo(s.maxNumChannels)

(* mSampleVectors is NULL exactly when mMaxNumChannels is 0: an array of   *)
(* no elements.                                                            *)
Signal ==
    [ isLocallyOwned : BOOLEAN,
      maxNumChannels : 0..MaxChannels,
      vectorSize     : VectorSizes \cup {0},
      numChannels    : 0..MaxChannels,
      bitdepth       : {0, 32, 64},
      sampleVectors  : UNION { [ChannelsUpTo(n) -> Pointer] : n \in 0..MaxChannels } ]

NullVectors(n) == [c \in ChannelsUpTo(n) |-> NULL]

SetNumChannels(s, n) ==
    [s EXCEPT !.numChannels = MinOf(n, s.maxNumChannels)]

SetVectorSize(s, vs) ==
    [s EXCEPT !.vectorSize = vs]

(* The signal as its initialisers leave it, then the two attribute writes  *)
(* of the constructor: MaxNumChannels has a minimum of 1, NumChannels not. *)
Constructed(initialMaxNumChannels) ==
    LET max == MaxOf(initialMaxNumChannels, 1)
    IN  [ isLocallyOwned |-> FALSE,
          maxNumChannels |-> max,
          vectorSize     |-> 0,
          numChannels    |-> MinOf(initialMaxNumChannels, max),
          bitdepth       |-> 0,
          sampleVectors  |-> NullVectors(max) ]

(* chuck(): nothing left but mNumChannels, mVectorSize and mBitdepth.      *)
Chucked(s) ==
    [s EXCEPT !.isLocallyOwned = FALSE,
              !.maxNumChannels = 0,
              !.sampleVectors  = NullVectors(0)]

(* Slip: the pointer array is not made again for the new channel count.    *)
ResizedInPlace(s, max) ==
    [s EXCEPT !.maxNumChannels = max, !.isLocallyOwned = FALSE]

(* A new pointer array, every vector NULL; mNumChannels stays as it is.    *)
Resized(s, max) ==
    [Chucked(s) EXCEPT !.maxNumChannels = max, !.sampleVectors = NullVectors(max)]

(* alloc() once its mallocs returned the vectors new.                      *)
Allocated(s, new) ==
    [s EXCEPT !.sampleVectors = new, !.isLocallyOwned = s.maxNumChannels > 0]

(* Slip: the flag that says who owns the vectors is not cleared.           *)
ReferencesStillOwner(s, channel, vs, vector) ==
    [s EXCEPT !.bitdepth = 64, !.vectorSize = vs,
              !.sampleVectors = [NullVectors(s.maxNumChannels) EXCEPT ![channel] = vector]]

(* Slip: the other channels keep the addresses of the vectors just freed.  *)
ReferencesKeepOthers(s, channel, vs, vector) ==
    [s EXCEPT !.bitdepth = 64, !.vectorSize = vs, !.isLocallyOwned = FALSE,
              !.sampleVectors[channel] = vector]

(* setVector() with 64-bit samples keeps the caller's pointer, and none of *)
(* the vectors the signal owned.                                           *)
References(s, channel, vs, vector) ==
    LET kept == IF s.isLocallyOwned THEN NullVectors(s.maxNumChannels) ELSE s.sampleVectors
    IN  [s EXCEPT !.bitdepth = 64, !.vectorSize = vs, !.isLocallyOwned = FALSE,
                  !.sampleVectors = [kept EXCEPT ![channel] = vector]]

(* setVector() with 32-bit samples allocates first unless the signal looks *)
(* as if it had been allocated by such a call already.                     *)
NeedsAlloc32(s, vs) ==
    \/ s.bitdepth # 32
    \/ ~s.isLocallyOwned
    \/ vs # s.vectorSize

Prepared32(s, vs) == [s EXCEPT !.bitdepth = 32, !.vectorSize = vs]
=============================================================================
