---------------------------- MODULE SampleBuffer ----------------------------
(***************************************************************************)
(* TTBuffer (library/source/TTBuffer.cpp): sample memory with a number of  *)
(* channels and a length that are set apart, in any order, each of them    *)
(* freeing what there is and allocating again.  chuck() leaves mContents   *)
(* as it is, and init() allocates nothing when either size is zero.        *)
(*                                                                         *)
(* The samples themselves are left out.  A length in milliseconds is set   *)
(* as the samples it makes.  A message that reads through NULL does not    *)
(* return, and is not modelled.                                            *)
(***************************************************************************)
EXTENDS Integers

CONSTANTS ChannelCounts, Lengths, NULL

ConstantsOK == ChannelCounts \cup Lengths \subseteq Nat /\ NULL \notin Nat

VARIABLES mNumChannels, mLengthInSamples,
          mContents,  \* NULL or the last allocation: its sizes, and whether it is still live
          emptied,    \* history: contents were freed with none allocated in their place
          misused     \* history: freed memory was freed again, read or written

vars == <<mNumChannels, mLengthInSamples, mContents, emptied, misused>>

Allocation(channels, length) == [channels |-> channels, length |-> length, live |-> TRUE]

(* Whether the loop of chuck() frees just what was allocated.              *)
FreedRightly == mContents = NULL \/ (mContents.live /\ mContents.channels = mNumChannels)

(* Slip: the new count is there when the old vectors are freed.            *)
ReallocatedFirst(channels, length) ==
    /\ mNumChannels' = channels /\ mLengthInSamples' = length
    /\ mContents' = IF channels > 0 /\ length > 0 THEN Allocation(channels, length)
                    ELSE IF mContents = NULL THEN NULL ELSE [mContents EXCEPT !.live = FALSE]
    /\ emptied' = (emptied \/ (mContents # NULL /\ (channels = 0 \/ length = 0)))
    /\ misused' = (misused \/ ~(mContents = NULL \/ (mContents.live /\ mContents.channels = channels)))

(* chuck(), the new sizes, and init().                                     *)
Reallocated(channels, length) ==
    /\ mNumChannels' = channels /\ mLengthInSamples' = length
    /\ mContents' = IF channels > 0 /\ length > 0 THEN Allocation(channels, length)
                    ELSE IF mContents = NULL THEN NULL ELSE [mContents EXCEPT !.live = FALSE]
    /\ emptied' = (emptied \/ (mContents # NULL /\ (channels = 0 \/ length = 0)))
    /\ misused' = (misused \/ ~FreedRightly)

----------------------------------------------------------------------------
Init ==
    /\ mNumChannels = 0 /\ mLengthInSamples = 0
    /\ mContents = NULL
    /\ emptied = FALSE /\ misused = FALSE

setNumChannels(n) == n # mNumChannels /\ Reallocated(n, mLengthInSamples)

(* setLength() compares milliseconds: it may find the samples unchanged.   *)
setLength(n) == Reallocated(mNumChannels, n)
setLengthInSamples(n) == n # mLengthInSamples /\ Reallocated(mNumChannels, n)

(* Clear() and Fill() touch the samples of every channel, peek() and       *)
(* poke() one of them, if there are any.                                   *)
Access ==
    /\ mContents # NULL /\ mNumChannels > 0 /\ mLengthInSamples > 0
    /\ misused' = (misused \/ ~mContents.live \/ mContents.channels < mNumChannels
                           \/ mContents.length < mLengthInSamples)
    /\ UNCHANGED <<mNumChannels, mLengthInSamples, mContents, emptied>>

Next ==
    \/ \E n \in ChannelCounts : setNumChannels(n)
    \/ \E n \in Lengths : setLength(n) \/ setLengthInSamples(n)
    \/ Access

Spec == Init /\ [][Next]_vars

----------------------------------------------------------------------------
TypeOK ==
    /\ mNumChannels \in Nat /\ mLengthInSamples \in Nat
    /\ mContents = NULL \/ mContents \in [channels : Nat, length : Nat, live : BOOLEAN]
    /\ emptied \in BOOLEAN /\ misused \in BOOLEAN

(* In whatever order the sizes are set, what is freed is what was          *)
(* allocated, once, and what is there has the current sizes; until one of  *)
(* them is set back to zero, after which the contents are gone but         *)
(* mContents still points to them (hazard TTBuffer.cpp:67).                *)
ContentsFit ==
    ~emptied => /\ ~misused
                /\ mContents # NULL => mContents = Allocation(mNumChannels, mLengthInSamples)
=============================================================================
