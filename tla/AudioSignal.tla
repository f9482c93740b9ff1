----------------------------- MODULE AudioSignal -----------------------------
(***************************************************************************)
(* The memory of one TTAudioSignal (library/source/TTAudioSignal.cpp): who *)
(* owns the sample vectors it points to, through every sequence of its     *)
(* attribute writes and messages.  A signal that is "locally owned" has    *)
(* malloc'ed its vectors and frees them; any other only points to vectors  *)
(* of the host, which it must never free.                                  *)
(*                                                                         *)
(* Sample values, and the calls that only read or write them (Clear, copy, *)
(* copyDirty, copySubset, operator+=, getVector), change no state of this  *)
(* module.  malloc never fails here, and a call whose sample copy would go *)
(* through a NULL vector returns: the model has every behaviour of the     *)
(* code, and some in which the code would stop.                            *)
(***************************************************************************)
EXTENDS SignalMemory

VARIABLES signal,    \* the TTAudioSignal
          heap,      \* live blocks of this signal: address -> length in samples
          badFree,   \* some TTFree16 got an address that was not a live block
          alive      \* the destructor has not run

vars == <<signal, heap, badFree, alive>>

(* Slip: the loop goes over the valid channels, not the allocated ones.    *)
FreedValidOnly == IF signal.isLocallyOwned
                  THEN { signal.sampleVectors[c] :
                           c \in { d \in Channels(signal) : d < signal.numChannels } } \ {NULL}
                  ELSE {}

(* The blocks the destructive loops of chuck, setVector and alloc free:    *)
(* all the signal's vectors, when it believes they are its own.            *)
Freed == IF signal.isLocallyOwned
         THEN { signal.sampleVectors[c] : c \in Channels(signal) } \ {NULL}
         ELSE {}

(* Freeing a vector twice, or one that this signal did not malloc.         *)
FreesWrongly ==
    /\ signal.isLocallyOwned
    /\ \E c \in Channels(signal) :
         /\ signal.sampleVectors[c] # NULL
         /\ \/ signal.sampleVectors[c] \notin DOMAIN heap
            \/ \E d \in Channels(signal) \ {c} :
                 signal.sampleVectors[d] = signal.sampleVectors[c]

(* What the heap is once this signal has freed what it owns.               *)
HeapAfterFree == [b \in DOMAIN heap \ Freed |-> heap[b]]

(* n vectors malloc'ed after that: distinct, and none of them live.        *)
FreshVectors(n) ==
    { new \in [ChannelsUpTo(n) -> Block \ DOMAIN HeapAfterFree] :
        \A c, d \in ChannelsUpTo(n) : new[c] = new[d] => c = d }

HeapAfterAlloc(new, vs) ==
    [b \in DOMAIN HeapAfterFree \cup { new[c] : c \in DOMAIN new } |->
        IF b \in DOMAIN HeapAfterFree THEN HeapAfterFree[b] ELSE vs]

FreeOnly ==
    /\ heap' = HeapAfterFree
    /\ badFree' = (badFree \/ FreesWrongly)

(* alloc() on the signal that s describes, whose vectors are still the     *)
(* ones signal has: free them if they are ours, then malloc one for every  *)
(* channel.                                                                *)
AllocInto(s) ==
    \E new \in FreshVectors(s.maxNumChannels) :
        /\ signal' = Allocated(s, new)
        /\ heap' = HeapAfterAlloc(new, s.vectorSize)
        /\ badFree' = (badFree \/ FreesWrongly)

KeepMemory == UNCHANGED <<heap, badFree>>

----------------------------------------------------------------------------
(* The constructor: no vectors, as many channels as the argument says.     *)
Init ==
    /\ \E n \in 0..MaxChannels : signal = Constructed(n)
    /\ heap = [b \in {} |-> 0]
    /\ badFree = FALSE
    /\ alive = TRUE

(* setMaxNumChannels(): at least 1; a change drops every vector and        *)
(* allocates new ones if there were any of our own.                        *)
setMaxNumChannels(newMaxNumChannels) ==
    LET max == MaxOf(newMaxNumChannels, 1)
    IN  /\ alive
        /\ max # signal.maxNumChannels
        /\ IF signal.isLocallyOwned
           THEN AllocInto(Resized(signal, max))
           ELSE signal' = Resized(signal, max) /\ FreeOnly
        /\ UNCHANGED alive

setNumChannels(n) ==
    /\ alive
    /\ signal' = SetNumChannels(signal, n)
    /\ KeepMemory
    /\ UNCHANGED alive

(* setVectorSize() and setVectorSizeWithInt(): the vectors stay as long as *)
(* they were.                                                              *)
setVectorSize(vs) ==
    /\ alive
    /\ signal' = SetVectorSize(signal, vs)
    /\ KeepMemory
    /\ UNCHANGED alive

(* setVector() for 64-bit samples: reference the host's vector.            *)
setVector64(channel, vs, vector) ==
    /\ alive
    /\ channel \in Channels(signal)
    /\ signal' = References(signal, channel, vs, vector)
    /\ FreeOnly
    /\ UNCHANGED alive

(* Slip: only the channel being set gets a vector of the new size.         *)
setVector32OneChannel(channel, vs) ==
    /\ alive
    /\ channel \in Channels(signal)
    /\ IF ~NeedsAlloc32(signal, vs)
       THEN UNCHANGED <<signal, heap, badFree>>
       ELSE IF ~signal.isLocallyOwned
       THEN AllocInto(Prepared32(signal, vs))
       ELSE LET block == signal.sampleVectors[channel]
            IN  /\ signal' = Prepared32(signal, vs)
                /\ heap' = [heap EXCEPT ![block] = vs]
                /\ UNCHANGED badFree
    /\ UNCHANGED alive

(* setVector() for 32-bit samples: copy into a vector of our own.          *)
setVector32(channel, vs) ==
    /\ alive
    /\ channel \in Channels(signal)
    /\ IF NeedsAlloc32(signal, vs)
       THEN AllocInto(Prepared32(signal, vs))
       ELSE UNCHANGED signal /\ KeepMemory
    /\ UNCHANGED alive

(* The message alloc.                                                      *)
alloc ==
    /\ alive
    /\ AllocInto(signal)
    /\ UNCHANGED alive

(* allocWithVectorSize() and the message allocWithNewVectorSize.           *)
allocWithVectorSize(vs) ==
    /\ alive
    /\ vs # signal.vectorSize \/ ~signal.isLocallyOwned
    /\ AllocInto(SetVectorSize(signal, vs))
    /\ UNCHANGED alive

(* operator=() from a signal with rhsMax channels, rhsNum of them valid,   *)
(* of vector size rhsSize.  The vectors setMaxNumChannels() allocates when *)
(* it grows the signal are freed again by the alloc() that follows.        *)
assign(rhsMax, rhsNum, rhsSize) ==
    LET grown  == IF rhsMax > signal.maxNumChannels THEN Resized(signal, rhsMax) ELSE signal
        shaped == [grown EXCEPT !.numChannels = rhsNum, !.vectorSize = rhsSize]
    IN  /\ alive
        /\ IF signal.isLocallyOwned
           THEN AllocInto(shaped)
           ELSE signal' = shaped /\ FreeOnly
        /\ UNCHANGED alive

(* The destructor.                                                         *)
destroy ==
    /\ alive
    /\ alive' = FALSE
    /\ signal' = Chucked(signal)
    /\ FreeOnly

Next ==
    \/ \E n \in 0..MaxChannels : setMaxNumChannels(n) \/ setNumChannels(n)
    \/ \E vs \in VectorSizes :
         \/ setVectorSize(vs)
         \/ allocWithVectorSize(vs)
         \/ \E c \in Channels(signal) :
              \/ setVector32(c, vs)
              \/ \E v \in HostVector : setVector64(c, vs, v)
         \/ \E m \in 1..MaxChannels, n \in 0..MaxChannels : assign(m, n, vs)
    \/ alloc
    \/ destroy

Spec == Init /\ [][Next]_vars

----------------------------------------------------------------------------
TypeOK ==
    /\ signal \in Signal
    /\ DOMAIN signal.sampleVectors = Channels(signal)
    /\ DOMAIN heap \subseteq Block
    /\ \A b \in DOMAIN heap : heap[b] \in VectorSizes \cup {0}
    /\ badFree \in BOOLEAN
    /\ alive \in BOOLEAN

(* A signal that owns its vectors has, in every channel, a live block that *)
(* no other channel has; and the blocks it malloc'ed and did not free are  *)
(* exactly those: none leaks, and none outlives the destructor.            *)
OwnsItsVectors ==
    IF signal.isLocallyOwned
    THEN /\ DOMAIN heap = { signal.sampleVectors[c] : c \in Channels(signal) }
         /\ \A c, d \in Channels(signal) :
              signal.sampleVectors[c] = signal.sampleVectors[d] => c = d
    ELSE DOMAIN heap = {}

(* No vector of the host, and no block a second time, is ever handed to    *)
(* TTFree16.                                                               *)
NoBadFree == ~badFree

(* A signal that references the host's memory keeps no address of a block  *)
(* it has freed: what it points to is the host's or nothing.               *)
NoDanglingVector ==
    ~signal.isLocallyOwned =>
        \A c \in Channels(signal) : signal.sampleVectors[c] \in HostVector \cup {NULL}

(* Every channel in a signal must have the same vector-size (TTAudioSignal.h:40): *)
(* true of the vectors a signal owns, whatever path allocated them.        *)
UniformVectors == \A a, b \in DOMAIN heap : heap[a] = heap[b]
=============================================================================
