-------------------------------- MODULE Delay --------------------------------
(***************************************************************************)
(* TTDelay (extensions/EffectsLib/TTDelay.cpp): a delay of up to           *)
(* mDelayMaxInSamples samples in every channel.  Its two parameters are    *)
(* each kept twice, as a time and as a number of samples, and are tied     *)
(* together by the sample rate; each change of one of them repositions or  *)
(* rebuilds the buffers of all channels.                                   *)
(*                                                                         *)
(* Times are counted in units of 1/PerMs of a millisecond, of which every  *)
(* rate takes a whole number for a sample: a conversion to samples         *)
(* truncates as the code's does, but is not subject to rounding before.    *)
(* The weights of the interpolation are not modelled.                      *)
(*                                                                         *)
(* A vector goes through one channel after the other and, with setters     *)
(* that take no lock, a setter may come at any sample.  Hosts pass no more *)
(* channels than MaxNumChannels.                                           *)
(***************************************************************************)
EXTENDS DelayBuffer

CONSTANTS Rates,         \* values of srMill, in samples per millisecond
          PerMs,         \* units of time per millisecond
          Times,         \* values written to the attributes Delay and DelayMax
          SampleCounts,  \* values written to DelayInSamples and DelayMaxInSamples
          ChannelCounts  \* values written to MaxNumChannels

ASSUME RatesAssumption ==
    /\ PerMs \in Nat \ {0}
    /\ Rates \subseteq Nat \ {0}
    /\ \A r \in Rates : PerMs % r = 0
ASSUME InputsAssumption ==
    /\ Times \subseteq Nat
    /\ SampleCounts \subseteq Nat
    /\ ChannelCounts \subseteq Nat

VARIABLES srMill,
          maxNumChannels,
          delay,       \* mDelay (time) and mDelayInSamples
          delayMax,    \* mDelayMax (time) and mDelayMaxInSamples
          loop,        \* what mInterpolation made of processMethod
          mBuffers     \* one TTDelayBuffer per channel

vars == <<srMill, maxNumChannels, delay, delayMax, loop, mBuffers>>

SamplesOf(time, rate) == (time * rate) \div PerMs
TimeOf(samples, rate) == samples * (PerMs \div rate)

ClipTo(value, max) == IF value > max THEN max ELSE value

(* reset()                                                                 *)
Reset(bs, d) == [c \in DOMAIN bs |-> Positioned(bs[c], d)]

(* init(): nothing at all if there are no samples to make room for.  It is *)
(* given the maximum as its caller has left it, and the channels.          *)
Inited(max, n, rate, bs) ==
    IF n = 0
    THEN [max |-> max, buffers |-> bs]
    ELSE [max     |-> [time |-> TimeOf(n, rate), samples |-> n],
          buffers |-> Reset([c \in DOMAIN bs |-> Resized(bs[c], n)], delay.samples)]

(* setDelay(): no longer than the maximum, and then in whole samples.      *)
DelaySet(time, max, rate) ==
    LET t == ClipTo(time, max.time) IN [time |-> t, samples |-> SamplesOf(t, rate)]

----------------------------------------------------------------------------
(* As the constructor leaves it: a maximum and a delay set in samples, the *)
(* cubic loop, nothing played yet.                                         *)
Init ==
    \E rate \in Rates, n \in ChannelCounts, m, d \in SampleCounts :
        /\ m > 0 /\ d <= m
        /\ srMill = rate
        /\ maxNumChannels = n
        /\ delayMax = [time |-> TimeOf(m, rate), samples |-> m]
        /\ delay = [time |-> TimeOf(d, rate), samples |-> d]
        /\ loop = "cubic"
        /\ mBuffers = [c \in 0..(n - 1) |-> Positioned(Resized(NewBuffer, m), d)]

(* Slip: the buffers are not made again for the channels that are new.     *)
updateMaxNumChannelsOnly(n) ==
    /\ n # maxNumChannels
    /\ maxNumChannels' = n
    /\ mBuffers' = [c \in 0..(n - 1) |->
                        IF c \in DOMAIN mBuffers THEN mBuffers[c] ELSE NewBuffer]
    /\ UNCHANGED <<srMill, delay, delayMax, loop>>

(* MaxNumChannels, with updateMaxNumChannels(): when mBuffers moves as it  *)
(* grows, the pointers in it are left pointing to memory that was freed,   *)
(* until init() sets them.                                                 *)
setMaxNumChannels(n) ==
    /\ n # maxNumChannels
    /\ maxNumChannels' = n
    /\ \E moved \in {FALSE, n > maxNumChannels} :
         LET resized == [c \in 0..(n - 1) |->
                            IF c \notin DOMAIN mBuffers THEN NewBuffer
                            ELSE [mBuffers[c] EXCEPT !.live = @ /\ ~moved]]
             inited  == Inited(delayMax, delayMax.samples, srMill, resized)
         IN  delayMax' = inited.max /\ mBuffers' = inited.buffers
    /\ UNCHANGED <<srMill, delay, loop>>

(* SampleRate, with updateSr(): the maximum and then the delay are worked  *)
(* out again from their times.                                             *)
setSr(rate) ==
    LET inited == Inited(delayMax, SamplesOf(delayMax.time, rate), rate, mBuffers)
        set    == DelaySet(delay.time, inited.max, rate)
    IN  /\ srMill' = rate
        /\ delayMax' = inited.max
        /\ delay' = set
        /\ mBuffers' = Reset(inited.buffers, set.samples)
        /\ UNCHANGED <<maxNumChannels, loop>>

setDelay(time) ==
    /\ delay' = DelaySet(time, delayMax, srMill)
    /\ mBuffers' = Reset(mBuffers, delay'.samples)
    /\ UNCHANGED <<srMill, maxNumChannels, delayMax, loop>>

setDelayInSamples(n) ==
    LET d == ClipTo(n, delayMax.samples)
    IN  /\ delay' = [samples |-> d, time |-> TimeOf(d, srMill)]
        /\ mBuffers' = Reset(mBuffers, d)
        /\ UNCHANGED <<srMill, maxNumChannels, delayMax, loop>>

(* setDelayMax(), setDelayMaxInSamples(): the delay itself stays as it is, *)
(* though it may now be longer than the buffers.                           *)
setDelayMax(time) ==
    LET n      == SamplesOf(time, srMill)
        inited == Inited([time |-> time, samples |-> n], n, srMill, mBuffers)
    IN  /\ delayMax' = inited.max
        /\ mBuffers' = inited.buffers
        /\ UNCHANGED <<srMill, maxNumChannels, delay, loop>>

setDelayMaxInSamples(n) ==
    LET max    == [time |-> TimeOf(n, srMill), samples |-> n]
        inited == Inited(max, n, srMill, mBuffers)
    IN  /\ delayMax' = inited.max
        /\ mBuffers' = inited.buffers
        /\ UNCHANGED <<srMill, maxNumChannels, delay, loop>>

(* Any name but "none" and "cubic" selects the linear loop.                *)
setInterpolation(name) ==
    /\ loop' = name
    /\ UNCHANGED <<srMill, maxNumChannels, delay, delayMax, mBuffers>>

Clear ==
    /\ mBuffers' = [c \in DOMAIN mBuffers |-> Cleared(mBuffers[c])]
    /\ UNCHANGED <<srMill, maxNumChannels, delay, delayMax, loop>>

(* One sample through one channel.                                         *)
process(c) ==
    /\ mBuffers[c].live
    /\ mBuffers' = [mBuffers EXCEPT ![c] = Fed(mBuffers[c])]
    /\ UNCHANGED <<srMill, maxNumChannels, delay, delayMax, loop>>

(* The owner of the memory past the end of a buffer, if it has one, writes *)
(* to it.                                                                  *)
ForeignWrite(c) ==
    /\ mBuffers[c].live
    /\ mBuffers' = [mBuffers EXCEPT ![c].cells[mBuffers[c].size] = Foreign]
    /\ UNCHANGED <<srMill, maxNumChannels, delay, delayMax, loop>>

Next ==
    \/ \E n \in ChannelCounts : setMaxNumChannels(n)
    \/ \E rate \in Rates : setSr(rate)
    \/ \E t \in Times : setDelay(t) \/ setDelayMax(t)
    \/ \E n \in SampleCounts : setDelayInSamples(n) \/ setDelayMaxInSamples(n)
    \/ \E name \in {"none", "linear", "cubic"} : setInterpolation(name)
    \/ Clear
    \/ \E c \in DOMAIN mBuffers : process(c) \/ ForeignWrite(c)

Spec == Init /\ [][Next]_vars

----------------------------------------------------------------------------
Length == [time : Nat, samples : Nat]

TypeOK ==
    /\ srMill \in Rates
    /\ maxNumChannels \in ChannelCounts
    /\ delay \in Length
    /\ delayMax \in Length
    /\ loop \in {"none", "linear", "cubic"}
    /\ DOMAIN mBuffers = 0..(maxNumChannels - 1)
    /\ \A c \in DOMAIN mBuffers :
         LET b == mBuffers[c]
         IN  /\ b \in [live : BOOLEAN, size : Nat, write : Nat, read : Int,
                       cells : [Indices(b) -> Content]]
             /\ b.write \in Indices(b)

(* As long as the maximum is not zero, every channel there is has a buffer *)
(* of that length: no channel added later is left without memory, none     *)
(* keeps the length of an earlier maximum.                                 *)
BuffersReady ==
    delayMax.samples > 0 =>
        \A c \in DOMAIN mBuffers : mBuffers[c].live /\ mBuffers[c].size = delayMax.samples

(* The pointers stay mDelayInSamples apart, round the buffer, through each *)
(* order of playing, changes of delay, rate, length and loop; and a delay  *)
(* the buffer has room for keeps the read pointer on it.                   *)
PointersApart ==
    \A c \in DOMAIN mBuffers :
        LET b == mBuffers[c]
        IN  b.live => /\ (b.write - b.read - delay.samples) % (b.size + 1) = 0
                      /\ delay.samples <= b.size => b.read \in Indices(b)

(* Without interpolation the sample that comes out is exactly the one that *)
(* went in mDelayInSamples earlier, or silence if it went in before the    *)
(* buffer was made or cleared.  Only where the buffer's memory ends may it *)
(* be anything.                                                            *)
HeardIsDelayed ==
    \A c \in DOMAIN mBuffers :
        LET b == mBuffers[c]
        IN  b.live /\ delay.samples <= b.size =>
                \/ Heard(b) \in {delay.samples, Silence}
                \/ Heard(b) = Foreign /\ b.read = b.size

(* Every sample a loop reads is on the buffer, the neighbours that the     *)
(* interpolating loops reach for past either end included.                 *)
TapsInBuffer ==
    \A c \in DOMAIN mBuffers :
        LET b    == mBuffers[c]
            taps == Taps(b, loop)
        IN  b.live /\ delay.samples <= b.size => \A i \in DOMAIN taps : taps[i] \in Indices(b)

(* "points to last sample in buffer" (TTDelayBuffer.h:27): with the end    *)
(* where that says, the loops only write to samples of the buffer.         *)
WritesInBuffer ==
    \A c \in DOMAIN mBuffers : mBuffers[c].live => mBuffers[c].write < mBuffers[c].size

(* "hold the delay time in ms constant, despite the change of sr"          *)
(* (TTDelay.cpp:85).                                                       *)
DelayTimeHeld ==
    [][srMill' # srMill => delay'.time = delay.time]_vars
=============================================================================
