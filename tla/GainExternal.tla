---------------------------- MODULE GainExternal ----------------------------
(***************************************************************************)
(* The Max external jcom.gain~ (implementations/MaxMSP/jcom.gain~): three  *)
(* audio signals between the host's 32-bit vectors and the units crossfade *)
(* and gain.  Inlets 0..N-1 are the raw channels, N..2N-1 the wet ones.    *)
(* dsp lays the connected channels out again whenever the host rebuilds    *)
(* its chain; perform runs on what the last dsp left.                      *)
(*                                                                         *)
(* A vector is told by its room in samples, and holds in place of samples  *)
(* the inlets, raw and wet, they were made from.  The attributes only set  *)
(* what the units do with their sounds, and are left out.                  *)
(***************************************************************************)
EXTENDS Integers, FiniteSets, Sequences

CONSTANTS N,            \* the channels of the external, its argument
          VectorSizes,  \* the vector sizes of the host
          NULL

Memory == INSTANCE SignalMemory
    WITH Block <- VectorSizes \cup {0}, HostVector <- {}, MaxChannels <- 2 * N

ConstantsOK == N \in Nat \ {0} /\ VectorSizes \subseteq Nat \ {0}

VARIABLES signalIn, signalOut, signalTemp,  \* the TTAudioSignals
          sample,   \* what the vectors of each hold
          chain,    \* the channels in the arguments of perform, in order
          outlet,   \* what perform wrote to each outlet last
          overrun   \* history: the signals written past the end of a vector

vars == <<signalIn, signalOut, signalTemp, sample, chain, outlet, overrun>>

(* What uninitialised memory holds, and what an outlet without perform.    *)
Garbage == [a |-> NULL, b |-> NULL]

(* alloc(): every vector as long as the signal says, and nothing in it.    *)
Fresh(s) == Memory!Allocated(s, [c \in Memory!Channels(s) |-> s.vectorSize])

(* The first setVector() of a vector may allocate, for all the channels.   *)
SetIn(s, vs) == IF Memory!NeedsAlloc32(s, vs) THEN Fresh(Memory!Prepared32(s, vs)) ELSE s

(* Some vector of the valid channels has no room for its samples.          *)
TooShort(s, vs) == \E c \in 0..s.numChannels - 1 : s.sampleVectors[c] < vs

(* Slip: the wet channels are looked for after all those of the external.  *)
CrossfadedApart(in, n) == [c \in 0..n - 1 |-> [a |-> in[c], b |-> in[N + c]]]

(* TTCrossfade with one input signal, whose first half is the source A.    *)
Crossfaded(in, n) == [c \in 0..n - 1 |-> [a |-> in[c], b |-> in[n + c]]]

(* new over the n first channels of old.                                   *)
Over(new, old) == [c \in DOMAIN old |-> IF c \in DOMAIN new THEN new[c] ELSE old[c]]

(* Slip: only the valid channels are given their vectors.                  *)
LaidOutValid(s, n, vs) ==
    LET t == Memory!SetVectorSize(Memory!SetNumChannels(s, n), vs)
    IN  Memory!Allocated(t, [c \in Memory!Channels(t) |-> IF c < n - 1 THEN vs ELSE 0])

(* A signal whose vectors are processed into.                              *)
LaidOut(s, n, vs) == Fresh(Memory!SetVectorSize(Memory!SetNumChannels(s, n), vs))

----------------------------------------------------------------------------
(* gain_new().                                                             *)
Init ==
    /\ signalIn = Memory!Constructed(2 * N)
    /\ signalOut = Memory!Constructed(N) /\ signalTemp = Memory!Constructed(N)
    /\ sample = [in |-> [c \in 0..2 * N - 1 |-> NULL],
                 temp |-> [c \in 0..N - 1 |-> Garbage], out |-> [c \in 0..N - 1 |-> Garbage]]
    /\ chain = <<>>
    /\ outlet = [c \in 0..N - 1 |-> Garbage]
    /\ overrun = {}

(* connected: the channels whose two inlets and outlet have connections.   *)
gain_dsp(connected, s_n) ==
    LET n  == Cardinality(connected)
        vs == IF connected = {} THEN 0 ELSE s_n
    IN  /\ \E channels \in [1..n -> connected] :
             /\ \A i, j \in 1..n : i < j => channels[i] < channels[j]
             /\ chain' = channels
        /\ signalIn' = Memory!SetVectorSize(Memory!SetNumChannels(signalIn, 2 * n), vs)
        /\ signalOut' = LaidOut(signalOut, n, vs)
        /\ signalTemp' = LaidOut(signalTemp, n, vs)
        /\ sample' = [sample EXCEPT !.temp = [c \in 0..N - 1 |-> Garbage],
                                    !.out  = [c \in 0..N - 1 |-> Garbage]]
        /\ UNCHANGED <<outlet, overrun>>

(* With z_disabled the units are left out, and the outlets get what the    *)
(* output signal holds.                                                    *)
gain_perform(z_disabled) ==
    LET n    == signalOut.numChannels
        vs   == signalIn.vectorSize
        in   == Over([c \in 0..2 * n - 1 |-> IF c < n THEN chain[c + 1] ELSE N + chain[c - n + 1]],
                     sample.in)
        temp == IF z_disabled \/ signalIn.numChannels # 2 * signalTemp.numChannels THEN sample.temp
                ELSE Over(Crossfaded(in, signalTemp.numChannels), sample.temp)
        out  == IF z_disabled THEN sample.out
                ELSE Over([c \in 0..Memory!MinOf(signalTemp.numChannels, n) - 1 |-> temp[c]], sample.out)
    IN  /\ chain # <<>>
        /\ signalIn' = SetIn(signalIn, vs)
        /\ sample' = [in |-> in, temp |-> temp, out |-> out]
        /\ outlet' = [o \in 0..N - 1 |->
                        IF \E i \in 1..n : chain[i] = o
                        THEN out[(CHOOSE i \in 1..n : chain[i] = o) - 1] ELSE outlet[o]]
        /\ overrun' = overrun \cup (IF TooShort(signalIn', vs) THEN {"in"} ELSE {})
                              \cup (IF TooShort(signalTemp, vs) THEN {"temp"} ELSE {})
                              \cup (IF TooShort(signalOut, vs) THEN {"out"} ELSE {})
        /\ UNCHANGED <<signalOut, signalTemp, chain>>

Next ==
    \/ \E connected \in SUBSET (0..N - 1), s_n \in VectorSizes : gain_dsp(connected, s_n)
    \/ \E z_disabled \in BOOLEAN : gain_perform(z_disabled)

Spec == Init /\ [][Next]_vars

----------------------------------------------------------------------------
Source == [a : 0..2 * N - 1, b : 0..2 * N - 1] \cup {Garbage}

TypeOK ==
    /\ {signalIn, signalOut, signalTemp} \subseteq Memory!Signal
    /\ sample \in [in : [0..2 * N - 1 -> (0..2 * N - 1) \cup {NULL}],
                   temp : [0..N - 1 -> Source], out : [0..N - 1 -> Source]]
    /\ chain \in Seq(0..N - 1)
    /\ outlet \in [0..N - 1 -> Source]
    /\ overrun \subseteq {"in", "temp", "out"}

(* Whatever channels were connected, and however they were laid out anew,  *)
(* an outlet never carries another channel's sound.                        *)
OwnSoundAtOutlet == \A o \in 0..N - 1 : outlet[o] = Garbage \/ (outlet[o].a = o /\ outlet[o].b = N + o)

(* What the units write fits the vectors they write to, after any number   *)
(* of changes of the vector size and of the connections.                   *)
OutputsFit == overrun \subseteq {"in"}

(* "signalIn will be set in the perform method" (jcom.gain~.cpp:266): with *)
(* vectors that hold the samples of the new vector size.                   *)
InputFits == "in" \notin overrun
=============================================================================
