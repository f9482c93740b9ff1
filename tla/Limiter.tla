------------------------------ MODULE Limiter ------------------------------
(***************************************************************************)
(* TTLimiter (extensions/EffectsLib/TTLimiter.cpp): a ring of samples for  *)
(* each channel and one of gains, shared by them.  A hot sample lowers its *)
(* own gain and ramps the gains before it.  The ring is as long as the     *)
(* lookahead, which can be changed at any sample; the ramp goes round the  *)
(* whole buffer.  Only the channels that the vector's two signals have are *)
(* recorded and played, but the gains and the index go on for all.         *)
(*                                                                         *)
(* Amplitudes and gains are multiples of 1/One, gains rounded down.  The   *)
(* DC blocker and the preamp only change what the input is.                *)
(***************************************************************************)
EXTENDS Integers, FiniteSetsExt

CONSTANTS One,            \* the amplitude and the gain 1.0
          maxBufferSize,
          maxNumChannels,
          Inputs,         \* the samples, without their sign
          Thresholds, Postamps,
          Recover         \* the amounts a gain recovers by in a sample

ConstantsOK ==
    /\ One \in Nat \ {0} /\ maxBufferSize \in Nat /\ maxBufferSize > 1
    /\ maxNumChannels \in Nat
    /\ Inputs \subseteq Nat /\ 0 \in Inputs
    /\ Thresholds \cup Postamps \cup Recover \subseteq Nat \ {0}
    /\ Thresholds # {} /\ Postamps # {} /\ Recover # {}

VARIABLES lim,       \* the members of the TTLimiter
          out,       \* what was written last, to each channel the signals had
          limit,     \* history: the threshold and postamp in force when a place got its gain
          recorded,  \* history: the places whose sample of a channel came with that gain
          leftOver   \* history: the channels of out that played another sample

vars == <<lim, out, limit, recorded, leftOver>>

Channels == 0..maxNumChannels - 1
Indices == 0..maxBufferSize - 1

(* No gain is above the threshold, nor does it recover past it.            *)
Recovered(l) ==
    LET more == IF l.isLinear \/ l.last <= One \div 100 THEN l.recover
                ELSE (l.recover * l.last) \div One
    IN  Min({l.last + more, l.attrThreshold})

(* The gains from the index backwards, as deep as the ramp is below them.  *)
RampedGain(l, hot, gain) ==
    LET curgain    == (l.attrThreshold * One) \div hot
        inc        == l.attrThreshold - curgain
        newgain(j) == curgain + (IF l.isLinear THEN (inc * j) \div l.attrLookahead
                                 ELSE (inc * j * j) \div (l.attrLookahead * l.attrLookahead))
        ind(j)     == (l.lookaheadBufferIndex - j) % maxBufferSize
        Lowers(j)  == newgain(j) < gain[ind(j)]
        ramp       == { j \in 0..l.attrLookahead - 1 : \A k \in 0..j : Lowers(k) }
    IN  [i \in Indices |->
            IF \E j \in ramp : ind(j) = i THEN newgain(CHOOSE j \in ramp : ind(j) = i) ELSE gain[i]]

(* Slip: the gain follows the last channel alone.                          *)
HottestLast(s) == IF DOMAIN s = {} THEN 0 ELSE s[Max(DOMAIN s)]

Hottest(s) == Max({0} \cup { s[c] : c \in DOMAIN s })

(* The sample that is played: the one at the index, unless the lookahead   *)
(* was made shorter than the index, and then once that much before it.     *)
PlaybackOf(l) ==
    LET p == l.lookaheadBufferIndex - l.attrLookahead
    IN  IF p < 0 THEN p + l.attrLookahead ELSE p

(* Analysis, then the gains, then the next place: the samples are those of *)
(* the channels there are.                                                 *)
Sampled(l, s) ==
    LET i     == l.lookaheadBufferIndex
        hot   == Hottest(s)
        maybe == Recovered(l)
        held  == [l.gain EXCEPT ![i] = maybe]
        gain  == IF hot * maybe > l.attrThreshold * One THEN RampedGain(l, hot, held) ELSE held
    IN  [l EXCEPT !.lookaheadBuffer =
                      [c \in Channels |-> IF c \in DOMAIN s THEN [@[c] EXCEPT ![i] = s[c] * l.attrPostamp]
                                          ELSE @[c]],
                  !.gain = gain,
                  !.last = gain[i],
                  !.lookaheadBufferIndex = IF i + 1 >= l.attrLookahead THEN 0 ELSE i + 1]

(* Clear(), and what updateMaxNumChannels() comes to.                      *)
Cleared(l) ==
    [l EXCEPT !.lookaheadBuffer = [c \in Channels |-> [i \in Indices |-> 0]],
              !.gain = [i \in Indices |-> One], !.lookaheadBufferIndex = 0, !.last = One]

----------------------------------------------------------------------------
Init ==
    /\ lim = [lookaheadBuffer |-> [c \in Channels |-> [i \in Indices |-> 0]],
              gain |-> [i \in Indices |-> One], lookaheadBufferIndex |-> 0, last |-> One,
              attrLookahead |-> maxBufferSize - 1, attrThreshold |-> CHOOSE t \in Thresholds : TRUE,
              attrPostamp |-> CHOOSE p \in Postamps : TRUE, isLinear |-> FALSE,
              recover |-> CHOOSE r \in Recover : TRUE]
    /\ out = [c \in {} |-> [value |-> 0, limit |-> 0]]
    /\ limit = [i \in Indices |-> 0]
    /\ recorded = [c \in Channels |-> Indices]
    /\ leftOver = {}

setThreshold(t) == lim' = [lim EXCEPT !.attrThreshold = t]
setPostamp(p)   == lim' = [lim EXCEPT !.attrPostamp = p]

(* Slip: the lookahead is as long as it is asked to be.                    *)
setLookaheadUnclipped(n) == lim' = [lim EXCEPT !.attrLookahead = n]
setLookahead(n) == lim' = [lim EXCEPT !.attrLookahead = Max({1, Min({n, maxBufferSize - 1})})]

(* setRelease(), setMode() and updateSr() end in setRecover().             *)
setRecover(r, linear) == lim' = [lim EXCEPT !.recover = r, !.isLinear = linear]

SetAttribute ==
    /\ \/ \E t \in Thresholds : setThreshold(t)
       \/ \E p \in Postamps : setPostamp(p)
       \/ \E n \in 0..maxBufferSize : setLookahead(n)
       \/ \E r \in Recover, linear \in BOOLEAN : setRecover(r, linear)
    /\ UNCHANGED <<out, limit, recorded, leftOver>>

Clear ==
    /\ lim' = Cleared(lim)
    /\ limit' = [i \in Indices |-> 0]
    /\ recorded' = [c \in Channels |-> Indices]
    /\ UNCHANGED <<out, leftOver>>

(* A vector may have other channels than the one before: numchannels is    *)
(* the smaller number of its two signals.                                  *)
Sample ==
    \E numchannels \in 0..maxNumChannels :
        \E s \in [0..numchannels - 1 -> Inputs] :
            LET i == lim.lookaheadBufferIndex
                p == PlaybackOf(lim)
            IN  /\ lim' = Sampled(lim, s)
                /\ limit' = [limit EXCEPT ![i] = lim.attrThreshold * lim.attrPostamp]
                /\ recorded' = [c \in Channels |-> IF c \in DOMAIN s THEN recorded[c] \cup {i}
                                                   ELSE recorded[c] \ {i}]
                /\ out' = [c \in DOMAIN s |-> [value |-> lim'.lookaheadBuffer[c][p] * lim'.gain[p],
                                               limit |-> limit'[p]]]
                /\ leftOver' = { c \in DOMAIN s : p \notin recorded'[c] }

Next == SetAttribute \/ Clear \/ Sample

Spec == Init /\ [][Next]_vars

----------------------------------------------------------------------------
TypeOK ==
    /\ lim \in [ lookaheadBuffer : [Channels -> [Indices -> Nat]], gain : [Indices -> Nat],
                 lookaheadBufferIndex : Indices, last : Nat, attrLookahead : 1..maxBufferSize - 1,
                 attrThreshold : Thresholds, attrPostamp : Postamps, isLinear : BOOLEAN,
                 recover : Recover ]
    /\ DOMAIN out \subseteq Channels
    /\ \A c \in DOMAIN out : out[c] \in [value : Nat, limit : Nat]
    /\ limit \in [Indices -> Nat]
    /\ recorded \in [Channels -> SUBSET Indices]
    /\ leftOver \subseteq DOMAIN out

(* No channel plays a sample above the threshold (times the postamp) that  *)
(* was in force when the sample came in, whichever channel was the hot one,*)
(* however the channels came and went, and however the lookahead, the      *)
(* method and the release were changed.  Excepted is a sample left over    *)
(* from before its channel was away: its place has got another gain since, *)
(* and it is played when a shorter lookahead leads back to it (:259).      *)
Limited == \A c \in DOMAIN out \ leftOver : out[c].value <= out[c].limit * One
=============================================================================
