------------------------------- MODULE Units -------------------------------
(***************************************************************************)
(* The units of the extensions, and the external built of two of them, side  *)
(* by side: each behaviour exercises the one that unit names, and leaves   *)
(* the others as they were made.                                           *)
(***************************************************************************)
EXTENDS Integers, FiniteSets

CONSTANTS NOISE_FLOOR, Amplitude, StageTimes, Sustains, Basement, Ceiling,      \* Adsr
          RampValues, RampTimes, RampVectors, RampChannels, Infinity, NaN,      \* Ramp
          One, maxBufferSize, maxNumChannels, Inputs,
          Thresholds, Postamps, Recover,                                        \* Limiter
          BufferChannels, BufferLengths,                                        \* SampleBuffer
          SignalCounts, Gains,                                                  \* MatrixMixer
          Files, NoFile, Seeks, PlayerVectors, OutChannels,                     \* SoundfilePlayer
          N, HostVectors,                                                       \* GainExternal
          NULL

VARIABLES unit,
          eg, tracking,                                         \* Adsr
          ramp,                                                 \* Ramp
          lim, limited, limit, recorded, leftOver,              \* Limiter
          bufferChannels, mLengthInSamples, mContents, emptied, misused,     \* SampleBuffer
          mNumInputs, mNumOutputs, mGainMatrix, asked, written, \* MatrixMixer
          mSoundFile, position, mPlay, mLoop, mContinue, mSeek,
          mNumChannels, mNumBufferFrames, mBuffer, out, resized,             \* SoundfilePlayer
          signalIn, signalOut, signalTemp, sample, chain, outlet, overrun    \* GainExternal

adsrVars == <<eg, tracking>>
limiterVars == <<lim, limited, limit, recorded, leftOver>>
bufferVars == <<bufferChannels, mLengthInSamples, mContents, emptied, misused>>
mixerVars == <<mNumInputs, mNumOutputs, mGainMatrix, asked, written>>
playerVars == <<mSoundFile, position, mPlay, mLoop, mContinue, mSeek,
                mNumChannels, mNumBufferFrames, mBuffer, out, resized>>
gainVars == <<signalIn, signalOut, signalTemp, sample, chain, outlet, overrun>>
vars == <<unit, adsrVars, ramp, limiterVars, bufferVars, mixerVars, playerVars, gainVars>>

A == INSTANCE Adsr WITH Times <- StageTimes

R == INSTANCE Ramp WITH Values <- RampValues, Times <- RampTimes,
                        VectorSizes <- RampVectors, Channels <- RampChannels

L == INSTANCE Limiter WITH out <- limited

B == INSTANCE SampleBuffer WITH ChannelCounts <- BufferChannels, Lengths <- BufferLengths,
                                mNumChannels <- bufferChannels

M == INSTANCE MatrixMixer WITH Counts <- SignalCounts

P == INSTANCE SoundfilePlayer WITH VectorSizes <- PlayerVectors

G == INSTANCE GainExternal WITH VectorSizes <- HostVectors

ASSUME UnitsAssumption ==
    /\ A!ConstantsOK /\ R!ConstantsOK /\ L!ConstantsOK /\ B!ConstantsOK
    /\ M!ConstantsOK /\ P!ConstantsOK /\ G!ConstantsOK

----------------------------------------------------------------------------
Init ==
    /\ unit \in {"adsr", "ramp", "limiter", "buffer", "mixer", "player", "gain"}
    /\ A!Init /\ R!Init /\ L!Init /\ B!Init /\ M!Init /\ P!Init /\ G!Init

ButAdsr == UNCHANGED <<unit, ramp, limiterVars, bufferVars, mixerVars, playerVars, gainVars>>
ButRamp == UNCHANGED <<unit, adsrVars, limiterVars, bufferVars, mixerVars, playerVars, gainVars>>
ButLimiter == UNCHANGED <<unit, adsrVars, ramp, bufferVars, mixerVars, playerVars, gainVars>>
ButBuffer == UNCHANGED <<unit, adsrVars, ramp, limiterVars, mixerVars, playerVars, gainVars>>
ButMixer == UNCHANGED <<unit, adsrVars, ramp, limiterVars, bufferVars, playerVars, gainVars>>
ButPlayer == UNCHANGED <<unit, adsrVars, ramp, limiterVars, bufferVars, mixerVars, gainVars>>
ButGain == UNCHANGED <<unit, adsrVars, ramp, limiterVars, bufferVars, mixerVars, playerVars>>

Next ==
    \/ unit = "adsr"    /\ A!Next /\ ButAdsr
    \/ unit = "ramp"    /\ R!Next /\ ButRamp
    \/ unit = "limiter" /\ L!Next /\ ButLimiter
    \/ unit = "buffer"  /\ B!Next /\ ButBuffer
    \/ unit = "mixer"   /\ M!Next /\ ButMixer
    \/ unit = "player"  /\ P!Next /\ ButPlayer
    \/ unit = "gain"    /\ G!Next /\ ButGain

Spec == Init /\ [][Next]_vars

(* The audio thread keeps asking the unit for samples.                     *)
FairSpec ==
    /\ Spec
    /\ WF_vars(unit = "adsr" /\ A!Sample /\ ButAdsr)
    /\ WF_vars(unit = "ramp" /\ R!Process /\ ButRamp)
    /\ WF_vars(unit = "player" /\ P!processAudio /\ ButPlayer)

----------------------------------------------------------------------------
(* Every unit's members keep their types.                                  *)
TypeOK == A!TypeOK /\ R!TypeOK /\ L!TypeOK /\ B!TypeOK /\ M!TypeOK /\ P!TypeOK /\ G!TypeOK

(* TTAdsr: an attack does not drop, a release does not jump up.            *)
NeverTheWrongWay == A!NeverTheWrongWay

(* TTAdsr: held, it comes to its sustain; let go, to silence.              *)
FollowsItsGate == A!FollowsItsGate

(* TTRamp: a vector moves towards the destination and not past it.         *)
NeverPast == R!NeverPast

(* TTRamp: left alone, it ends.                                            *)
LeftAloneArrives == R!LeftAloneArrives

(* TTLimiter: no channel plays a sample above its threshold.               *)
Limited == L!Limited

(* TTBuffer: what is freed was allocated, what is there has its sizes.     *)
ContentsFit == B!ContentsFit

(* TTMatrixMixer: every pair of signals has the gain that was set.         *)
EveryPairHasItsGain == M!EveryPairHasItsGain

(* TTSoundfilePlayer: a vector has room in the buffer and in the output.   *)
VectorFits == P!VectorFits

(* TTSoundfilePlayer: left alone, it stops at the end of its file.         *)
LeftAloneEnds == P!LeftAloneEnds

(* jcom.gain~: an outlet never carries another channel's sound.            *)
OwnSoundAtOutlet == G!OwnSoundAtOutlet

(* jcom.gain~: what the units write fits the vectors they write to.        *)
OutputsFit == G!OutputsFit
=============================================================================
