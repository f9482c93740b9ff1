----------------------------- MODULE CrossFade -----------------------------
(***************************************************************************)
(* The crossfaded delays of the Max external jcom.vimic~                   *)
(* (implementations/MaxMSP/jcom.vimic~): bang computes where every tap of  *)
(* the delay line should be, and starts a fade when one moves far; perform *)
(* plays the taps where they are, or both places while a fade is on, and   *)
(* then moves them.  A tap is a reflection at a microphone, the direct     *)
(* sound first.                                                            *)
(*                                                                         *)
(* bang runs in the host's control thread and takes critical sections,     *)
(* perform runs in its audio thread and takes none: every read and write   *)
(* of what they share is a step, but for the loops of perform over all the *)
(* taps.  The methods X_FADE_LITE and X_FADE_XL; delays in samples.        *)
(***************************************************************************)
EXTENDS Integers

CONSTANTS numOfChannels, numRefl,
          Delays,                   \* where a source can put a tap
          Lengths, Thresholds,      \* of the fades
          Intervals,                \* in vectors, from a bang to when the taps are moved
          blocksize,
          None

ASSUME ConstantsOK ==
    /\ {numOfChannels, numRefl, blocksize} \subseteq Nat \ {0}
    /\ Intervals \subseteq Nat \ {0} /\ Intervals # {}
    /\ Delays \subseteq Nat /\ 0 \in Delays
    /\ Lengths \cup Thresholds \subseteq Nat \ {0} /\ Lengths # {} /\ Thresholds # {}
    /\ None \notin [fadeLength : Lengths, fadeInIdx : Int, fadeOutIdx : Nat]

VARIABLES delay, currentDelay,  \* of each tap: where it should be, where it is
          fade,                 \* the fade in the queue, or None
          fadeLength, fadeThreshold,
          renderInterval,
          grainCounter,         \* vectors since the last bang, no more than the interval
          sounding,             \* the microphones whose gain is not zero
          bang, perform,        \* where each thread is, and its locals
          jumped                \* history: a tap was moved further than the threshold, unfaded

attributes == <<fadeLength, fadeThreshold, renderInterval, sounding>>
shared == <<delay, currentDelay, fade, attributes, grainCounter>>
vars == <<shared, bang, perform, jumped>>

Taps == 0..numOfChannels * numRefl - 1
Mics == 0..numOfChannels - 1
MicOf(i) == i \div numRefl

(* The direct sound of the microphone a tap belongs to: vimic_mirrors()    *)
(* hands its current delay to every reflection as the old one.             *)
OldTap(i) == MicOf(i) * numRefl

Far(a, b) == a - b > fadeThreshold \/ b - a > fadeThreshold

atStart(f) == f.fadeOutIdx = 0

(* CrossFade::increment(), which ends the fade and takes it off the queue. *)
Incremented(f) ==
    LET next == [f EXCEPT !.fadeOutIdx = @ + 1, !.fadeInIdx = @ - 1]
    IN  IF next.fadeOutIdx >= next.fadeLength THEN None ELSE next

(* perform's locals last for a vector.                                     *)
BetweenVectors ==
    [pc |-> "begin", renderInterval |-> 0, GrainCounter |-> 0, micGainNonZero |-> {}, n |-> 0]

----------------------------------------------------------------------------
Init ==
    /\ delay = [i \in Taps |-> 0] /\ currentDelay = [i \in Taps |-> 0]
    /\ fade = None
    /\ fadeLength = CHOOSE n \in Lengths : TRUE
    /\ fadeThreshold = CHOOSE n \in Thresholds : TRUE
    /\ renderInterval = CHOOSE n \in Intervals : TRUE
    /\ grainCounter = 0
    /\ sounding = Mics
    /\ bang = [pc |-> "idle", tap |-> 0, newDel |-> 0]
    /\ perform = BetweenVectors
    /\ jumped = FALSE

(* bang, in the control thread.                                            *)
Goto(pc) == bang' = [bang EXCEPT !.pc = pc]

NextTap ==
    bang' = IF bang.tap + 1 \in Taps THEN [pc |-> "update", tap |-> bang.tap + 1, newDel |-> 0]
            ELSE [pc |-> "end", tap |-> 0, newDel |-> 0]

(* A bang with something to do: a source, a microphone or a gain that was  *)
(* changed.                                                                *)
BangStart ==
    /\ bang.pc = "idle"
    /\ bang' = [bang EXCEPT !.pc = "update"]
    /\ UNCHANGED shared

(* The new delay of a tap, and whether there is a fade to mind.  Where the *)
(* microphone and the order of the reflection both have no gain, the tap   *)
(* is passed over, like one that stays.                                    *)
Update ==
    /\ bang.pc = "update"
    /\ \E newDel \in Delays :
         IF newDel = delay[bang.tap] THEN NextTap
         ELSE bang' = [bang EXCEPT !.newDel = newDel, !.pc = IF fade = None THEN "set" ELSE "atStart"]
    /\ UNCHANGED shared

(* atStart() asks again, and then reads the front of the queue: of a queue *)
(* that may have become empty, and whatever that reads.                    *)
AtStart ==
    /\ bang.pc = "atStart"
    /\ Goto(IF fade = None THEN "compare" ELSE "front")
    /\ UNCHANGED shared

Front ==
    /\ bang.pc = "front"
    /\ \/ fade # None /\ Goto(IF atStart(fade) THEN "set" ELSE "compare")
       \/ fade = None /\ \E pc \in {"set", "compare"} : Goto(pc)
    /\ UNCHANGED shared

Set ==
    /\ bang.pc = "set"
    /\ delay' = [delay EXCEPT ![bang.tap] = bang.newDel]
    /\ Goto("compare")
    /\ UNCHANGED <<currentDelay, fade, attributes, grainCounter>>

Compare ==
    /\ bang.pc = "compare"
    /\ IF Far(delay[bang.tap], currentDelay[OldTap(bang.tap)]) THEN Goto("startFade") ELSE NextTap
    /\ UNCHANGED shared

(* Slip: a fade that is on is started again.                               *)
startFadeAgain ==
    /\ bang.pc = "startFade"
    /\ fade' = [fadeLength |-> fadeLength, fadeInIdx |-> fadeLength - 1, fadeOutIdx |-> 0]
    /\ NextTap
    /\ UNCHANGED <<delay, currentDelay, attributes, grainCounter>>

startFade ==
    /\ bang.pc = "startFade"
    /\ fade' = IF fade # None THEN fade
               ELSE [fadeLength |-> fadeLength, fadeInIdx |-> fadeLength - 1, fadeOutIdx |-> 0]
    /\ NextTap
    /\ UNCHANGED <<delay, currentDelay, attributes, grainCounter>>

BangEnd ==
    /\ bang.pc = "end"
    /\ grainCounter' = 0
    /\ Goto("idle")
    /\ UNCHANGED <<delay, currentDelay, fade, attributes>>

Bang == Update \/ AtStart \/ Front \/ Set \/ Compare \/ startFade \/ BangEnd

Attribute == bang.pc = "idle" /\ UNCHANGED <<delay, currentDelay, grainCounter, bang>>

(* Slip: the length may change at any time.                                *)
vimic_xFadeLengthAnyTime(n) ==
    /\ Attribute
    /\ fadeLength' = n
    /\ fade' = IF fade = None THEN None ELSE [fade EXCEPT !.fadeLength = n]
    /\ UNCHANGED <<fadeThreshold, renderInterval, sounding>>

(* The attributes; the table is as long as the fade.                       *)
vimic_xFadeLength(n) ==
    /\ Attribute /\ fade = None
    /\ fadeLength' = n
    /\ UNCHANGED <<fade, fadeThreshold, renderInterval, sounding>>

vimic_xFadeThreshold(n) ==
    /\ Attribute
    /\ fadeThreshold' = n
    /\ UNCHANGED <<fade, fadeLength, renderInterval, sounding>>

vimic_renderintervall(n) ==
    /\ Attribute
    /\ renderInterval' = n
    /\ UNCHANGED <<fade, fadeLength, fadeThreshold, sounding>>

(* The gain of one microphone, or of all, to zero or from it.              *)
vimic_micGain(mics) ==
    /\ Attribute
    /\ sounding' \in {sounding \cup mics, sounding \ mics}
    /\ UNCHANGED <<fade, fadeLength, fadeThreshold, renderInterval>>

Control ==
    /\ \/ BangStart \/ Bang
       \/ \E n \in Lengths : vimic_xFadeLength(n)
       \/ \E n \in Thresholds : vimic_xFadeThreshold(n)
       \/ \E n \in Intervals : vimic_renderintervall(n)
       \/ \E mics \in { {m} : m \in Mics } \cup {Mics} : vimic_micGain(mics)
    /\ UNCHANGED <<perform, jumped>>

----------------------------------------------------------------------------
(* perform, in the audio thread: a vector of blocksize samples.            *)
At(pc) == perform.pc = pc
To(pc) == perform' = [perform EXCEPT !.pc = pc]

NextSample ==
    perform' = IF perform.n > 1 THEN [perform EXCEPT !.pc = "sample", !.n = @ - 1]
               ELSE [perform EXCEPT !.pc = "end", !.n = 0]

(* What it works with for a vector, read once.                             *)
VectorBegin ==
    /\ At("begin")
    /\ perform' = [perform EXCEPT !.pc = "counter", !.renderInterval = renderInterval]
    /\ UNCHANGED <<shared, jumped>>

Counter ==
    /\ At("counter")
    /\ perform' = [perform EXCEPT !.pc = "gains", !.GrainCounter = grainCounter]
    /\ UNCHANGED <<shared, jumped>>

Gains ==
    /\ At("gains")
    /\ perform' = [perform EXCEPT !.pc = "sample", !.micGainNonZero = sounding, !.n = blocksize]
    /\ UNCHANGED <<shared, jumped>>

Sample ==
    /\ At("sample")
    /\ To(IF fade # None THEN "fade" ELSE "steady")
    /\ UNCHANGED <<shared, jumped>>

(* Both delays of each tap are heard; then the fade goes on.               *)
Fade ==
    /\ At("fade")
    /\ fade' = Incremented(fade)
    /\ To("faded")
    /\ UNCHANGED <<delay, currentDelay, attributes, grainCounter, jumped>>

(* At its end all the taps are moved, those that are not heard too.        *)
Faded ==
    /\ At("faded")
    /\ currentDelay' = IF fade = None THEN delay ELSE currentDelay
    /\ NextSample
    /\ UNCHANGED <<delay, fade, attributes, grainCounter, jumped>>

(* The taps of the microphones that are heard, where they should be.       *)
Moved == [i \in Taps |-> IF MicOf(i) \in perform.micGainNonZero THEN delay[i] ELSE currentDelay[i]]

(* Slip: it waits for the very vector that the interval ends with.         *)
SteadyOnTheDot ==
    /\ At("steady")
    /\ currentDelay' = IF perform.GrainCounter # perform.renderInterval THEN currentDelay ELSE Moved
    /\ NextSample
    /\ UNCHANGED <<delay, fade, attributes, grainCounter, jumped>>

(* No fade: the taps that are heard are where they should be, from         *)
(* renderInterval vectors after the bang.                                  *)
Steady ==
    /\ At("steady")
    /\ currentDelay' = IF perform.GrainCounter < perform.renderInterval THEN currentDelay ELSE Moved
    /\ jumped' = (jumped \/ \E i \in Taps : Far(currentDelay[i], currentDelay'[i]))
    /\ NextSample
    /\ UNCHANGED <<delay, fade, attributes, grainCounter>>

(* Slip: it counts on.                                                     *)
VectorEndCounting ==
    /\ At("end")
    /\ perform' = [perform EXCEPT !.pc = "count", !.GrainCounter = grainCounter]
    /\ UNCHANGED <<shared, jumped>>

(* grainCounter++, which is a read and a write.                            *)
VectorEnd ==
    /\ At("end")
    /\ perform' = IF grainCounter < perform.renderInterval
                  THEN [perform EXCEPT !.pc = "count", !.GrainCounter = grainCounter]
                  ELSE BetweenVectors
    /\ UNCHANGED <<shared, jumped>>

Count ==
    /\ At("count")
    /\ grainCounter' = perform.GrainCounter + 1
    /\ perform' = BetweenVectors
    /\ UNCHANGED <<delay, currentDelay, fade, attributes, jumped>>

Perform ==
    /\ VectorBegin \/ Counter \/ Gains \/ Sample \/ Fade \/ Faded \/ Steady \/ VectorEnd \/ Count
    /\ UNCHANGED bang

Next == Control \/ Perform

Spec == Init /\ [][Next]_vars

(* The host keeps asking for vectors, and a bang it has begun goes on.     *)
FairSpec == Spec /\ WF_vars(Perform) /\ WF_vars(Bang /\ UNCHANGED <<perform, jumped>>)

----------------------------------------------------------------------------
(* Made smaller, an interval may be less than what was counted.            *)
Counters == { n \in Nat : \E interval \in Intervals : n <= interval }

TypeOK ==
    /\ delay \in [Taps -> Delays] /\ currentDelay \in [Taps -> Delays]
    /\ fade = None \/ fade \in [fadeLength : Lengths, fadeInIdx : Int, fadeOutIdx : Nat]
    /\ fadeLength \in Lengths /\ fadeThreshold \in Thresholds
    /\ renderInterval \in Intervals /\ sounding \subseteq Mics
    /\ grainCounter \in Counters
    /\ bang \in [ pc : {"idle", "update", "atStart", "front", "set", "compare", "startFade", "end"},
                  tap : Taps, newDel : Delays ]
    /\ perform \in [ pc : {"begin", "counter", "gains", "sample", "fade", "faded", "steady", "end", "count"},
                     renderInterval : Intervals \cup {0}, GrainCounter : Counters,
                     micGainNonZero : SUBSET Mics, n : 0..blocksize ]
    /\ jumped \in BOOLEAN

(* A fade reads its gains inside the table, forward and backward from its  *)
(* two ends, so that the assertion at its end (CrossFade.h:64) holds, when *)
(* ever the length was changed.                                            *)
InsideTheTable ==
    fade # None => /\ fade.fadeOutIdx \in 0..fadeLength - 1
                   /\ fade.fadeInIdx = fadeLength - 1 - fade.fadeOutIdx

(* Every fade ends, bang as often as you like.                             *)
FadesEnd == (fade # None) ~> (fade = None)

(* When bangs stop coming, every tap of a microphone that is heard from    *)
(* then on is moved to where the last of them put it, whatever the two     *)
(* threads did between each other's steps.  One that is not heard may stay *)
(* behind: nothing but the end of a fade moves it.                         *)
Settles ==
    \A i \in Taps : <>[](bang.pc = "idle" /\ MicOf(i) \in sounding) => <>[](currentDelay[i] = delay[i])

(* A crossfade "occurs when a delay time changes quickly enough that the   *)
(* old delay time must be crossfaded" (CrossFade.h:6): no tap is moved     *)
(* further than the threshold without one.                                 *)
NoJump == ~jumped
=============================================================================
