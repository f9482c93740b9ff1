--------------------------- MODULE CrossFadeProofs ---------------------------
(***************************************************************************)
(* A fade stays inside its table, for any number of taps and any delays,   *)
(* lengths and vectors, in every interleaving of bang and perform.         *)
(***************************************************************************)
EXTENDS CrossFade, TLAPS

Fading == [fadeLength : Lengths, fadeInIdx : Int, fadeOutIdx : Nat]

(* The fade that is on has the length that is set.                         *)
FadeOK ==
    fade # None => /\ fade \in Fading /\ fade.fadeLength = fadeLength
                   /\ fade.fadeOutIdx \in 0..fadeLength - 1
                   /\ fade.fadeInIdx = fadeLength - 1 - fade.fadeOutIdx

SharedOK ==
    /\ delay \in [Taps -> Delays] /\ currentDelay \in [Taps -> Delays]
    /\ fadeLength \in Lengths /\ fadeThreshold \in Thresholds
    /\ renderInterval \in Intervals /\ sounding \subseteq Mics
    /\ grainCounter \in Counters
    /\ FadeOK

BangOK ==
    bang \in [ pc : {"idle", "update", "atStart", "front", "set", "compare", "startFade", "end"},
               tap : Taps, newDel : Delays ]

(* What the audio thread has found, the control thread does not take away: *)
(* it starts fades and ends none, and it resets the counter.               *)
PerformOK ==
    /\ perform \in [ pc : {"begin", "counter", "gains", "sample", "fade", "faded", "steady", "end", "count"},
                     renderInterval : Intervals \cup {0}, GrainCounter : Counters,
                     micGainNonZero : SUBSET Mics, n : 0..blocksize ]
    /\ jumped \in BOOLEAN
    /\ perform.pc = "fade" => fade # None
    /\ perform.pc = "count" => perform.GrainCounter < perform.renderInterval

IInv == SharedOK /\ BangOK /\ PerformOK

----------------------------------------------------------------------------
LEMMA FirstTap == 0 \in Taps /\ 0 \in Delays
<1>1. numOfChannels \in Nat \ {0} /\ numRefl \in Nat \ {0} /\ 0 \in Delays
      BY ConstantsOK
<1>2. numOfChannels * numRefl \in Nat \ {0}
      BY <1>1
<1>. QED BY <1>1, <1>2 DEF Taps

(* No vectors counted is always right, and one more where a vector has not *)
(* come to its interval.                                                   *)
LEMMA Counting ==
    /\ 0 \in Counters
    /\ \A n \in Counters, interval \in Intervals \cup {0} : n < interval => n + 1 \in Counters
<1>1. Intervals \subseteq Nat \ {0} /\ Intervals # {}
      BY ConstantsOK
<1>2. PICK some \in Intervals : some \in Nat
      BY <1>1
<1>3. ASSUME NEW n \in Counters, NEW interval \in Intervals \cup {0}, n < interval
      PROVE  n + 1 \in Counters
  <2>1. n \in Nat
        BY DEF Counters
  <2>2. interval \in Intervals
        BY <1>3, <2>1
  <2>. interval \in Nat
        BY <1>1, <2>2
  <2>3. n + 1 <= interval /\ n + 1 \in Nat
        BY <1>3, <2>1, <2>2
  <2>. QED BY <2>2, <2>3 DEF Counters
<1>. QED BY <1>2, <1>3 DEF Counters

(* A fade just started.                                                    *)
LEMMA StartedOK ==
    ASSUME fadeLength \in Lengths,
           NEW f, f = [fadeLength |-> fadeLength, fadeInIdx |-> fadeLength - 1, fadeOutIdx |-> 0]
    PROVE  /\ f \in Fading /\ f.fadeLength = fadeLength
           /\ f.fadeOutIdx \in 0..fadeLength - 1
           /\ f.fadeInIdx = fadeLength - 1 - f.fadeOutIdx
<1>1. fadeLength \in Nat \ {0}
      BY ConstantsOK
<1>. QED BY <1>1 DEF Fading

(* A fade with other indices.                                              *)
Reindexed(f, out, in) == [f EXCEPT !.fadeOutIdx = out, !.fadeInIdx = in]

LEMMA ReindexedFields ==
    ASSUME NEW f \in Fading, NEW out \in Nat, NEW in \in Int
    PROVE  LET g == Reindexed(f, out, in)
           IN  g \in Fading /\ g.fadeLength = f.fadeLength /\ g.fadeOutIdx = out /\ g.fadeInIdx = in
BY DEF Fading, Reindexed

LEMMA IncrementedOK ==
    ASSUME FadeOK, fade # None, fadeLength \in Lengths,
           NEW f, f = Incremented(fade), f # None
    PROVE  /\ f \in Fading /\ f.fadeLength = fadeLength
           /\ f.fadeOutIdx \in 0..fadeLength - 1
           /\ f.fadeInIdx = fadeLength - 1 - f.fadeOutIdx
<1> DEFINE next == [fade EXCEPT !.fadeOutIdx = @ + 1, !.fadeInIdx = @ - 1]
<1>1. fadeLength \in Nat \ {0}
      BY ConstantsOK
<1>2. f = next /\ ~(next.fadeOutIdx >= next.fadeLength)
      BY DEF Incremented
<1>3. /\ fade \in Fading /\ fade.fadeLength = fadeLength
      /\ fade.fadeOutIdx \in 0..fadeLength - 1
      /\ fade.fadeInIdx = fadeLength - 1 - fade.fadeOutIdx
      BY DEF FadeOK
<1> DEFINE out == fade.fadeOutIdx + 1
           in  == fade.fadeInIdx - 1
<1>4. out \in Nat /\ in \in Int /\ next = Reindexed(fade, out, in)
      BY <1>3 DEF Fading, Reindexed
<1> HIDE DEF next
<1>5. /\ next \in Fading /\ next.fadeLength = fadeLength
      /\ next.fadeOutIdx = out /\ next.fadeInIdx = in
  <2> HIDE DEF out, in
  <2>1. LET g == Reindexed(fade, out, in)
        IN  g \in Fading /\ g.fadeLength = fade.fadeLength /\ g.fadeOutIdx = out /\ g.fadeInIdx = in
        BY <1>3, <1>4, ReindexedFields
  <2>. QED BY <1>3, <1>4, <2>1, Zenon
<1>. QED BY <1>1, <1>2, <1>3, <1>5

----------------------------------------------------------------------------
(* The control thread                                                      *)

LEMMA NextTapOK == ASSUME IInv, NextTap PROVE BangOK'
<1>1. CASE bang.tap + 1 \in Taps
      BY <1>1, FirstTap DEF NextTap, BangOK
<1>2. CASE bang.tap + 1 \notin Taps
      BY <1>2, FirstTap DEF NextTap, BangOK
<1>. QED BY <1>1, <1>2

LEMMA GotoOK ==
    ASSUME IInv, NEW pc \in {"idle", "update", "atStart", "front", "set", "compare", "startFade", "end"},
           Goto(pc)
    PROVE  BangOK'
BY DEF Goto, IInv, BangOK

(* A step of the control thread that leaves what is shared alone, or       *)
(* starts a fade.                                                          *)
LEMMA ControlOK ==
    ASSUME IInv, BangOK', SharedOK', UNCHANGED <<perform, jumped>>, fade # None => fade' # None
    PROVE  IInv'
BY DEF IInv, PerformOK

LEMMA SharedStays == ASSUME IInv, UNCHANGED shared PROVE SharedOK' /\ fade' = fade
BY DEF IInv, SharedOK, FadeOK, shared, attributes

LEMMA UpdateOK == ASSUME IInv, Update PROVE BangOK' /\ UNCHANGED shared
<1>1. PICK newDel \in Delays :
        IF newDel = delay[bang.tap] THEN NextTap
        ELSE bang' = [bang EXCEPT !.newDel = newDel, !.pc = IF fade = None THEN "set" ELSE "atStart"]
      BY Zenon DEF Update
<1>2. CASE newDel = delay[bang.tap]
      BY <1>1, <1>2, NextTapOK DEF Update
<1>3. CASE newDel # delay[bang.tap]
      BY <1>1, <1>3 DEF Update, IInv, BangOK
<1>. QED BY <1>2, <1>3

LEMMA SetOK == ASSUME IInv, Set PROVE BangOK' /\ SharedOK' /\ fade' = fade
<1>1. BangOK'
      BY GotoOK DEF Set
<1>2. delay' \in [Taps -> Delays]
      BY DEF Set, IInv, BangOK, SharedOK
<1>. QED BY <1>1, <1>2 DEF Set, attributes, IInv, SharedOK, FadeOK

LEMMA startFadeOK == ASSUME IInv, startFade PROVE BangOK' /\ SharedOK' /\ fade' # None
<1>1. BangOK'
      BY NextTapOK DEF startFade
<1>2. UNCHANGED <<delay, currentDelay, fadeLength, fadeThreshold, renderInterval, sounding, grainCounter>>
      BY DEF startFade, attributes
<1>3. CASE fade # None
      BY <1>1, <1>2, <1>3 DEF startFade, IInv, SharedOK, FadeOK
<1>4. CASE fade = None
  <2>1. fade' = [fadeLength |-> fadeLength, fadeInIdx |-> fadeLength - 1, fadeOutIdx |-> 0]
        BY <1>4 DEF startFade
  <2>2. /\ fade' \in Fading /\ fade'.fadeLength = fadeLength
        /\ fade'.fadeOutIdx \in 0..fadeLength - 1
        /\ fade'.fadeInIdx = fadeLength - 1 - fade'.fadeOutIdx
        BY <2>1, StartedOK DEF IInv, SharedOK
  <2>3. FadeOK'
        BY <1>2, <2>2 DEF FadeOK
  <2>4. fade' # None
        BY <2>2, ConstantsOK DEF Fading
  <2>. QED BY <1>1, <1>2, <2>3, <2>4 DEF IInv, SharedOK
<1>. QED BY <1>3, <1>4

LEMMA BangEndOK == ASSUME IInv, BangEnd PROVE BangOK' /\ SharedOK' /\ fade' = fade
<1>1. BangOK'
      BY GotoOK DEF BangEnd
<1>2. grainCounter' \in Counters
      BY Counting DEF BangEnd
<1>. QED BY <1>1, <1>2 DEF BangEnd, attributes, IInv, SharedOK, FadeOK

LEMMA AttributeOK ==
    ASSUME IInv,
           \/ \E n \in Lengths : vimic_xFadeLength(n)
           \/ \E n \in Thresholds : vimic_xFadeThreshold(n)
           \/ \E n \in Intervals : vimic_renderintervall(n)
           \/ \E mics \in { {m} : m \in Mics } \cup {Mics} : vimic_micGain(mics)
    PROVE  BangOK' /\ SharedOK' /\ UNCHANGED <<delay, currentDelay, fade>>
<1>1. ASSUME NEW n \in Lengths, vimic_xFadeLength(n)
      PROVE  BangOK' /\ SharedOK' /\ UNCHANGED <<delay, currentDelay, fade>>
      BY <1>1 DEF vimic_xFadeLength, Attribute, IInv, BangOK, SharedOK, FadeOK
<1>2. ASSUME NEW n \in Thresholds, vimic_xFadeThreshold(n)
      PROVE  BangOK' /\ SharedOK' /\ UNCHANGED <<delay, currentDelay, fade>>
      BY <1>2 DEF vimic_xFadeThreshold, Attribute, IInv, BangOK, SharedOK, FadeOK
<1>3. ASSUME NEW n \in Intervals, vimic_renderintervall(n)
      PROVE  BangOK' /\ SharedOK' /\ UNCHANGED <<delay, currentDelay, fade>>
      BY <1>3 DEF vimic_renderintervall, Attribute, IInv, BangOK, SharedOK, FadeOK
<1>4. ASSUME NEW mics \in { {m} : m \in Mics } \cup {Mics}, vimic_micGain(mics)
      PROVE  BangOK' /\ SharedOK' /\ UNCHANGED <<delay, currentDelay, fade>>
  <2>1. mics \subseteq Mics
        OBVIOUS
  <2>2. sounding' \subseteq Mics
        BY <1>4, <2>1 DEF vimic_micGain, IInv, SharedOK
  <2>. QED BY <1>4, <2>2 DEF vimic_micGain, Attribute, IInv, BangOK, SharedOK, FadeOK
<1>. QED BY <1>1, <1>2, <1>3, <1>4

(* While a fade is on, the control thread does not touch it.               *)
LEMMA FadeUntouched == ASSUME IInv, Control, fade # None PROVE fade' = fade
<1>1. CASE BangStart \/ AtStart \/ Front \/ Compare
      BY <1>1 DEF BangStart, AtStart, Front, Compare, shared
<1>2. CASE Update
      BY <1>2, UpdateOK, SharedStays
<1>3. CASE Set \/ BangEnd
      BY <1>3, SetOK, BangEndOK
<1>4. CASE startFade
      BY <1>4 DEF startFade
<1>. QED BY <1>1, <1>2, <1>3, <1>4, AttributeOK DEF Control, Bang

LEMMA ControlKeeps == ASSUME IInv, Control PROVE IInv'
<1>1. CASE BangStart
      BY <1>1, SharedStays, ControlOK DEF Control, BangStart, IInv, BangOK
<1>2. CASE Update
      BY <1>2, UpdateOK, SharedStays, ControlOK DEF Control
<1>3. CASE AtStart
      BY <1>3, GotoOK, SharedStays, ControlOK DEF Control, AtStart
<1>4. CASE Front
      BY <1>4, GotoOK, SharedStays, ControlOK DEF Control, Front
<1>5. CASE Set
      BY <1>5, SetOK, ControlOK DEF Control
<1>6. CASE Compare
      BY <1>6, GotoOK, NextTapOK, SharedStays, ControlOK DEF Control, Compare
<1>7. CASE startFade
      BY <1>7, startFadeOK, ControlOK DEF Control
<1>8. CASE BangEnd
      BY <1>8, BangEndOK, ControlOK DEF Control
<1>9. CASE \/ \E n \in Lengths : vimic_xFadeLength(n)
           \/ \E n \in Thresholds : vimic_xFadeThreshold(n)
           \/ \E n \in Intervals : vimic_renderintervall(n)
           \/ \E mics \in { {m} : m \in Mics } \cup {Mics} : vimic_micGain(mics)
      BY <1>9, AttributeOK, ControlOK DEF Control
<1>. QED BY <1>1, <1>2, <1>3, <1>4, <1>5, <1>6, <1>7, <1>8, <1>9 DEF Control, Bang

----------------------------------------------------------------------------
(* The audio thread                                                        *)

LEMMA NextSampleOK ==
    ASSUME IInv, NextSample, jumped' \in BOOLEAN
    PROVE  PerformOK'
<1> DEFINE n == perform.n
<1>1. blocksize \in Nat /\ n \in 0..blocksize
      BY ConstantsOK DEF IInv, PerformOK
<1>2. 0 \in 0..blocksize /\ (n > 1 => n - 1 \in 0..blocksize)
      BY <1>1
<1>3. CASE n > 1
      BY <1>2, <1>3 DEF NextSample, IInv, PerformOK
<1>4. CASE ~(n > 1)
      BY <1>2, <1>4 DEF NextSample, IInv, PerformOK
<1>. QED BY <1>3, <1>4

LEMMA VectorBeginKeeps == ASSUME IInv, VectorBegin, UNCHANGED bang PROVE IInv'
<1>1. PerformOK'
      BY DEF VectorBegin, IInv, SharedOK, PerformOK
<1>. QED BY <1>1, SharedStays DEF VectorBegin, IInv, BangOK

LEMMA CounterKeeps == ASSUME IInv, Counter, UNCHANGED bang PROVE IInv'
<1>1. PerformOK'
      BY DEF Counter, IInv, SharedOK, PerformOK
<1>. QED BY <1>1, SharedStays DEF Counter, IInv, BangOK

LEMMA GainsKeeps == ASSUME IInv, Gains, UNCHANGED bang PROVE IInv'
<1>1. blocksize \in 0..blocksize
      BY ConstantsOK
<1>2. PerformOK'
      BY <1>1 DEF Gains, IInv, SharedOK, PerformOK
<1>. QED BY <1>2, SharedStays DEF Gains, IInv, BangOK

LEMMA BetweenVectorsOK ==
    ASSUME PerformOK, perform' = BetweenVectors, UNCHANGED jumped
    PROVE  PerformOK'
<1>1. 0 \in 0..blocksize /\ 0 \in Counters
      BY ConstantsOK, Counting
<1>. QED BY <1>1 DEF PerformOK, BetweenVectors

LEMMA SampleKeeps == ASSUME IInv, Sample, UNCHANGED bang PROVE IInv'
<1>1. fade' = fade /\ SharedOK'
      BY SharedStays DEF Sample
<1>2. PerformOK'
      BY <1>1 DEF Sample, To, IInv, PerformOK
<1>. QED BY <1>1, <1>2 DEF IInv, BangOK

LEMMA FadeKeeps == ASSUME IInv, Fade, UNCHANGED bang PROVE IInv'
<1>1. UNCHANGED <<delay, currentDelay, fadeLength, fadeThreshold, renderInterval, sounding,
                  grainCounter, jumped>>
      BY DEF Fade, attributes
<1>2. fade # None /\ fade' = Incremented(fade)
      BY DEF Fade, At, IInv, PerformOK
<1>3. FadeOK'
  <2>1. ASSUME fade' # None
        PROVE  /\ fade' \in Fading /\ fade'.fadeLength = fadeLength
               /\ fade'.fadeOutIdx \in 0..fadeLength - 1
               /\ fade'.fadeInIdx = fadeLength - 1 - fade'.fadeOutIdx
        BY <1>2, <2>1, IncrementedOK DEF IInv, SharedOK
  <2>. QED BY <1>1, <2>1 DEF FadeOK
<1>4. PerformOK'
      BY <1>1 DEF Fade, To, IInv, PerformOK
<1>. QED BY <1>1, <1>3, <1>4 DEF IInv, SharedOK, BangOK

LEMMA FadedKeeps == ASSUME IInv, Faded, UNCHANGED bang PROVE IInv'
<1>1. PerformOK'
      BY NextSampleOK DEF Faded, IInv, PerformOK
<1>2. SharedOK'
      BY DEF Faded, attributes, IInv, SharedOK, FadeOK
<1>. QED BY <1>1, <1>2 DEF IInv, BangOK

LEMMA SteadyKeeps == ASSUME IInv, Steady, UNCHANGED bang PROVE IInv'
<1>1. jumped' \in BOOLEAN
      BY Zenon DEF Steady
<1>2. PerformOK'
      BY <1>1, NextSampleOK DEF Steady
<1>3. currentDelay' \in [Taps -> Delays]
      BY DEF Steady, Moved, IInv, SharedOK
<1>4. SharedOK'
      BY <1>3 DEF Steady, attributes, IInv, SharedOK, FadeOK
<1>. QED BY <1>2, <1>4 DEF IInv, BangOK

LEMMA VectorEndKeeps == ASSUME IInv, VectorEnd, UNCHANGED bang PROVE IInv'
<1>1. CASE grainCounter < perform.renderInterval
  <2>1. PerformOK'
        BY <1>1 DEF VectorEnd, IInv, SharedOK, PerformOK
  <2>. QED BY <2>1, SharedStays DEF VectorEnd, IInv, BangOK
<1>2. CASE ~(grainCounter < perform.renderInterval)
      BY <1>2, BetweenVectorsOK, SharedStays DEF VectorEnd, IInv, BangOK
<1>. QED BY <1>1, <1>2

LEMMA CountKeeps == ASSUME IInv, Count, UNCHANGED bang PROVE IInv'
<1>1. grainCounter' \in Counters
  <2>1. /\ perform.GrainCounter \in Counters /\ perform.renderInterval \in Intervals \cup {0}
        /\ perform.GrainCounter < perform.renderInterval
        BY DEF Count, At, IInv, PerformOK
  <2>. QED BY <2>1, Counting DEF Count
<1>2. SharedOK'
      BY <1>1 DEF Count, attributes, IInv, SharedOK, FadeOK
<1>3. PerformOK'
      BY BetweenVectorsOK DEF Count, IInv
<1>. QED BY <1>2, <1>3 DEF IInv, BangOK

----------------------------------------------------------------------------
LEMMA InitOK == Init => IInv
<1> SUFFICES ASSUME Init
             PROVE  IInv
    OBVIOUS
<1>1. fadeLength \in Lengths /\ fadeThreshold \in Thresholds /\ renderInterval \in Intervals
      BY ConstantsOK DEF Init
<1>2. SharedOK
      BY <1>1, FirstTap, Counting DEF Init, SharedOK, FadeOK
<1>3. BangOK
      BY FirstTap DEF Init, BangOK
<1>4. PerformOK
  <2>1. 0 \in Counters /\ 0 \in 0..blocksize
        BY ConstantsOK, Counting
  <2>2. perform = BetweenVectors /\ perform.pc = "begin"
        BY DEF Init, BetweenVectors
  <2>3. jumped \in BOOLEAN
        BY Zenon DEF Init
  <2>. QED BY <2>1, <2>2, <2>3 DEF PerformOK, BetweenVectors
<1>. QED BY <1>2, <1>3, <1>4 DEF IInv

LEMMA Invariance == Spec => []IInv
<1>1. IInv /\ [Next]_vars => IInv'
  <2> SUFFICES ASSUME IInv, [Next]_vars
               PROVE  IInv'
      OBVIOUS
  <2>1. CASE UNCHANGED vars
        BY <2>1, SharedStays DEF vars, shared, attributes, IInv, BangOK, PerformOK
  <2>. QED BY <2>1, ControlKeeps, VectorBeginKeeps, CounterKeeps, GainsKeeps, SampleKeeps, FadeKeeps, FadedKeeps,
              SteadyKeeps, VectorEndKeeps, CountKeeps DEF Next, Perform
<1>. QED BY <1>1, InitOK, PTL DEF Spec

(* TypeOK: what the two threads share, and where each of them is, keep     *)
(* their types whatever each reads of the other's.                         *)
THEOREM FadeTypeOK == Spec => []TypeOK
<1>1. IInv => TypeOK
      BY DEF IInv, SharedOK, FadeOK, Fading, BangOK, PerformOK, TypeOK
<1>. QED BY <1>1, Invariance, PTL

(* InsideTheTable: a fade reads its gains inside the table, from its two   *)
(* ends, whenever the length was changed.                                  *)
THEOREM FadesStayInside == Spec => []InsideTheTable
<1>1. IInv => InsideTheTable
      BY DEF IInv, SharedOK, FadeOK, InsideTheTable
<1>. QED BY <1>1, Invariance, PTL

(* A fade that is on plays its whole table: nothing but its next sample    *)
(* moves it on, no bang starts it again or changes its length, and it ends *)
(* only after the last place of the table.  With the fairness of perform   *)
(* this is why FadesEnd holds.                                             *)
THEOREM FadesArePlayedOut ==
    Spec => [][fade # None =>
                  \/ fade' = fade
                  \/ /\ fade' # None /\ fade'.fadeLength = fade.fadeLength
                     /\ fade'.fadeOutIdx = fade.fadeOutIdx + 1
                  \/ fade' = None /\ fade.fadeOutIdx = fade.fadeLength - 1]_vars
<1> DEFINE PlaysOn == \/ fade' = fade
                      \/ /\ fade' # None /\ fade'.fadeLength = fade.fadeLength
                         /\ fade'.fadeOutIdx = fade.fadeOutIdx + 1
                      \/ fade' = None /\ fade.fadeOutIdx = fade.fadeLength - 1
<1>1. ASSUME IInv, Next, fade # None
      PROVE  PlaysOn
  <2>1. CASE Control
        BY <1>1, <2>1, FadeUntouched
  <2>2. CASE Perform /\ ~Fade
        BY <2>2 DEF Perform, VectorBegin, Counter, Gains, Sample, Faded, Steady, VectorEnd, Count, shared
  <2>3. CASE Fade
    <3> DEFINE next == [fade EXCEPT !.fadeOutIdx = @ + 1, !.fadeInIdx = @ - 1]
               out  == fade.fadeOutIdx + 1
               in   == fade.fadeInIdx - 1
    <3>1. /\ fade \in Fading /\ fadeLength \in Nat \ {0}
          /\ fade.fadeOutIdx \in Nat /\ fade.fadeInIdx \in Int
          /\ fade.fadeLength = fadeLength /\ fade.fadeOutIdx <= fadeLength - 1
          BY <1>1, ConstantsOK DEF IInv, SharedOK, FadeOK
    <3>2. fade' = IF next.fadeOutIdx >= next.fadeLength THEN None ELSE next
          BY <2>3 DEF Fade, Incremented
    <3>3. out \in Nat /\ in \in Int /\ next = Reindexed(fade, out, in)
          BY <3>1 DEF Fading, Reindexed
    <3> HIDE DEF next
    <3>4. next \in Fading /\ next.fadeLength = fade.fadeLength /\ next.fadeOutIdx = out
      <4> HIDE DEF out, in
      <4>1. LET g == Reindexed(fade, out, in)
            IN  g \in Fading /\ g.fadeLength = fade.fadeLength /\ g.fadeOutIdx = out /\ g.fadeInIdx = in
        <5>1. fade \in Fading /\ out \in Nat /\ in \in Int
              BY <3>1, <3>3
        <5>. QED BY <5>1, ReindexedFields
      <4>. QED BY <3>3, <4>1, Zenon
    <3>5. CASE out >= fadeLength
          BY <3>1, <3>2, <3>4, <3>5
    <3>6. CASE ~(out >= fadeLength)
          BY <3>1, <3>2, <3>4, <3>6, ConstantsOK DEF Fading
    <3>. QED BY <3>5, <3>6
  <2>. QED BY <1>1, <2>1, <2>2, <2>3 DEF Next
<1>. QED BY <1>1, Invariance, PTL DEF Spec

LastTap == numOfChannels * numRefl - 1

(* How many steps a bang that is where b says may still take at most.      *)
StepsLeft(b) ==
    LET behind == 6 * (LastTap - b.tap)
    IN  CASE b.pc = "idle"      -> 0
          [] b.pc = "end"       -> 1
          [] b.pc = "startFade" -> behind + 2
          [] b.pc = "compare"   -> behind + 3
          [] b.pc = "set"       -> behind + 4
          [] b.pc = "front"     -> behind + 5
          [] b.pc = "atStart"   -> behind + 6
          [] b.pc = "update"    -> behind + 7

LEMMA TapsUpToTheLast == LastTap \in Nat /\ Taps = 0..LastTap
<1>1. numOfChannels \in Nat \ {0} /\ numRefl \in Nat \ {0}
      BY ConstantsOK
<1>2. numOfChannels * numRefl \in Nat \ {0}
      BY <1>1
<1>. QED BY <1>2 DEF Taps, LastTap

LEMMA NextTapGoesForward ==
    ASSUME IInv, bang.pc \in {"update", "compare", "startFade"}, NextTap
    PROVE  StepsLeft(bang') < StepsLeft(bang)
<1>1. LastTap \in Nat /\ bang.tap \in 0..LastTap /\ Taps = 0..LastTap
      BY TapsUpToTheLast DEF IInv, BangOK
<1>2. StepsLeft(bang) \in Int /\ StepsLeft(bang) >= 6 * (LastTap - bang.tap) + 2
  <2>1. bang.tap \in Int /\ LastTap \in Int
        BY <1>1
  <2>2. CASE bang.pc = "update"
        BY <2>1, <2>2 DEF StepsLeft
  <2>3. CASE bang.pc = "compare"
        BY <2>1, <2>3 DEF StepsLeft
  <2>4. CASE bang.pc = "startFade"
        BY <2>1, <2>4 DEF StepsLeft
  <2>. QED BY <2>2, <2>3, <2>4
<1>3. CASE bang.tap + 1 \in Taps
  <2>1. bang'.pc = "update" /\ bang'.tap = bang.tap + 1
        BY <1>3 DEF NextTap
  <2>2. StepsLeft(bang') = 6 * (LastTap - (bang.tap + 1)) + 7
        BY <2>1 DEF StepsLeft
  <2>3. bang.tap \in Int /\ LastTap \in Int
        BY <1>1
  <2>. QED BY <1>2, <2>2, <2>3
<1>4. CASE bang.tap + 1 \notin Taps
  <2>1. bang'.pc = "end"
        BY <1>4 DEF NextTap
  <2>2. StepsLeft(bang') = 1
        BY <2>1 DEF StepsLeft
  <2>. QED BY <1>1, <1>2, <2>2
<1>. QED BY <1>3, <1>4

LEMMA BangGoesForward ==
    ASSUME IInv, Bang
    PROVE  StepsLeft(bang') < StepsLeft(bang)
<1>1. /\ LastTap \in Nat /\ bang.tap \in 0..LastTap
      /\ bang \in [ pc : {"idle", "update", "atStart", "front", "set", "compare", "startFade", "end"},
                    tap : Taps, newDel : Delays ]
      BY TapsUpToTheLast DEF IInv, BangOK
<1>2. ASSUME NEW pc \in {"atStart", "front", "set", "compare", "startFade", "idle"},
             bang'.pc = pc, bang'.tap = bang.tap,
             \/ bang.pc = "update" /\ pc \in {"set", "atStart"}
             \/ bang.pc = "atStart" /\ pc \in {"compare", "front"}
             \/ bang.pc = "front" /\ pc \in {"set", "compare"}
             \/ bang.pc = "set" /\ pc = "compare"
             \/ bang.pc = "compare" /\ pc = "startFade"
             \/ bang.pc = "end" /\ pc = "idle"
      PROVE  StepsLeft(bang') < StepsLeft(bang)
      BY <1>1, <1>2 DEF StepsLeft
<1>3. CASE Update
  <2>1. PICK newDel \in Delays :
          IF newDel = delay[bang.tap] THEN NextTap
          ELSE bang' = [bang EXCEPT !.newDel = newDel, !.pc = IF fade = None THEN "set" ELSE "atStart"]
        BY <1>3, Zenon DEF Update
  <2>2. CASE newDel = delay[bang.tap]
        BY <1>3, <2>1, <2>2, NextTapGoesForward DEF Update
  <2>3. CASE newDel # delay[bang.tap]
    <3>1. bang.pc = "update" /\ bang'.pc \in {"set", "atStart"} /\ bang'.tap = bang.tap
          BY <1>1, <1>3, <2>1, <2>3 DEF Update
    <3>. QED BY <1>2, <3>1
  <2>. QED BY <2>2, <2>3
<1>4. CASE AtStart \/ Front \/ Set \/ BangEnd
  <2>1. bang'.tap = bang.tap
        BY <1>1, <1>4 DEF AtStart, Front, Set, BangEnd, Goto
  <2>2. \/ bang.pc = "atStart" /\ bang'.pc \in {"compare", "front"}
        \/ bang.pc = "front" /\ bang'.pc \in {"set", "compare"}
        \/ bang.pc = "set" /\ bang'.pc = "compare"
        \/ bang.pc = "end" /\ bang'.pc = "idle"
        BY <1>1, <1>4 DEF AtStart, Front, Set, BangEnd, Goto
  <2>. QED BY <1>2, <2>1, <2>2
<1>5. CASE Compare
  <2>1. CASE NextTap
        BY <1>5, <2>1, NextTapGoesForward DEF Compare
  <2>2. CASE Goto("startFade")
        BY <1>1, <1>2, <1>5, <2>2 DEF Compare, Goto
  <2>. QED BY <1>5, <2>1, <2>2 DEF Compare
<1>6. CASE startFade
      BY <1>6, NextTapGoesForward DEF startFade
<1>. QED BY <1>3, <1>4, <1>5, <1>6 DEF Bang

(* A bang comes to its end, whatever perform does with the fade meanwhile: *)
(* each of its steps leaves fewer, and perform does not move it.           *)
THEOREM BangsGoForward ==
    Spec => [][bang.pc # "idle" => bang' = bang \/ StepsLeft(bang') < StepsLeft(bang)]_vars
<1>1. ASSUME IInv, Next, bang.pc # "idle"
      PROVE  bang' = bang \/ StepsLeft(bang') < StepsLeft(bang)
      BY <1>1, BangGoesForward
         DEF Next, Control, Perform, BangStart, Attribute, vimic_xFadeLength, vimic_xFadeThreshold,
             vimic_renderintervall, vimic_micGain
<1>. QED BY <1>1, Invariance, PTL DEF Spec

(* A tap is only ever moved to where the last bang put it, and while no    *)
(* bang is on that place stays: once it is settled it stays settled until  *)
(* the next bang.  Without a fade that ends, only the taps of microphones  *)
(* that were heard when the vector began are moved.  With the fairness of  *)
(* both threads this and the two theorems before are why Settles holds.    *)
THEOREM TapsStaySettled ==
    Spec => [][ \A i \in Taps :
                  /\ \/ currentDelay'[i] = currentDelay[i]
                     \/ /\ currentDelay'[i] = delay[i] /\ delay'[i] = delay[i]
                        /\ At("faded") \/ MicOf(i) \in perform.micGainNonZero
                  /\ bang.pc = "idle" /\ currentDelay[i] = delay[i] => currentDelay'[i] = delay'[i] ]_vars
<1> DEFINE Settled ==
      \A i \in Taps :
         /\ \/ currentDelay'[i] = currentDelay[i]
            \/ /\ currentDelay'[i] = delay[i] /\ delay'[i] = delay[i]
               /\ At("faded") \/ MicOf(i) \in perform.micGainNonZero
         /\ bang.pc = "idle" /\ currentDelay[i] = delay[i] => currentDelay'[i] = delay'[i]
<1>1. ASSUME IInv, Next
      PROVE  Settled
  <2>1. ASSUME NEW i \in Taps
        PROVE  /\ \/ currentDelay'[i] = currentDelay[i]
                  \/ /\ currentDelay'[i] = delay[i] /\ delay'[i] = delay[i]
                     /\ At("faded") \/ MicOf(i) \in perform.micGainNonZero
               /\ bang.pc = "idle" /\ currentDelay[i] = delay[i] => currentDelay'[i] = delay'[i]
    <3>1. CASE Control
      <4>1. CASE BangStart \/ Update \/ AtStart \/ Front \/ Compare
        <5>1. UNCHANGED shared
              BY <4>1, Zenon DEF BangStart, Update, AtStart, Front, Compare
        <5>. QED BY <5>1 DEF shared
      <4>2. CASE Set \/ startFade \/ BangEnd
            BY <4>2 DEF Set, startFade, BangEnd
      <4>. QED BY <1>1, <3>1, <4>1, <4>2, AttributeOK DEF Control, Bang
    <3>2. CASE Perform /\ ~Steady
      <4>1. CASE VectorBegin \/ Counter \/ Gains \/ Sample \/ VectorEnd
            BY <4>1 DEF VectorBegin, Counter, Gains, Sample, VectorEnd, shared
      <4>2. CASE Fade \/ Count
            BY <4>2 DEF Fade, Count
      <4>3. CASE Faded
        <5>1. UNCHANGED delay /\ (UNCHANGED currentDelay \/ currentDelay' = delay) /\ At("faded")
              BY <4>3 DEF Faded
        <5>. QED BY <5>1
      <4>. QED BY <3>2, <4>1, <4>2, <4>3 DEF Perform
    <3>3. CASE Steady
      <4>1. /\ UNCHANGED delay
            /\ \/ currentDelay'[i] = currentDelay[i]
               \/ currentDelay'[i] = delay[i] /\ MicOf(i) \in perform.micGainNonZero
            BY <3>3 DEF Steady, Moved
      <4>. QED BY <4>1
    <3>. QED BY <1>1, <3>1, <3>2, <3>3 DEF Next
  <2>. QED BY <2>1
<1>. QED BY <1>1, Invariance, PTL DEF Spec
=============================================================================
