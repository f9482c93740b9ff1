-------------------------- MODULE UnitsLevelProofs --------------------------
(***************************************************************************)
(* Where the levels of the units go, for all values of the constants:      *)
(* TTRamp's value, TTLimiter's samples and gains, TTAdsr's envelope.  With *)
(* the storage of the other units it makes the types of them all.          *)
(***************************************************************************)
EXTENDS UnitsStorageProofs, WellFoundedInduction

----------------------------------------------------------------------------
(* Numbers                                                                 *)

(* Every set of natural numbers that is not empty has a least one.         *)
LEMMA LeastNat ==
    ASSUME NEW T \in SUBSET Nat, T # {}
    PROVE  \E n \in T : \A m \in T : n <= m
<1> DEFINE Less == { p \in Nat \X Nat : p[1] < p[2] }
<1>1. IsWellFoundedOn(Less, Nat)
      BY NatLessThanWellFounded DEF OpToRel
<1>2. \A n \in T, m \in T : <<m, n>> \notin Less => n <= m
      OBVIOUS
<1> HIDE DEF Less
<1>3. \E n \in T : \A m \in T : ~(<<m, n>> \in Less)
      BY <1>1, WFMin
<1>. QED BY <1>2, <1>3

(* What is greatest of finitely many numbers: were there none, there would *)
(* be none of some smallest part of them either.                           *)
LEMMA GreatestOf ==
    ASSUME NEW S, IsFiniteSet(S), S # {}, NEW f \in [S -> Nat]
    PROVE  \E c \in S : \A d \in S : f[c] >= f[d]
<1> DEFINE Without == { U \in SUBSET S : U # {} /\ ~\E c \in U : \A d \in U : f[c] >= f[d] }
           Less == StrictSubsetOrdering(S)
<1>1. SUFFICES ASSUME S \in Without
               PROVE  FALSE
      OBVIOUS
<1>2. Without \subseteq FiniteSubsetsOf(S) /\ Without # {}
      BY <1>1, FS_Subset DEF FiniteSubsetsOf
<1>3. IsWellFoundedOn(Less, FiniteSubsetsOf(S))
      BY FS_StrictSubsetOrderingWellFounded
<1>4. PICK U \in Without : \A V \in Without : ~(<<V, U>> \in Less)
  <2> HIDE DEF Less, Without
  <2>. QED BY <1>2, <1>3, WFMin
<1>5. PICK x \in U : TRUE
      BY <1>4
<1>6. U \ {x} \notin Without
      BY <1>4, <1>5 DEF StrictSubsetOrdering
<1>7. CASE U \ {x} = {}
      BY <1>4, <1>5, <1>7
<1>8. CASE U \ {x} # {}
  <2>1. PICK c \in U \ {x} : \A d \in U \ {x} : f[c] >= f[d]
        BY <1>4, <1>6, <1>8
  <2>2. \A d \in U : f[d] \in Nat
        BY <1>4
  <2> HIDE DEF Without
  <2>3. CASE f[c] >= f[x]
        BY <1>4, <2>1, <2>3 DEF Without
  <2>4. CASE f[x] > f[c]
    <3>1. \A d \in U : f[x] >= f[d]
          BY <1>5, <2>1, <2>2, <2>4
    <3>. QED BY <1>4, <1>5, <3>1 DEF Without
  <2>. QED BY <1>5, <2>1, <2>2, <2>3, <2>4
<1>. QED BY <1>7, <1>8

----------------------------------------------------------------------------
(* TTRamp                                                                  *)

RampType == [ current : Nat \cup {NaN}, destination : Nat, step : Int \cup {NaN},
              direction : {"UP", "DOWN"}, mode : R!Modes, method : R!Methods ]

(* NeverPast needs the step to have the direction's sign, and the method   *)
(* to be one of that direction, when the step is not taken as well.        *)
RampFits(r) ==
    /\ r.destination \in RampValues \cup {0}
    /\ r.direction = IF r.method \in {"SampleAccurateUp", "VectorAccurateUp"} THEN "UP" ELSE "DOWN"
    /\ r.step # NaN => /\ r.step < 0 => r.direction = "DOWN"
                       /\ r.step > 0 => r.direction = "UP"

RampInv == ramp \in RampType /\ RampFits(ramp)

LEMMA RampConstants ==
    /\ RampValues \subseteq Nat /\ RampTimes \subseteq Nat
    /\ RampVectors \subseteq Nat \ {0} /\ RampChannels \subseteq Nat \ {0}
    /\ Infinity \in Nat \ {0} /\ NaN \notin Int
BY UnitsAssumption DEF R!ConstantsOK

(* setupProcess() chooses a method of the direction, whichever it was.     *)
LEMMA setupProcessFits ==
    ASSUME NEW r \in RampType, r.destination \in RampValues \cup {0},
           r.step # NaN => /\ r.step < 0 => r.direction = "DOWN"
                           /\ r.step > 0 => r.direction = "UP"
    PROVE  R!setupProcess(r) \in RampType /\ RampFits(R!setupProcess(r))
<1> DEFINE method == CASE r.mode = "sample" /\ r.direction = "UP"   -> "SampleAccurateUp"
                       [] r.mode = "sample" /\ r.direction = "DOWN" -> "SampleAccurateDown"
                       [] r.mode = "vector" /\ r.direction = "UP"   -> "VectorAccurateUp"
                       [] OTHER                                     -> "VectorAccurateDown"
<1>1. /\ method \in R!Methods
      /\ r.direction = IF method \in {"SampleAccurateUp", "VectorAccurateUp"} THEN "UP" ELSE "DOWN"
      BY DEF RampType, R!Modes, R!Methods
<1>2. R!setupProcess(r) = [r EXCEPT !.method = method]
      BY DEF R!setupProcess
<1> HIDE DEF method
<1>. QED BY <1>1, <1>2 DEF RampType, RampFits

LEMMA DividedIsStep ==
    ASSUME NEW a \in Int \cup {NaN}, NEW n \in Nat
    PROVE  R!Divided(a, n) \in Int \cup {NaN}
<1>1. CASE a = NaN
      BY <1>1 DEF R!Divided
<1>2. CASE a # NaN /\ n = 0
      BY <1>2, RampConstants DEF R!Divided
<1>3. CASE a # NaN /\ n # 0
  <2>1. a \in Int /\ n \in Nat \ {0}
        BY <1>3
  <2>2. a \div n \in Int
        BY <2>1
  <2>. QED BY <1>3, <2>2 DEF R!Divided
<1>. QED BY <1>1, <1>2, <1>3

LEMMA StartedFits ==
    ASSUME RampInv, NEW n \in Nat
    PROVE  R!Started(ramp, n) \in RampType /\ RampFits(R!Started(ramp, n))
<1> DEFINE left == IF ramp.current = NaN THEN NaN ELSE ramp.destination - ramp.current
           step == R!Divided(left, n)
           direction == IF step # NaN /\ step < 0 THEN "DOWN" ELSE "UP"
<1>1. left \in Int \cup {NaN}
      BY DEF RampInv, RampType
<1>2. step \in Int \cup {NaN}
      BY <1>1, DividedIsStep
<1>3. R!StepTo(ramp, n) = [ramp EXCEPT !.step = step, !.direction = direction]
      BY DEF R!StepTo
<1> HIDE DEF left, step
<1>4. /\ direction \in {"UP", "DOWN"}
      /\ step # NaN => (step < 0 => direction = "DOWN") /\ (step > 0 => direction = "UP")
      BY <1>2
<1> HIDE DEF direction
<1>5. /\ R!StepTo(ramp, n) \in RampType
      /\ R!StepTo(ramp, n).destination = ramp.destination
      /\ R!StepTo(ramp, n).step = step /\ R!StepTo(ramp, n).direction = direction
      BY <1>2, <1>3, <1>4 DEF RampInv, RampType
<1>. QED BY <1>4, <1>5, setupProcessFits DEF R!Started, RampInv, RampFits

LEMMA AtDestination ==
    ASSUME RampInv
    PROVE  LET r == [ramp EXCEPT !.step = 0, !.current = ramp.destination]
           IN  /\ r \in RampType /\ r.destination = ramp.destination /\ r.step = 0
               /\ r.current = ramp.destination
               /\ r.direction = ramp.direction /\ r.method = ramp.method
<1> DEFINE stopped == [ramp EXCEPT !.step = 0]
           r == [stopped EXCEPT !.current = ramp.destination]
<1>1. ramp \in RampType /\ ramp.destination \in Nat
      BY DEF RampInv, RampType
<1>2. 0 \in Int \cup {NaN} /\ ramp.destination \in Nat \cup {NaN}
      BY <1>1
<1>3. stopped \in RampType
      BY <1>1, <1>2 DEF RampType
<1>4. /\ stopped.destination = ramp.destination /\ stopped.step = 0
      /\ stopped.direction = ramp.direction /\ stopped.method = ramp.method
      BY <1>1 DEF RampType
<1> HIDE DEF stopped
<1>5. r \in RampType
      BY <1>2, <1>3 DEF RampType
<1>6. /\ r.destination = ramp.destination /\ r.step = 0 /\ r.current = ramp.destination
      /\ r.direction = ramp.direction /\ r.method = ramp.method
      BY <1>3, <1>4 DEF RampType
<1>. QED BY <1>5, <1>6 DEF stopped

LEMMA EndedFits ==
    ASSUME RampInv
    PROVE  R!Ended(ramp) \in RampType /\ RampFits(R!Ended(ramp))
<1> DEFINE jumped == [ramp EXCEPT !.step = 0, !.current = ramp.destination]
           r == [jumped EXCEPT !.direction = "UP"]
<1>1. R!Ended(ramp) = R!setupProcess(r)
      BY DEF R!Ended
<1>2. jumped \in RampType /\ jumped.destination = ramp.destination /\ jumped.step = 0
      BY AtDestination
<1> HIDE DEF jumped
<1>3. r \in RampType /\ r.destination = ramp.destination /\ r.step = 0 /\ r.direction = "UP"
      BY <1>2 DEF RampType
<1> HIDE DEF r
<1>. QED BY <1>1, <1>3, setupProcessFits DEF RampInv, RampFits

LEMMA SomeMovement ==
    ASSUME NEW step \in Int, NEW vs \in Nat \ {0}, NEW n \in Nat \ {0}
    PROVE  /\ step * vs * n \in Int
           /\ step > 0 => step * vs * n > 0
           /\ step < 0 => step * vs * n < 0
<1>1. vs * n \in Nat \ {0}
  <2>1. vs * n >= 1 * 1
        BY SMTT(30)
  <2>. QED BY <2>1
<1>2. step * vs * n = step * (vs * n)
      BY SMTT(30)
<1> DEFINE m == vs * n
<1> HIDE DEF m
<1>3. ASSUME m \in Nat \ {0}
      PROVE  step * m \in Int /\ (step > 0 => step * m > 0) /\ (step < 0 => step * m < 0)
      BY <1>3, SMTT(30)
<1>. QED BY <1>1, <1>2, <1>3 DEF m

(* What a vector makes of the value, and of nothing else but the step.     *)
LEMMA AdvancedMoves ==
    ASSUME RampInv, NEW vs \in RampVectors, NEW n \in RampChannels
    PROVE  LET r == R!Advanced(ramp, vs, n)
           IN  /\ r \in RampType /\ RampFits(r)
               /\ IF NaN \in {ramp.current, ramp.step} /\ ramp.step # 0 THEN r.current = NaN
                  ELSE IF ramp.step = 0 THEN r.current = ramp.current
                  ELSE \/ ramp.current <= r.current /\ r.current <= ramp.destination
                       \/ ramp.destination <= r.current /\ r.current <= ramp.current
<1> DEFINE moved == IF ramp.step = NaN THEN NaN ELSE ramp.step * vs * n
           value == R!Plus(ramp.current, moved)
<1>1. vs \in Nat \ {0} /\ n \in Nat \ {0}
      BY RampConstants
<1>2. /\ ramp.step # NaN => /\ moved \in Int
                            /\ ramp.step > 0 => moved > 0
                            /\ ramp.step < 0 => moved < 0
      /\ ramp.step = NaN => moved = NaN
      BY <1>1, SomeMovement DEF RampInv, RampType
<1>3. R!Advanced(ramp, vs, n) =
          IF ramp.step = 0 THEN ramp
          ELSE IF R!Reached(ramp, value) THEN [ramp EXCEPT !.step = 0, !.current = ramp.destination]
          ELSE [ramp EXCEPT !.current = value]
      BY DEF R!Advanced
<1> HIDE DEF moved
<1>4. CASE ramp.step = 0
      BY <1>3, <1>4, RampConstants DEF RampInv, RampType
<1>5. CASE ramp.step # 0 /\ NaN \in {ramp.current, ramp.step}
  <2>1. value = NaN
        BY <1>2, <1>5 DEF R!Plus
  <2>2. R!Advanced(ramp, vs, n) = [ramp EXCEPT !.current = NaN]
        BY <1>3, <1>5, <2>1 DEF R!Reached
  <2>. QED BY <1>5, <2>2 DEF RampInv, RampType, RampFits
<1>6. CASE ramp.step # 0 /\ NaN \notin {ramp.current, ramp.step}
  <2>1. /\ ramp.current \in Nat /\ ramp.destination \in Nat /\ ramp.step \in Int /\ moved \in Int
        /\ value = ramp.current + moved /\ value # NaN
        BY <1>2, <1>6, RampConstants DEF RampInv, RampType, R!Plus
  <2>2. CASE R!Reached(ramp, value)
    <3>1. R!Advanced(ramp, vs, n) = [ramp EXCEPT !.step = 0, !.current = ramp.destination]
          BY <1>3, <1>6, <2>2
    <3>2. R!Advanced(ramp, vs, n) \in RampType /\ RampFits(R!Advanced(ramp, vs, n))
          BY <3>1, AtDestination DEF RampInv, RampFits
    <3>3. R!Advanced(ramp, vs, n).current = ramp.destination
          BY <3>1 DEF RampInv, RampType
    <3>4. ramp.current <= ramp.destination \/ ramp.destination <= ramp.current
          BY <2>1
    <3>5. ramp.destination <= ramp.destination
          BY <2>1
    <3>. QED BY <1>6, <3>2, <3>3, <3>4, <3>5
  <2>3. CASE ~R!Reached(ramp, value)
    <3>1. R!Advanced(ramp, vs, n) = [ramp EXCEPT !.current = value]
          BY <1>3, <1>6, <2>3
    <3>2. \/ ramp.current <= value /\ value <= ramp.destination
          \/ ramp.destination <= value /\ value <= ramp.current
          BY <1>2, <1>6, <2>1, <2>3 DEF R!Reached, RampInv, RampFits
    <3>3. value \in Nat
          BY <2>1, <3>2
    <3>4. [ramp EXCEPT !.current = value].current = value
          BY DEF RampInv, RampType
    <3> HIDE DEF value
    <3>. QED BY <1>6, <3>1, <3>2, <3>3, <3>4 DEF RampInv, RampType, RampFits
  <2>. QED BY <2>2, <2>3
<1>. QED BY <1>4, <1>5, <1>6

LEMMA RampInit == R!Init => RampInv
<1> DEFINE r == [current |-> 0, destination |-> 0, step |-> 0, direction |-> "UP",
                 mode |-> "vector", method |-> "VectorAccurateUp"]
<1>1. r \in RampType /\ r.destination = 0 /\ r.step = 0
      BY DEF RampType, R!Modes, R!Methods
<1>2. R!Init => ramp = R!setupProcess(r)
      BY DEF R!Init
<1> HIDE DEF r
<1>. QED BY <1>1, <1>2, setupProcessFits DEF RampInv

LEMMA RampStep ==
    ASSUME RampInv, [R!Next]_ramp
    PROVE  RampInv'
<1>1. CASE UNCHANGED ramp
      BY <1>1 DEF RampInv
<1>2. ASSUME NEW n \in RampTimes,
             R!RampTimeInSamples(n) \/ \E isZero \in BOOLEAN : R!setRampTime(n, isZero)
      PROVE  RampInv'
  <2>1. ramp' = R!Ended(ramp) \/ ramp' = R!Started(ramp, n)
        BY <1>2 DEF R!RampTimeInSamples, R!setRampTime
  <2>. QED BY <2>1, RampConstants, EndedFits, StartedFits DEF RampInv
<1>3. ASSUME NEW m \in R!Modes, R!setMode(m)
      PROVE  RampInv'
  <2> DEFINE r == [ramp EXCEPT !.mode = m]
  <2>1. /\ r \in RampType /\ r.destination = ramp.destination
        /\ r.step = ramp.step /\ r.direction = ramp.direction
        BY DEF RampInv, RampType
  <2>2. ramp' = R!setupProcess(r)
        BY <1>3 DEF R!setMode
  <2> HIDE DEF r
  <2>. QED BY <2>1, <2>2, setupProcessFits DEF RampInv, RampFits
<1>4. CASE R!Stop
      BY <1>4, RampConstants DEF R!Stop, RampInv, RampType, RampFits
<1>5. ASSUME NEW v \in RampValues, R!setCurrentValue(v) \/ R!setDestinationValue(v)
      PROVE  RampInv'
      BY <1>5, RampConstants DEF R!setCurrentValue, R!setDestinationValue, RampInv, RampType, RampFits
<1>6. CASE R!Process
      BY <1>6, AdvancedMoves DEF R!Process, RampInv
<1>. QED BY <1>1, <1>2, <1>3, <1>4, <1>5, <1>6 DEF R!Next

LEMMA RampAlways == Spec => []RampInv
<1>1. Init => RampInv
      BY RampInit DEF Init
<1>2. RampInv /\ [Next]_vars => RampInv'
      BY RampStep, UnitSteps
<1>. QED BY <1>1, <1>2, PTL DEF Spec

LEMMA RampTypes == ASSUME RampInv PROVE R!TypeOK
BY DEF RampInv, RampType, RampFits, R!TypeOK

(* TTRamp: a vector moves the value towards its destination and not past   *)
(* it, wherever the value or the destination was put while it moved, and a *)
(* value that is not a number stays that.                                  *)
THEOREM VectorsNeverPast == Spec => NeverPast
<1>1. ASSUME RampInv, [Next]_vars
      PROVE  [ R!Process =>
                 IF NaN \in {ramp.current, ramp.step} THEN ramp'.current = NaN
                 ELSE \/ ramp.current <= ramp'.current /\ ramp'.current <= ramp.destination
                      \/ ramp.destination <= ramp'.current /\ ramp'.current <= ramp.current ]_(R!vars)
  <2> SUFFICES ASSUME NEW vs \in RampVectors, NEW n \in RampChannels,
                      ramp' = R!Advanced(ramp, vs, n)
               PROVE  IF NaN \in {ramp.current, ramp.step} THEN ramp'.current = NaN
                      ELSE \/ ramp.current <= ramp'.current /\ ramp'.current <= ramp.destination
                           \/ ramp.destination <= ramp'.current /\ ramp'.current <= ramp.current
      BY DEF R!Process
  <2>1. ramp.current \in Nat \cup {NaN} /\ ramp.destination \in Nat /\ 0 # NaN
        BY <1>1, RampConstants DEF RampInv, RampType
  <2>. QED BY <1>1, <2>1, AdvancedMoves
<1>. QED BY <1>1, RampAlways, PTL DEF Spec, NeverPast, R!NeverPast

(* A ramp that is under way comes closer to its destination with every     *)
(* vector, or ends with it, wherever the destination was put meanwhile.    *)
(* With the fairness of the process method this is why LeftAloneArrives    *)
(* holds.                                                                  *)
VectorComesCloser ==
    R!Process /\ ramp.step # 0 /\ NaN \notin {ramp.current, ramp.step} =>
        \/ ramp'.step = 0 /\ ramp'.current = ramp.destination
        \/ ramp.current < ramp'.current /\ ramp'.current <= ramp.destination
        \/ ramp.destination <= ramp'.current /\ ramp'.current < ramp.current

THEOREM VectorsComeCloser == Spec => [][VectorComesCloser]_vars
<1>1. ASSUME RampInv, NEW vs \in RampVectors, NEW n \in RampChannels,
             ramp' = R!Advanced(ramp, vs, n),
             ramp.step # 0, NaN \notin {ramp.current, ramp.step}
      PROVE  \/ ramp'.step = 0 /\ ramp'.current = ramp.destination
             \/ ramp.current < ramp'.current /\ ramp'.current <= ramp.destination
             \/ ramp.destination <= ramp'.current /\ ramp'.current < ramp.current
  <2> DEFINE moved == ramp.step * vs * n
             value == ramp.current + moved
  <2>1. /\ ramp.current \in Nat /\ ramp.destination \in Nat /\ ramp.step \in Int
        /\ vs \in Nat \ {0} /\ n \in Nat \ {0} /\ NaN \notin Int
        BY <1>1, RampConstants DEF RampInv, RampType
  <2>2. moved \in Int /\ moved # 0
        BY <1>1, <2>1, SomeMovement
  <2> HIDE DEF moved
  <2>3. ramp' = IF R!Reached(ramp, value) THEN [ramp EXCEPT !.step = 0, !.current = ramp.destination]
                ELSE [ramp EXCEPT !.current = value]
        BY <1>1, <2>1, <2>2 DEF R!Advanced, R!Plus, moved
  <2>4. CASE R!Reached(ramp, value)
        BY <1>1, <2>3, <2>4 DEF RampInv, RampType
  <2>5. CASE ~R!Reached(ramp, value)
    <3>1. ramp'.current = value
          BY <1>1, <2>3, <2>5 DEF RampInv, RampType
    <3>2. \/ ramp.current <= ramp'.current /\ ramp'.current <= ramp.destination
          \/ ramp.destination <= ramp'.current /\ ramp'.current <= ramp.current
          BY <1>1, AdvancedMoves
    <3>. QED BY <2>1, <2>2, <3>1, <3>2
  <2>. QED BY <2>4, <2>5
<1>2. RampInv => VectorComesCloser
      BY <1>1 DEF VectorComesCloser, R!Process
<1>. QED BY <1>2, RampAlways, PTL DEF Spec

----------------------------------------------------------------------------
(* TTLimiter                                                               *)

(* Limited is of the sample that is played: it has to hold of every place  *)
(* of the ring whose sample came with its gain, since the index may come   *)
(* to any of them next.                                                    *)
Held(l, bound, places) ==
    \A c \in L!Channels : \A i \in places[c] :
        l.lookaheadBuffer[c][i] * l.gain[i] <= bound[i] * One

LimiterType ==
    [ lookaheadBuffer : [L!Channels -> [L!Indices -> Nat]], gain : [L!Indices -> Nat],
      lookaheadBufferIndex : L!Indices, last : Nat, attrLookahead : 1..maxBufferSize - 1,
      attrThreshold : Thresholds, attrPostamp : Postamps, isLinear : BOOLEAN, recover : Recover ]

LimiterInv ==
    /\ lim \in LimiterType
    /\ DOMAIN limited \subseteq L!Channels
    /\ \A c \in DOMAIN limited : limited[c] \in [value : Nat, limit : Nat]
    /\ limit \in [L!Indices -> Nat]
    /\ recorded \in [L!Channels -> SUBSET L!Indices]
    /\ leftOver \subseteq DOMAIN limited
    /\ Held(lim, limit, recorded)
    /\ L!Limited

LEMMA LimiterConstants ==
    /\ One \in Nat \ {0} /\ maxBufferSize \in Nat /\ maxBufferSize > 1
    /\ maxNumChannels \in Nat
    /\ Inputs \subseteq Nat /\ 0 \in Inputs
    /\ Thresholds \subseteq Nat \ {0} /\ Postamps \subseteq Nat \ {0} /\ Recover \subseteq Nat \ {0}
    /\ Thresholds # {} /\ Postamps # {} /\ Recover # {}
BY UnitsAssumption DEF L!ConstantsOK

LEMMA LimiterNumbers ==
    One \in Nat /\ maxBufferSize \in Nat /\ maxBufferSize > 1 /\ maxNumChannels \in Nat
BY LimiterConstants

LEMMA InputsAreNumbers == Inputs \subseteq Nat
BY LimiterConstants

LEMMA LimiterFields ==
    ASSUME NEW l \in LimiterType
    PROVE  /\ l.lookaheadBufferIndex \in L!Indices /\ l.lookaheadBufferIndex \in 0..maxBufferSize - 1
           /\ l.attrLookahead \in Nat \ {0} /\ l.attrLookahead <= maxBufferSize - 1
           /\ l.attrThreshold \in Nat /\ l.attrPostamp \in Nat
           /\ l.lookaheadBuffer \in [L!Channels -> [L!Indices -> Nat]]
           /\ l.gain \in [L!Indices -> Nat]
<1>1. /\ l.lookaheadBufferIndex \in L!Indices /\ l.attrLookahead \in 1..maxBufferSize - 1
      /\ l.attrThreshold \in Thresholds /\ l.attrPostamp \in Postamps
      /\ l.lookaheadBuffer \in [L!Channels -> [L!Indices -> Nat]]
      /\ l.gain \in [L!Indices -> Nat]
      BY DEF LimiterType
<1>2. l.attrLookahead \in Nat \ {0} /\ l.attrLookahead <= maxBufferSize - 1
      BY <1>1, LimiterConstants
<1>. QED BY <1>1, <1>2, LimiterConstants DEF L!Indices

LEMMA Growing ==
    ASSUME NEW a \in Nat, NEW b \in Nat, NEW c \in Nat, a <= b
    PROVE  a * c \in Nat /\ b * c \in Nat /\ a * c <= b * c /\ c * a <= c * b
OBVIOUS

(* What L!Max and L!Min choose, when there is something to choose.         *)
LEMMA HottestIsHottest ==
    ASSUME NEW n \in 0..maxNumChannels, NEW s \in [0..n - 1 -> Inputs]
    PROVE  L!Hottest(s) \in Nat /\ \A c \in 0..n - 1 : s[c] <= L!Hottest(s)
<1> DEFINE S == {0} \cup { s[c] : c \in 0..n - 1 }
<1>1. s \in [0..n - 1 -> Nat] /\ n \in Nat
  <2>1. n \in Nat
        BY LimiterNumbers
  <2> DEFINE D == 0..n - 1
  <2> HIDE DEF D
  <2>2. s \in [D -> Inputs] => s \in [D -> Nat]
        BY InputsAreNumbers
  <2>. QED BY <2>1, <2>2 DEF D
<1>7. S \subseteq Nat
      BY <1>1
<1>2. \E x \in S : \A y \in S : x >= y
  <2>1. CASE 0..n - 1 = {}
    <3>1. S = {0}
          BY <2>1
    <3> HIDE DEF S
    <3>. QED BY <3>1
  <2>2. CASE 0..n - 1 # {}
    <3>1. IsFiniteSet(0..n - 1)
          BY <1>1, FS_Interval
    <3>2. PICK c \in 0..n - 1 : \A d \in 0..n - 1 : s[c] >= s[d]
          BY <1>1, <2>2, <3>1, GreatestOf
    <3>3. s[c] \in S /\ s[c] >= 0
          BY <1>1
    <3>4. \A y \in S : y = 0 \/ \E d \in 0..n - 1 : y = s[d]
          OBVIOUS
    <3> HIDE DEF S
    <3>. QED BY <3>2, <3>3, <3>4
  <2>. QED BY <2>1, <2>2
<1>3. DOMAIN s = 0..n - 1
      OBVIOUS
<1>4. L!Hottest(s) = CHOOSE x \in S : \A y \in S : x >= y
      BY <1>3 DEF L!Hottest, L!Max
<1>5. L!Hottest(s) \in S /\ \A y \in S : L!Hottest(s) >= y
      BY <1>2, <1>4
<1>6. \A c \in 0..n - 1 : s[c] \in S
      OBVIOUS
<1> HIDE DEF S
<1>. QED BY <1>5, <1>6, <1>7

LEMMA LeastOfTwo ==
    ASSUME NEW a \in Int, NEW b \in Int
    PROVE  L!Min({a, b}) = IF a <= b THEN a ELSE b
BY DEF L!Min

LEMMA GreatestOfTwo ==
    ASSUME NEW a \in Int, NEW b \in Int
    PROVE  L!Max({a, b}) = IF a >= b THEN a ELSE b
BY DEF L!Max

LEMMA RecoveredInRange ==
    ASSUME NEW l \in LimiterType
    PROVE  L!Recovered(l) \in Nat /\ L!Recovered(l) <= l.attrThreshold
<1> DEFINE more == IF l.isLinear \/ l.last <= One \div 100 THEN l.recover
                   ELSE (l.recover * l.last) \div One
<1>1. l.recover \in Nat /\ l.last \in Nat /\ l.attrThreshold \in Nat /\ One \in Nat \ {0}
      BY LimiterConstants DEF LimiterType
<1>2. l.recover * l.last \in Nat
      BY <1>1
<1>3. (l.recover * l.last) \div One \in Nat
      BY <1>1, <1>2
<1>4. more \in Nat
      BY <1>1, <1>3, Zenon
<1>5. L!Recovered(l) = L!Min({l.last + more, l.attrThreshold})
      BY DEF L!Recovered
<1> HIDE DEF more
<1>. QED BY <1>1, <1>4, <1>5, LeastOfTwo

(* A ramp begins at the index, and lowers what it reaches.                 *)
LEMMA RampLowers ==
    ASSUME NEW l \in LimiterType, NEW hot \in Nat, NEW gain \in [L!Indices -> Nat],
           gain[l.lookaheadBufferIndex] <= l.attrThreshold,
           hot * gain[l.lookaheadBufferIndex] > l.attrThreshold * One
    PROVE  LET ramped == L!RampedGain(l, hot, gain)
           IN  /\ ramped \in [L!Indices -> Nat]
               /\ \A i \in L!Indices : ramped[i] <= gain[i]
               /\ hot * ramped[l.lookaheadBufferIndex] <= l.attrThreshold * One
<1> DEFINE i == l.lookaheadBufferIndex
           thr == l.attrThreshold
           look == l.attrLookahead
           curgain == (thr * One) \div hot
           inc == thr - curgain
           newgain(j) == curgain + (IF l.isLinear THEN (inc * j) \div look
                                    ELSE (inc * j * j) \div (look * look))
           ind(j) == (i - j) % maxBufferSize
           Lowers(j) == newgain(j) < gain[ind(j)]
           falling == { j \in 0..look - 1 : \A k \in 0..j : Lowers(k) }
           ramped == [k \in L!Indices |-> IF \E j \in falling : ind(j) = k
                                          THEN newgain(CHOOSE j \in falling : ind(j) = k) ELSE gain[k]]
<1>1. L!RampedGain(l, hot, gain) = ramped
      BY DEF L!RampedGain
<1>2. /\ i \in 0..maxBufferSize - 1 /\ i \in L!Indices /\ thr \in Nat
      /\ look \in Nat \ {0} /\ look <= maxBufferSize - 1
      /\ One \in Nat \ {0} /\ maxBufferSize \in Nat \ {0} /\ gain[i] \in Nat
      BY LimiterConstants, LimiterFields
<1>3. thr * One \in Nat /\ hot # 0
      BY <1>2
<1> DEFINE top == thr * One
<1>4. curgain \in Nat /\ hot * curgain <= top /\ curgain < gain[i]
  <2> HIDE DEF top
  <2>1. top \in Nat /\ hot \in Nat \ {0} /\ hot * gain[i] > top
        BY <1>3 DEF top
  <2> DEFINE g == gain[i]
  <2> HIDE DEF g
  <2>2. g \in Nat /\ hot * g > top
        BY <1>2, <2>1 DEF g
  <2>3. top \div hot \in Nat /\ hot * (top \div hot) <= top /\ top \div hot < g
        BY <2>1, <2>2
  <2>. QED BY <2>3 DEF top, g
<1> HIDE DEF top
<1>5. inc \in Nat
      BY <1>2, <1>4
<1> HIDE DEF i, thr, look, curgain, inc
<1>6. ASSUME NEW j \in 0..look - 1
      PROVE  newgain(j) \in Nat
  <2>1. look * look \in Nat \ {0} /\ inc * j \in Nat /\ inc * j * j \in Nat
        BY <1>2, <1>5
  <2>2. (inc * j) \div look \in Nat
        BY <1>2, <2>1
  <2>3. (inc * j * j) \div (look * look) \in Nat
        BY <2>1
  <2>. QED BY <1>4, <2>2, <2>3
<1>7. ASSUME NEW j \in 0..look - 1
      PROVE  ind(j) \in L!Indices
  <2>1. \A x \in Int : x % maxBufferSize \in 0..maxBufferSize - 1
        BY <1>2
  <2>2. i - j \in Int
        BY <1>2
  <2>. QED BY <2>1, <2>2 DEF L!Indices
<1>8. newgain(0) = curgain /\ ind(0) = i
  <2>1. inc * 0 = 0 /\ inc * 0 * 0 = 0 /\ 0 \div look = 0
        BY <1>2, <1>5
  <2>2. 0 \div (look * look) = 0
    <3>1. look * look \in Nat \ {0}
          BY <1>2
    <3>. QED BY <3>1
  <2>3. i - 0 = i /\ i % maxBufferSize = i
        BY <1>2
  <2>. QED BY <1>4, <2>1, <2>2, <2>3
<1>9. ASSUME NEW j \in 0..look - 1, ind(j) = i
      PROVE  j = 0
  <2>1. CASE j <= i
    <3>1. i - j \in 0..maxBufferSize - 1
          BY <1>2, <2>1
    <3>2. (i - j) % maxBufferSize = i - j
          BY <1>2, <3>1
    <3>. QED BY <1>2, <1>9, <3>2
  <2>2. CASE j > i
    <3>1. i - j \in 1 - maxBufferSize .. -1
          BY <1>2, <2>2
    <3>2. (i - j) % maxBufferSize = i - j + maxBufferSize
      <4> DEFINE x == i - j
      <4> HIDE DEF x
      <4>1. ASSUME x \in 1 - maxBufferSize .. -1
            PROVE  x % maxBufferSize = x + maxBufferSize
            BY <1>2, <4>1
      <4>. QED BY <3>1, <4>1 DEF x
    <3>. QED BY <1>2, <1>9, <3>2
  <2>. QED BY <1>2, <2>1, <2>2
<1> HIDE DEF newgain, ind
<1>10. 0 \in falling
  <2>1. Lowers(0)
        BY <1>4, <1>8
  <2>. QED BY <1>2, <2>1
<1>11. \A j \in falling : j \in 0..look - 1 /\ newgain(j) < gain[ind(j)]
      BY <1>2
<1> HIDE DEF falling
<1>12. ASSUME NEW k \in L!Indices
       PROVE  ramped[k] \in Nat /\ ramped[k] <= gain[k]
  <2>1. CASE \E j \in falling : ind(j) = k
    <3> DEFINE j == CHOOSE m \in falling : ind(m) = k
    <3>1. j \in falling /\ ind(j) = k
          BY <2>1
    <3>2. ramped[k] = newgain(j)
          BY <2>1
    <3> HIDE DEF j, ramped
    <3>3. newgain(j) \in Nat /\ newgain(j) < gain[k]
          BY <1>6, <1>11, <3>1
    <3>. QED BY <3>2, <3>3
  <2>2. CASE ~\E j \in falling : ind(j) = k
        BY <2>2
  <2>. QED BY <2>1, <2>2
<1>13. ramped[i] = curgain
  <2> DEFINE j == CHOOSE m \in falling : ind(m) = i
  <2>1. j \in falling /\ ind(j) = i
        BY <1>8, <1>10
  <2>2. j = 0
        BY <1>9, <1>11, <2>1
  <2>3. ramped[i] = newgain(j)
        BY <1>2, <1>8, <1>10
  <2>. QED BY <1>8, <2>2, <2>3
<1>14. ramped \in [L!Indices -> Nat]
  <2>1. ramped = [k \in L!Indices |-> ramped[k]]
        OBVIOUS
  <2> HIDE DEF ramped
  <2>. QED BY <1>12, <2>1
<1> HIDE DEF ramped
<1>. QED BY <1>1, <1>4, <1>12, <1>13, <1>14 DEF i, top, thr
(* A gain that is lowered lowers what is played of its place.              *)
LEMMA SampledKeeps ==
    ASSUME LimiterInv, NEW n \in 0..maxNumChannels, NEW s \in [0..n - 1 -> Inputs]
    PROVE  LET next == L!Sampled(lim, s)
               i == lim.lookaheadBufferIndex
           IN  /\ next \in LimiterType
               /\ Held(next, [limit EXCEPT ![i] = lim.attrThreshold * lim.attrPostamp],
                       [c \in L!Channels |-> IF c \in DOMAIN s THEN recorded[c] \cup {i}
                                            ELSE recorded[c] \ {i}])
<1> DEFINE i == lim.lookaheadBufferIndex
           thr == lim.attrThreshold
           post == lim.attrPostamp
           hot == L!Hottest(s)
           maybe == L!Recovered(lim)
           held == [lim.gain EXCEPT ![i] = maybe]
           gain == IF hot * maybe > thr * One THEN L!RampedGain(lim, hot, held) ELSE held
           lookahead == [c \in L!Channels |->
                            IF c \in DOMAIN s THEN [lim.lookaheadBuffer[c] EXCEPT ![i] = s[c] * post]
                            ELSE lim.lookaheadBuffer[c]]
           places == [c \in L!Channels |-> IF c \in DOMAIN s THEN recorded[c] \cup {i}
                                          ELSE recorded[c] \ {i}]
           next == L!Sampled(lim, s)
           bound == [limit EXCEPT ![i] = thr * post]
<1>1. /\ lim \in LimiterType /\ i \in L!Indices /\ i \in 0..maxBufferSize - 1
      /\ thr \in Nat /\ post \in Nat /\ One \in Nat
      /\ lim.gain \in [L!Indices -> Nat] /\ limit \in [L!Indices -> Nat]
      /\ lim.lookaheadBuffer \in [L!Channels -> [L!Indices -> Nat]]
      BY LimiterConstants DEF LimiterInv, LimiterType, L!Indices
<1>2. hot \in Nat /\ DOMAIN s = 0..n - 1 /\ \A c \in DOMAIN s : s[c] \in Nat /\ s[c] <= hot
      BY LimiterConstants, HottestIsHottest
<1>3. maybe \in Nat /\ maybe <= thr
      BY <1>1, RecoveredInRange
<1> HIDE DEF hot, maybe
<1>4. held \in [L!Indices -> Nat] /\ held[i] = maybe
      BY <1>1, <1>3
<1>5. /\ gain \in [L!Indices -> Nat]
      /\ \A k \in L!Indices : gain[k] <= held[k]
      /\ hot * gain[i] <= thr * One
  <2> HIDE DEF held
  <2>1. CASE hot * maybe > thr * One
    <3>1. LET ramped == L!RampedGain(lim, hot, held)
          IN  /\ ramped \in [L!Indices -> Nat]
              /\ \A k \in L!Indices : ramped[k] <= held[k]
              /\ hot * ramped[i] <= thr * One
          BY <1>1, <1>2, <1>3, <1>4, <2>1, RampLowers
    <3>. QED BY <2>1, <3>1
  <2>2. CASE ~(hot * maybe > thr * One)
    <3>1. gain = held
          BY <2>2
    <3>2. hot * maybe \in Nat /\ thr * One \in Nat
          BY <1>1, <1>2, <1>3
    <3>3. \A k \in L!Indices : held[k] \in Nat
          BY <1>4
    <3> HIDE DEF gain
    <3>. QED BY <1>4, <2>2, <3>1, <3>2, <3>3
  <2>. QED BY <2>1, <2>2
<1>6. ASSUME NEW c \in DOMAIN s
      PROVE  s[c] * post * gain[i] <= thr * post * One
  <2> DEFINE a == s[c]
             g == gain[i]
             top == thr * One
  <2>1. a \in Nat /\ g \in Nat /\ a <= hot /\ g * hot <= top /\ top \in Nat
    <3>0. gain[i] \in Nat
          BY <1>1, <1>5
    <3>1. gain[i] \in Nat /\ hot * gain[i] = gain[i] * hot
          BY <1>2, <3>0
    <3>. QED BY <1>1, <1>2, <1>5, <3>1
  <2> HIDE DEF a, g, top
  <2>2. g * a \in Nat /\ g * a <= top
        BY <1>2, <2>1, Growing
  <2> DEFINE ga == g * a
  <2> HIDE DEF ga
  <2>3. ga * post <= top * post
        BY <1>1, <2>1, <2>2, Growing DEF ga
  <2>4. a * post * g = ga * post
        BY <1>1, <2>1 DEF ga
  <2>5. top * post = thr * post * One
        BY <1>1 DEF top
  <2>. QED BY <2>3, <2>4, <2>5 DEF a, g
<1>7. next = [lim EXCEPT !.lookaheadBuffer = lookahead, !.gain = gain, !.last = gain[i],
                         !.lookaheadBufferIndex = IF i + 1 >= lim.attrLookahead THEN 0 ELSE i + 1]
      BY DEF L!Sampled, hot, maybe
<1>8. lookahead \in [L!Channels -> [L!Indices -> Nat]]
      BY <1>1, <1>2
<1>9. bound \in [L!Indices -> Nat]
      BY <1>1
<1> HIDE DEF held, gain
<1>10. ASSUME NEW c \in L!Channels, NEW k \in places[c]
       PROVE  lookahead[c][k] * gain[k] <= bound[k] * One
  <2>0. /\ k = i => c \in DOMAIN s
        /\ k # i => k \in recorded[c]
        /\ k \in L!Indices
        BY <1>1 DEF LimiterInv
  <2>1. CASE k = i
    <3>1. lookahead[c][k] = s[c] * post /\ bound[k] = thr * post
          BY <1>1, <2>0, <2>1
    <3>. QED BY <1>6, <2>0, <2>1, <3>1
  <2>2. CASE k # i
    <3>1. /\ lookahead[c][k] = lim.lookaheadBuffer[c][k] /\ bound[k] = limit[k]
          /\ held[k] = lim.gain[k]
          BY <1>1, <2>0, <2>2 DEF held
    <3>2. lim.lookaheadBuffer[c][k] * lim.gain[k] <= limit[k] * One
          BY <2>0, <2>2 DEF LimiterInv, Held
    <3> DEFINE a == lim.lookaheadBuffer[c][k]
               g == gain[k]
               h == lim.gain[k]
    <3>7. limit[k] \in Nat /\ One \in Nat /\ a \in Nat /\ h \in Nat
          BY <1>1, <2>0
    <3>8. g \in Nat /\ g <= h
          BY <1>5, <2>0, <3>1
    <3>3. a \in Nat /\ g \in Nat /\ h \in Nat /\ g <= h /\ limit[k] * One \in Nat
          BY <3>7, <3>8
    <3>4. a * h <= limit[k] * One
          BY <3>2
    <3> HIDE DEF a, g, h
    <3>5. a * g \in Nat /\ a * h \in Nat /\ a * g <= a * h
          BY <3>3, Growing
    <3>6. a * g <= limit[k] * One
          BY <3>3, <3>4, <3>5
    <3>. QED BY <3>1, <3>6 DEF a, g
  <2>. QED BY <2>1, <2>2
<1>11. (IF i + 1 >= lim.attrLookahead THEN 0 ELSE i + 1) \in L!Indices
  <2>1. lim.attrLookahead \in Nat \ {0} /\ lim.attrLookahead <= maxBufferSize - 1
        BY <1>1, LimiterFields
  <2>2. i \in 0..maxBufferSize - 1
        BY <1>1
  <2> HIDE DEF i
  <2>. QED BY <2>1, <2>2, LimiterNumbers DEF L!Indices
<1>12. gain[i] \in Nat
       BY <1>1, <1>5
<1> HIDE DEF lookahead, bound, places
<1>13. /\ next \in LimiterType
       /\ next.lookaheadBuffer = lookahead /\ next.gain = gain
  <2> DEFINE index == IF i + 1 >= lim.attrLookahead THEN 0 ELSE i + 1
             one == [lim EXCEPT !.lookaheadBuffer = lookahead]
             two == [one EXCEPT !.gain = gain]
             three == [two EXCEPT !.last = gain[i]]
             four == [three EXCEPT !.lookaheadBufferIndex = index]
  <2>1. index \in L!Indices /\ next = four
        BY <1>7, <1>11
  <2> HIDE DEF index, next
  <2>2. one \in LimiterType /\ one.lookaheadBuffer = lookahead
        BY <1>1, <1>8 DEF LimiterType
  <2> HIDE DEF one
  <2>3. two \in LimiterType /\ two.lookaheadBuffer = lookahead /\ two.gain = gain
        BY <1>5, <2>2 DEF LimiterType
  <2> HIDE DEF two
  <2>4. three \in LimiterType /\ three.lookaheadBuffer = lookahead /\ three.gain = gain
        BY <1>12, <2>3 DEF LimiterType
  <2> HIDE DEF three
  <2>5. four \in LimiterType /\ four.lookaheadBuffer = lookahead /\ four.gain = gain
        BY <2>1, <2>4 DEF LimiterType
  <2>. QED BY <2>1, <2>5
<1> HIDE DEF next
<1>. QED BY <1>10, <1>13 DEF Held, next, bound, places

LEMMA LimiterInit == L!Init => LimiterInv
<1> SUFFICES ASSUME L!Init
             PROVE  LimiterInv
    OBVIOUS
<1>1. /\ maxBufferSize - 1 \in 1..maxBufferSize - 1 /\ 0 \in L!Indices
      /\ (CHOOSE t \in Thresholds : TRUE) \in Thresholds
      /\ (CHOOSE p \in Postamps : TRUE) \in Postamps
      /\ (CHOOSE r \in Recover : TRUE) \in Recover
      BY LimiterConstants DEF L!Indices
<1>2. lim \in LimiterType
      BY <1>1, LimiterConstants DEF L!Init, LimiterType
<1>3. /\ DOMAIN limited = {} /\ leftOver = {} /\ limit \in [L!Indices -> Nat]
      /\ recorded \in [L!Channels -> SUBSET L!Indices]
      BY DEF L!Init
<1>4. Held(lim, limit, recorded)
      BY LimiterConstants DEF L!Init, Held
<1>5. L!Limited
      BY <1>3 DEF L!Limited
<1>. QED BY <1>2, <1>3, <1>4, <1>5 DEF LimiterInv

LEMMA SetLimiterKeeps ==
    ASSUME LimiterInv, L!SetAttribute
    PROVE  LimiterInv'
<1>1. UNCHANGED <<limited, limit, recorded, leftOver>>
      BY DEF L!SetAttribute
<1>2. /\ lim' \in LimiterType
      /\ lim'.lookaheadBuffer = lim.lookaheadBuffer /\ lim'.gain = lim.gain
  <2>1. ASSUME NEW t \in Thresholds, L!setThreshold(t)
        PROVE  <1>2!:
        BY <2>1 DEF L!setThreshold, LimiterInv, LimiterType
  <2>2. ASSUME NEW p \in Postamps, L!setPostamp(p)
        PROVE  <1>2!:
        BY <2>2 DEF L!setPostamp, LimiterInv, LimiterType
  <2>3. ASSUME NEW n \in 0..maxBufferSize, L!setLookahead(n)
        PROVE  <1>2!:
    <3>1. L!Min({n, maxBufferSize - 1}) \in 0..maxBufferSize - 1
          BY LimiterConstants, LeastOfTwo
    <3> DEFINE m == L!Min({n, maxBufferSize - 1})
               look == L!Max({1, m})
    <3> HIDE DEF m
    <3>2. look \in 1..maxBufferSize - 1
          BY <3>1, LimiterNumbers, GreatestOfTwo DEF m
    <3>3. lim' = [lim EXCEPT !.attrLookahead = look]
          BY <2>3 DEF L!setLookahead, m
    <3> HIDE DEF look
    <3>. QED BY <3>2, <3>3 DEF LimiterInv, LimiterType
  <2>4. ASSUME NEW r \in Recover, NEW linear \in BOOLEAN, L!setRecover(r, linear)
        PROVE  <1>2!:
        BY <2>4 DEF L!setRecover, LimiterInv, LimiterType
  <2>. QED BY <2>1, <2>2, <2>3, <2>4 DEF L!SetAttribute
<1>. QED BY <1>1, <1>2 DEF LimiterInv, Held, L!Limited

LEMMA LimiterClearKeeps ==
    ASSUME LimiterInv, L!Clear
    PROVE  LimiterInv'
<1> DEFINE quiet == [c \in L!Channels |-> [i \in L!Indices |-> 0]]
           full == [i \in L!Indices |-> One]
<1>1. /\ lim' = [lim EXCEPT !.lookaheadBuffer = quiet, !.gain = full,
                            !.lookaheadBufferIndex = 0, !.last = One]
      /\ limit' = [i \in L!Indices |-> 0] /\ UNCHANGED <<limited, leftOver>>
      /\ recorded' = [c \in L!Channels |-> L!Indices]
      BY DEF L!Clear, L!Cleared
<1>2. /\ quiet \in [L!Channels -> [L!Indices -> Nat]] /\ full \in [L!Indices -> Nat]
      /\ 0 \in L!Indices /\ One \in Nat
      BY LimiterConstants DEF L!Indices
<1>3. /\ lim' \in LimiterType /\ lim'.lookaheadBuffer = quiet /\ lim'.gain = full
  <2> HIDE DEF quiet, full
  <2>. QED BY <1>1, <1>2 DEF LimiterInv, LimiterType
<1>4. Held(lim', limit', recorded')
      BY <1>1, <1>3, LimiterConstants DEF Held
<1>5. limit' \in [L!Indices -> Nat] /\ recorded' \in [L!Channels -> SUBSET L!Indices]
      BY <1>1
<1>. QED BY <1>1, <1>3, <1>4, <1>5 DEF LimiterInv, Held, L!Limited

LEMMA SampleKeeps ==
    ASSUME LimiterInv, L!Sample
    PROVE  LimiterInv'
<1> DEFINE i == lim.lookaheadBufferIndex
           p == L!PlaybackOf(lim)
           Effect(s) ==
             /\ lim' = L!Sampled(lim, s)
             /\ limit' = [limit EXCEPT ![i] = lim.attrThreshold * lim.attrPostamp]
             /\ recorded' = [c \in L!Channels |-> IF c \in DOMAIN s THEN recorded[c] \cup {i}
                                                  ELSE recorded[c] \ {i}]
             /\ limited' = [c \in DOMAIN s |-> [value |-> lim'.lookaheadBuffer[c][p] * lim'.gain[p],
                                               limit |-> limit'[p]]]
             /\ leftOver' = { c \in DOMAIN s : p \notin recorded'[c] }
<1>0. PICK n \in 0..maxNumChannels : \E s \in [0..n - 1 -> Inputs] : Effect(s)
      BY DEF L!Sample
<1>1. PICK s \in [0..n - 1 -> Inputs] : Effect(s)
      BY <1>0
<1>2. lim' \in LimiterType /\ Held(lim', limit', recorded')
      BY <1>1, SampledKeeps
<1>3. limit' \in [L!Indices -> Nat]
  <2>1. lim.attrThreshold \in Nat /\ lim.attrPostamp \in Nat
        BY LimiterConstants DEF LimiterInv, LimiterType
  <2>2. lim.attrThreshold * lim.attrPostamp \in Nat
        BY <2>1
  <2>. QED BY <1>1, <2>2 DEF LimiterInv
<1>4. p \in L!Indices
  <2> DEFINE look == lim.attrLookahead
  <2>1. p = IF i - look < 0 THEN i - look + look ELSE i - look
        BY DEF L!PlaybackOf
  <2>2. i \in 0..maxBufferSize - 1 /\ look \in Nat /\ maxBufferSize \in Nat
        BY LimiterConstants, LimiterFields DEF LimiterInv
  <2> HIDE DEF i, look, p
  <2>. QED BY <2>1, <2>2 DEF L!Indices
<1>5. i \in L!Indices
      BY LimiterFields DEF LimiterInv
<1>6. recorded' \in [L!Channels -> SUBSET L!Indices]
      BY <1>1, <1>5 DEF LimiterInv
<1>7. DOMAIN s \subseteq L!Channels
      BY <1>1, LimiterConstants DEF L!Channels
<1> HIDE DEF i, p
<1>8. ASSUME NEW c \in DOMAIN s
      PROVE  /\ limited'[c] = [value |-> lim'.lookaheadBuffer[c][p] * lim'.gain[p], limit |-> limit'[p]]
             /\ lim'.lookaheadBuffer[c][p] * lim'.gain[p] \in Nat /\ limit'[p] \in Nat
             /\ c \notin leftOver' => lim'.lookaheadBuffer[c][p] * lim'.gain[p] <= limit'[p] * One
  <2>1. lim'.lookaheadBuffer[c][p] \in Nat /\ lim'.gain[p] \in Nat
        BY <1>2, <1>4, <1>7 DEF LimiterType
  <2>2. c \notin leftOver' => p \in recorded'[c]
        BY <1>1
  <2>3. limited'[c] = [value |-> lim'.lookaheadBuffer[c][p] * lim'.gain[p], limit |-> limit'[p]]
        BY <1>1
  <2>4. limit'[p] \in Nat /\ lim'.lookaheadBuffer[c][p] * lim'.gain[p] \in Nat
        BY <1>3, <1>4, <2>1
  <2>. QED BY <1>2, <1>7, <2>2, <2>3, <2>4 DEF Held
<1>9. DOMAIN limited' = DOMAIN s /\ leftOver' \subseteq DOMAIN limited'
      BY <1>1
<1>10. \A c \in DOMAIN limited' : limited'[c] \in [value : Nat, limit : Nat]
  <2>1. ASSUME NEW c \in DOMAIN s
        PROVE  limited'[c] \in [value : Nat, limit : Nat]
    <3> DEFINE v == lim'.lookaheadBuffer[c][p] * lim'.gain[p]
    <3>1. limited'[c] = [value |-> v, limit |-> limit'[p]] /\ v \in Nat /\ limit'[p] \in Nat
          BY <1>8
    <3> HIDE DEF v
    <3>. QED BY <3>1
  <2>. QED BY <1>9, <2>1
<1>11. L!Limited'
  <2>1. ASSUME NEW c \in DOMAIN s, c \notin leftOver'
        PROVE  limited'[c].value <= limited'[c].limit * One
    <3> DEFINE v == lim'.lookaheadBuffer[c][p] * lim'.gain[p]
               most == limit'[p]
    <3>1. limited'[c] = [value |-> v, limit |-> most] /\ v <= most * One
          BY <1>8, <2>1
    <3> HIDE DEF v, most
    <3>2. limited'[c].value = v /\ limited'[c].limit = most
          BY <3>1
    <3>. QED BY <3>1, <3>2
  <2>. QED BY <1>9, <2>1 DEF L!Limited
<1>. QED BY <1>2, <1>3, <1>6, <1>7, <1>9, <1>10, <1>11 DEF LimiterInv

LEMMA LimiterStep ==
    ASSUME LimiterInv, [L!Next]_limiterVars
    PROVE  LimiterInv'
<1>1. CASE UNCHANGED limiterVars
      BY <1>1 DEF limiterVars, LimiterInv, Held, L!Limited
<1>. QED BY <1>1, SetLimiterKeeps, LimiterClearKeeps, SampleKeeps DEF L!Next

LEMMA LimiterAlways == Spec => []LimiterInv
<1>1. Init => LimiterInv
      BY LimiterInit DEF Init
<1>2. LimiterInv /\ [Next]_vars => LimiterInv'
      BY LimiterStep, UnitSteps
<1>. QED BY <1>1, <1>2, PTL DEF Spec

LEMMA LimiterTypes == ASSUME LimiterInv PROVE L!TypeOK
BY DEF LimiterInv, LimiterType, L!TypeOK

(* TTLimiter: no channel plays a sample above the threshold (times the     *)
(* postamp) that was in force when the sample came in, whichever channel   *)
(* was the hot one and however the lookahead was changed.                  *)
THEOREM NothingAboveThreshold == Spec => []Limited
<1>1. LimiterInv => Limited
      BY DEF LimiterInv, Limited
<1>. QED BY <1>1, LimiterAlways, PTL

----------------------------------------------------------------------------
(* TTAdsr                                                                  *)

AdsrType ==
    [ output : Nat, output_db : Int, trigger : BOOLEAN, mode : A!Modes,
      eg_state : {"inactive", "attack", "decay", "sustain", "release"},
      attack : StageTimes, decay : StageTimes, release : StageTimes, sustain : Sustains ]

(* The two levels move together: the decibels are not more than the        *)
(* amplitude, and where an attack may start, hardly less.                  *)
NotAbove(e) == A!dbToLinear(e.output_db) <= e.output
NotBelow(e) == e.output_db < 0 => e.output <= A!dbToLinear(e.output_db + 1)

AdsrInv ==
    /\ eg \in AdsrType /\ tracking \in BOOLEAN
    /\ eg.output_db <= A!Loudest
    /\ eg.eg_state = "attack" \/ (eg.trigger /\ eg.eg_state \in {"inactive", "release"})
           => eg.output_db <= Ceiling
    /\ eg.eg_state = "inactive" => eg.output = 0
    /\ tracking => /\ eg.eg_state # "inactive" => NotAbove(eg)
                   /\ eg.eg_state \in {"attack", "release"} => NotBelow(eg)

LEMMA AdsrConstants ==
    /\ NOISE_FLOOR \in Int /\ NOISE_FLOOR < 0 /\ Basement \in Int /\ Ceiling \in Nat
    /\ A!Loudest \in Nat /\ A!Loudest = Ceiling - NOISE_FLOOR
    /\ Amplitude \in [NOISE_FLOOR..A!Loudest -> Nat] /\ Amplitude[NOISE_FLOOR] = 1
    /\ \A db, higher \in NOISE_FLOOR..A!Loudest : db < higher => Amplitude[db] < Amplitude[higher]
    /\ Sustains \subseteq Nat /\ Sustains # {} /\ StageTimes # {}
    /\ A!Full \in Nat /\ A!Full > 1 /\ A!Full = Amplitude[0]
<1>1. /\ NOISE_FLOOR \in Int /\ NOISE_FLOOR < 0 /\ Basement \in Int /\ Ceiling \in Nat
      /\ Amplitude \in [NOISE_FLOOR..A!Loudest -> Nat] /\ Amplitude[NOISE_FLOOR] = 1
      /\ \A db, higher \in NOISE_FLOOR..A!Loudest : db < higher => Amplitude[db] < Amplitude[higher]
      /\ Sustains \subseteq 0..A!Full /\ Sustains # {} /\ StageTimes # {}
      BY UnitsAssumption DEF A!ConstantsOK
<1>2. A!Loudest \in Nat /\ A!Loudest = Ceiling - NOISE_FLOOR
      BY <1>1 DEF A!Loudest
<1>3. 0 \in NOISE_FLOOR..A!Loudest /\ NOISE_FLOOR \in NOISE_FLOOR..A!Loudest
      BY <1>1, <1>2
<1>4. A!Full \in Nat /\ A!Full > 1 /\ A!Full = Amplitude[0]
      BY <1>1, <1>3 DEF A!Full
<1>. QED BY <1>1, <1>2, <1>4

LEMMA AdsrBounds ==
    /\ NOISE_FLOOR \in Int /\ NOISE_FLOOR < 0 /\ Ceiling \in Nat
    /\ A!Loudest \in Nat /\ A!Loudest = Ceiling - NOISE_FLOOR
    /\ A!Full \in Nat /\ A!Full > 1 /\ A!dbToLinear(0) = A!Full
BY AdsrConstants DEF A!dbToLinear

LEMMA dbToLinearRises ==
    ASSUME NEW db \in Int, NEW higher \in Int, db <= higher, higher <= A!Loudest
    PROVE  /\ A!dbToLinear(db) \in Nat /\ A!dbToLinear(higher) \in Nat
           /\ A!dbToLinear(db) <= A!dbToLinear(higher)
<1>1. CASE db < NOISE_FLOOR
      BY <1>1, AdsrConstants DEF A!dbToLinear
<1>2. CASE ~(db < NOISE_FLOOR)
  <2>1. db \in NOISE_FLOOR..A!Loudest /\ higher \in NOISE_FLOOR..A!Loudest
        BY <1>2, AdsrConstants
  <2>2. A!dbToLinear(db) = Amplitude[db] /\ A!dbToLinear(higher) = Amplitude[higher]
        BY <1>2, <2>1, AdsrConstants DEF A!dbToLinear
  <2>3. Amplitude[db] \in Nat /\ Amplitude[higher] \in Nat
        BY <2>1, AdsrConstants
  <2>4. db = higher \/ Amplitude[db] < Amplitude[higher]
        BY <2>1, AdsrConstants
  <2>. QED BY <2>2, <2>3, <2>4
<1>. QED BY <1>1, <1>2

(* What linearToDb() computes: there are such decibels, the fewest from    *)
(* which one more would be too many.                                       *)
LEMMA linearToDbTracks ==
    ASSUME NEW amp \in 1..A!Full
    PROVE  LET db == A!linearToDb(amp)
           IN  /\ db \in Int /\ NOISE_FLOOR <= db /\ db <= 0 /\ A!dbToLinear(db) <= amp
               /\ db = 0 \/ amp < A!dbToLinear(db + 1)
<1> DEFINE Enough(db) == db = 0 \/ amp < A!dbToLinear(db + 1)
           T == { n \in 0..-NOISE_FLOOR : Enough(NOISE_FLOOR + n) }
<1>1. T \in SUBSET Nat /\ -NOISE_FLOOR \in T
      BY AdsrConstants
<1>2. PICK n \in T : \A m \in T : n <= m
      BY <1>1, LeastNat
<1>3. n \in 0..-NOISE_FLOOR /\ Enough(NOISE_FLOOR + n)
      BY <1>2
<1>4. A!dbToLinear(NOISE_FLOOR + n) <= amp
  <2>1. CASE n = 0
        BY <2>1, AdsrConstants DEF A!dbToLinear
  <2>2. CASE n # 0
    <3> DEFINE m == n - 1
    <3>1. m \in 0..-NOISE_FLOOR /\ ~(n <= m) /\ NOISE_FLOOR + m + 1 = NOISE_FLOOR + n
          BY <1>3, <2>2, AdsrConstants
    <3> HIDE DEF m
    <3>2. ~Enough(NOISE_FLOOR + m)
          BY <1>2, <3>1
    <3>4. ~(amp < A!dbToLinear(NOISE_FLOOR + n))
          BY <3>1, <3>2
    <3>3. A!dbToLinear(NOISE_FLOOR + n) \in Nat /\ amp \in Nat
          BY <1>3, AdsrConstants, dbToLinearRises
    <3>. QED BY <3>3, <3>4
  <2>. QED BY <2>1, <2>2
<1> DEFINE Tracks(db) == A!dbToLinear(db) <= amp /\ (db = 0 \/ amp < A!dbToLinear(db + 1))
<1>5. \E db \in NOISE_FLOOR..0 : Tracks(db)
  <2>1. NOISE_FLOOR + n \in NOISE_FLOOR..0
        BY <1>3, AdsrConstants
  <2>. QED BY <1>3, <1>4, <2>1
<1>6. A!linearToDb(amp) = CHOOSE db \in NOISE_FLOOR..0 : Tracks(db)
      BY DEF A!linearToDb
<1> HIDE DEF Tracks
<1>7. A!linearToDb(amp) \in NOISE_FLOOR..0 /\ Tracks(A!linearToDb(amp))
      BY <1>5, <1>6
<1>8. \A db \in NOISE_FLOOR..0 : db \in Int /\ NOISE_FLOOR <= db /\ db <= 0
      BY AdsrConstants
<1>. QED BY <1>7, <1>8 DEF Tracks

LEMMA WholeSteps ==
    ASSUME NEW a \in Nat \ {0}, NEW n \in Nat \ {0}, a % n = 0 \/ (-a) % n = 0
    PROVE  a \div n \in Nat \ {0} /\ a \div n <= a
<1>1. a \div n \in Nat /\ a \div n <= a
      OBVIOUS
<1>2. CASE a % n = 0
      BY <1>2
<1>3. CASE (-a) % n = 0
      BY <1>3
<1>. QED BY <1>1, <1>2, <1>3

LEMMA StepsAre ==
    ASSUME NEW n \in StageTimes
    PROVE  /\ A!StepOf(n) \in Nat \ {0}
           /\ A!StepDbOf(n) \in Nat \ {0} /\ A!StepDbOf(n) <= -NOISE_FLOOR
<1>1. n \in Nat \ {0} /\ A!Full % n = 0 /\ NOISE_FLOOR % n = 0
      BY UnitsAssumption DEF A!ConstantsOK
<1>2. A!Full \div n \in Nat \ {0}
      BY <1>1, AdsrConstants, WholeSteps
<1>3. (-NOISE_FLOOR) \div n \in Nat \ {0} /\ (-NOISE_FLOOR) \div n <= -NOISE_FLOOR
  <2> DEFINE a == -NOISE_FLOOR
  <2>1. a \in Nat \ {0} /\ -a = NOISE_FLOOR
        BY AdsrConstants
  <2> HIDE DEF a
  <2>2. a \div n \in Nat \ {0} /\ a \div n <= a
        BY <1>1, <2>1, WholeSteps
  <2>. QED BY <2>2 DEF a
<1>. QED BY <1>2, <1>3 DEF A!StepOf, A!StepDbOf

(* The level that the method at work moves in a stage, and where to.       *)
Rises(e, f) == IF e.mode = "exponential" THEN e.output_db < f.output_db ELSE e.output < f.output
Falls(e, f) == IF e.mode = "linear" THEN f.output < e.output ELSE f.output_db < e.output_db

(* A stage writes some of these three fields.                              *)
Written(e, output, db, state) ==
    [e EXCEPT !.output = output, !.output_db = db, !.eg_state = state]

IsWritten(f, e, output, db, state) ==
    /\ f \in AdsrType
    /\ f.output = output /\ f.output_db = db /\ f.eg_state = state
    /\ f.trigger = e.trigger

LEMMA StageTypes ==
    ASSUME NEW e \in AdsrType, NEW output \in Nat, NEW db \in Int,
           NEW state \in {"inactive", "attack", "decay", "sustain", "release"}
    PROVE  IsWritten(Written(e, output, db, state), e, output, db, state)
<1> DEFINE one == [e EXCEPT !.output = output]
           two == [one EXCEPT !.output_db = db]
           three == [two EXCEPT !.eg_state = state]
<1>1. one \in AdsrType /\ one.output = output /\ one.trigger = e.trigger
      BY DEF AdsrType
<1> HIDE DEF one
<1>2. /\ two \in AdsrType /\ two.output = output /\ two.output_db = db
      /\ two.trigger = e.trigger
      BY <1>1 DEF AdsrType
<1> HIDE DEF two
<1>3. /\ three \in AdsrType /\ three.output = output /\ three.output_db = db
      /\ three.eg_state = state /\ three.trigger = e.trigger
      BY <1>2 DEF AdsrType
<1> HIDE DEF three
<1>4. Written(e, output, db, state) = three
      BY DEF Written, one, two, three
<1>. QED BY <1>3, <1>4 DEF IsWritten

LEMMA StageFields ==
    ASSUME NEW e \in AdsrType
    PROVE  /\ e.output \in Nat /\ e.output_db \in Int /\ e.sustain \in Nat
           /\ e.attack \in StageTimes /\ e.decay \in StageTimes /\ e.release \in StageTimes
           /\ e.eg_state \in {"inactive", "attack", "decay", "sustain", "release"}
           /\ e.mode \in {"linear", "exponential", "hybrid"}
<1>1. /\ e.output \in Nat /\ e.output_db \in Int /\ e.sustain \in Sustains
      /\ e.attack \in StageTimes /\ e.decay \in StageTimes /\ e.release \in StageTimes
      /\ e.eg_state \in {"inactive", "attack", "decay", "sustain", "release"}
      /\ e.mode \in {"linear", "exponential", "hybrid"}
      BY DEF AdsrType, A!Modes
<1>. QED BY <1>1, AdsrConstants

LEMMA AttackedKeeps ==
    ASSUME NEW e \in AdsrType, e.eg_state = "attack", e.output_db <= Ceiling,
           NEW f, f = A!Attacked(e)
    PROVE  /\ f \in AdsrType /\ f.eg_state \in {"attack", "decay"}
           /\ f.output_db <= A!Loudest /\ f.trigger = e.trigger
           /\ f.eg_state = "attack" => f.output_db <= Ceiling
           /\ e.mode # "linear" /\ (e.mode = "exponential" => f.output_db <= 0)
                  => NotAbove(f) /\ NotBelow(f)
           /\ f.eg_state = "attack" /\ (e.output = 0 \/ NotBelow(e)) => f.output >= e.output
           /\ f.eg_state = "attack" => Rises(e, f)
<1> DEFINE db == e.output_db + A!StepDbOf(e.attack)
           raised == e.output + A!StepOf(e.attack)
           level == IF raised >= A!Full THEN A!Full ELSE raised
<1>1. /\ e.output \in Nat /\ e.output_db \in Int /\ e.mode \in {"linear", "exponential", "hybrid"}
      /\ A!StepOf(e.attack) \in Nat \ {0}
      /\ A!StepDbOf(e.attack) \in Nat \ {0} /\ A!StepDbOf(e.attack) <= -NOISE_FLOOR
      BY StageFields, StepsAre
<1>2. level \in 1..A!Full /\ level \in Nat /\ (level # A!Full => level > e.output)
      BY <1>1, AdsrBounds
<1>3. db \in Int /\ db <= A!Loudest /\ e.output_db + 1 <= db
      BY <1>1, AdsrBounds
<1>4. e.output_db <= A!Loudest
      BY <1>1, AdsrBounds
<1>5. CASE e.mode = "linear"
  <2> DEFINE state == IF level = A!Full THEN "decay" ELSE "attack"
  <2>1. f = Written(e, level, e.output_db, state)
    <3>1. A!Raised(e) = [e EXCEPT !.output = level]
          BY <1>5 DEF A!Raised
    <3>2. [e EXCEPT !.output = level].output = level
          BY DEF AdsrType
    <3>3. f = IF level = A!Full THEN [e EXCEPT !.output = level, !.eg_state = "decay"]
              ELSE [e EXCEPT !.output = level]
      <4> HIDE DEF level
      <4>. QED BY <1>5, <3>1, <3>2 DEF A!Attacked
    <3> HIDE DEF level
    <3>. QED BY <3>3 DEF AdsrType, Written
  <2>2. IsWritten(f, e, level, e.output_db, state)
    <3>1. state \in {"inactive", "attack", "decay", "sustain", "release"}
          OBVIOUS
    <3> HIDE DEF level, state
    <3>. QED BY <1>1, <1>2, <2>1, <3>1, StageTypes
  <2>3. state = "attack" => level # A!Full
        OBVIOUS
  <2> HIDE DEF level, state
  <2>4. f.eg_state = "attack" => Rises(e, f)
        BY <1>2, <1>5, <2>2, <2>3 DEF IsWritten, Rises
  <2> USE DEF state
  <2>. QED BY <1>1, <1>2, <1>4, <1>5, <2>2, <2>4 DEF IsWritten
<1>6. CASE e.mode = "hybrid"
  <2> DEFINE state == IF level = A!Full THEN "decay" ELSE "attack"
             new == A!linearToDb(level)
  <2>1. f = Written(e, level, new, state)
    <3>1. A!Raised(e) = [e EXCEPT !.output = level, !.output_db = new]
          BY <1>6 DEF A!Raised
    <3> HIDE DEF level, new
    <3>2. [e EXCEPT !.output = level, !.output_db = new].output = level
          BY DEF AdsrType
    <3>3. f = IF level = A!Full
              THEN [e EXCEPT !.output = level, !.output_db = new, !.eg_state = "decay"]
              ELSE [e EXCEPT !.output = level, !.output_db = new]
          BY <1>6, <3>1, <3>2 DEF A!Attacked
    <3>. QED BY <3>3 DEF AdsrType, Written
  <2>2. /\ new \in Int /\ new <= 0 /\ A!dbToLinear(new) <= level
        /\ new = 0 \/ level < A!dbToLinear(new + 1)
    <3> HIDE DEF level
    <3>. QED BY <1>2, linearToDbTracks, Zenon
  <2>3. state \in {"decay", "attack"}
        OBVIOUS
  <2> HIDE DEF level, new, state
  <2>4. IsWritten(f, e, level, new, state)
        BY <1>2, <2>1, <2>2, <2>3, StageTypes
  <2>5. NotAbove(f)
        BY <2>2, <2>4 DEF NotAbove, IsWritten
  <2>6. new < 0 => A!dbToLinear(new + 1) \in Nat
        BY <2>2, AdsrBounds, dbToLinearRises
  <2>7. NotBelow(f)
        BY <1>2, <2>2, <2>4, <2>6 DEF NotBelow, IsWritten
  <2>8. state = "attack" => level # A!Full
        BY DEF state
  <2>9. new <= Ceiling /\ new <= A!Loudest
        BY <2>2, AdsrBounds
  <2>10. f.eg_state = "attack" => f.output >= e.output /\ Rises(e, f)
         BY <1>1, <1>2, <1>6, <2>4, <2>8 DEF IsWritten, Rises
  <2>. QED BY <1>1, <2>3, <2>4, <2>5, <2>7, <2>9, <2>10 DEF IsWritten
<1>7. CASE e.mode = "exponential" /\ db >= 0
  <2>1. f = Written(e, A!Full, db, "decay")
        BY <1>7 DEF A!Attacked, Written
  <2> HIDE DEF db
  <2>2. IsWritten(f, e, A!Full, db, "decay")
        BY <1>3, <2>1, AdsrBounds, StageTypes
  <2>3. db <= 0 => NotAbove(f) /\ NotBelow(f)
    <3>1. db <= 0 => db = 0
          BY <1>3, <1>7
    <3>. QED BY <2>2, <3>1, AdsrBounds DEF NotAbove, NotBelow, IsWritten
  <2>. QED BY <1>3, <1>7, <2>2, <2>3 DEF IsWritten
<1>8. CASE e.mode = "exponential" /\ ~(db >= 0)
  <2> DEFINE new == A!dbToLinear(db)
  <2>1. f = Written(e, new, db, "attack")
    <3>1. f = [e EXCEPT !.output_db = db, !.output = new]
          BY <1>8 DEF A!Attacked, A!AtDb
    <3> HIDE DEF db, new
    <3>. QED BY <3>1 DEF AdsrType, Written
  <2>2. new \in Nat
        BY <1>3, dbToLinearRises
  <2>3. IsWritten(f, e, new, db, "attack")
    <3> HIDE DEF db, new
    <3>. QED BY <1>3, <2>1, <2>2, StageTypes
  <2>4. new <= A!dbToLinear(db + 1)
        BY <1>3, <1>8, AdsrBounds, dbToLinearRises
  <2>5. NotAbove(f) /\ NotBelow(f)
        BY <2>2, <2>3, <2>4 DEF NotAbove, NotBelow, IsWritten
  <2>6. e.output = 0 \/ NotBelow(e) => f.output >= e.output
    <3>1. e.output_db < 0 /\ e.output_db + 1 \in Int
          BY <1>1, <1>8
    <3>2. A!dbToLinear(e.output_db + 1) \in Nat /\ A!dbToLinear(e.output_db + 1) <= new
          BY <1>3, <3>1, dbToLinearRises
    <3> HIDE DEF new
    <3>. QED BY <1>1, <2>2, <2>3, <3>1, <3>2 DEF NotBelow, IsWritten
  <2>7. db <= Ceiling /\ e.output_db < db
        BY <1>1, <1>3, <1>8, AdsrBounds
  <2> HIDE DEF db
  <2>8. Rises(e, f)
        BY <1>8, <2>3, <2>7 DEF IsWritten, Rises
  <2>. QED BY <1>3, <2>3, <2>5, <2>6, <2>7, <2>8 DEF IsWritten
<1>. QED BY <1>1, <1>5, <1>6, <1>7, <1>8
(* A decay and a release both lower the level they have, and the other     *)
(* with it unless the method is the linear one.                            *)
LEMMA LoweredKeeps ==
    ASSUME NEW e \in AdsrType, NEW n \in StageTimes, e.output_db <= A!Loudest,
           NEW f, f = A!Lowered(e, n)
    PROVE  /\ f.output \in Int /\ f.output_db \in Int /\ f.output_db <= e.output_db
           /\ e.mode = "linear" => f.output < e.output /\ f.output_db = e.output_db
           /\ e.mode # "linear" => /\ f.output_db < e.output_db
                                  /\ f.output = A!dbToLinear(f.output_db) /\ f.output \in Nat
           /\ f = Written(e, f.output, f.output_db, e.eg_state)
<1> DEFINE lower == e.output - A!StepOf(n)
           db == e.output_db - A!StepDbOf(n)
           new == A!dbToLinear(db)
<1>1. /\ e.output \in Nat /\ e.output_db \in Int
      /\ A!StepOf(n) \in Nat \ {0} /\ A!StepDbOf(n) \in Nat \ {0}
      BY StageFields, StepsAre
<1>2. CASE e.mode = "linear"
  <2>1. lower \in Int /\ lower < e.output
        BY <1>1
  <2>2. f = [e EXCEPT !.output = lower]
        BY <1>2 DEF A!Lowered
  <2> HIDE DEF lower
  <2>3. f.output = lower /\ f.output_db = e.output_db
        BY <2>2 DEF AdsrType
  <2>4. f = Written(e, f.output, f.output_db, e.eg_state)
        BY <2>2, <2>3 DEF AdsrType, Written
  <2>. QED BY <1>1, <1>2, <2>1, <2>3, <2>4
<1>3. CASE e.mode # "linear"
  <2>1. db \in Int /\ db < e.output_db /\ db <= A!Loudest
        BY <1>1, AdsrBounds
  <2>2. new \in Nat
        BY <2>1, dbToLinearRises
  <2>3. f = [e EXCEPT !.output_db = db, !.output = new]
        BY <1>3 DEF A!Lowered, A!AtDb
  <2>4. f.output = new /\ f.output_db = db
    <3> HIDE DEF db, new
    <3>. QED BY <2>3 DEF AdsrType
  <2>5. f = Written(e, f.output, f.output_db, e.eg_state)
    <3> HIDE DEF db, new
    <3>. QED BY <2>3, <2>4 DEF AdsrType, Written
  <2> HIDE DEF db
  <2>. QED BY <1>1, <1>3, <2>1, <2>2, <2>4, <2>5
<1>. QED BY <1>2, <1>3

LEMMA DecayedKeeps ==
    ASSUME NEW e \in AdsrType, e.eg_state = "decay", e.output_db <= A!Loudest,
           NEW f, f = A!Decayed(e)
    PROVE  /\ f \in AdsrType /\ f.eg_state \in {"decay", "sustain"}
           /\ f.output_db <= e.output_db /\ f.trigger = e.trigger
           /\ e.mode # "linear" => NotAbove(f)
           /\ f.eg_state = "decay" => Falls(e, f)
<1> PICK lower : lower = A!Lowered(e, e.decay)
    OBVIOUS
<1>1. e.decay \in StageTimes /\ e.sustain \in Nat
      BY StageFields
<1>2. /\ lower.output \in Int /\ lower.output_db \in Int /\ lower.output_db <= e.output_db
      /\ e.mode = "linear" => lower.output < e.output
      /\ e.mode # "linear" => /\ lower.output_db < e.output_db
                             /\ lower.output = A!dbToLinear(lower.output_db)
      /\ lower = Written(e, lower.output, lower.output_db, "decay")
      BY <1>1, LoweredKeeps
<1>3. f = IF lower.output <= e.sustain
          THEN [lower EXCEPT !.output = e.sustain, !.eg_state = "sustain"] ELSE lower
      BY DEF A!Decayed
<1> DEFINE output == lower.output
           db == lower.output_db
<1>4. output \in Int /\ db \in Int /\ db <= e.output_db
      BY <1>2
<1>5. CASE output <= e.sustain
  <2>1. f = [Written(e, output, db, "decay") EXCEPT !.output = e.sustain, !.eg_state = "sustain"]
        BY <1>2, <1>3, <1>5
  <2>2. e.mode # "linear" => A!dbToLinear(db) = output
        BY <1>2
  <2> HIDE DEF output, db
  <2>3. f = Written(e, e.sustain, db, "sustain")
        BY <2>1 DEF Written, AdsrType
  <2>4. IsWritten(f, e, e.sustain, db, "sustain")
        BY <1>1, <1>4, <2>3, StageTypes
  <2>. QED BY <1>4, <1>5, <2>2, <2>4 DEF IsWritten, NotAbove
<1>6. CASE ~(output <= e.sustain)
  <2>1. f = Written(e, output, db, "decay")
        BY <1>2, <1>3, <1>6
  <2>2. /\ e.mode = "linear" => output < e.output
        /\ e.mode # "linear" => db < e.output_db /\ A!dbToLinear(db) = output
        BY <1>2
  <2> HIDE DEF output, db
  <2>3. output \in Nat
        BY <1>1, <1>4, <1>6
  <2>4. IsWritten(f, e, output, db, "decay")
        BY <1>4, <2>1, <2>3, StageTypes
  <2>5. Falls(e, f)
        BY <2>2, <2>4 DEF IsWritten, Falls
  <2>. QED BY <1>4, <2>2, <2>3, <2>4, <2>5 DEF IsWritten, NotAbove
<1>. QED BY <1>5, <1>6

LEMMA ReleasedKeeps ==
    ASSUME NEW e \in AdsrType, e.eg_state = "release", e.output_db <= A!Loudest,
           NEW f, f = A!Released(e)
    PROVE  /\ f \in AdsrType /\ f.eg_state \in {"release", "inactive"}
           /\ f.output_db <= e.output_db /\ f.trigger = e.trigger
           /\ f.eg_state = "inactive" => f.output = 0
           /\ e.mode # "linear" /\ f.eg_state = "release" => NotAbove(f) /\ NotBelow(f)
           /\ f.eg_state = "release" /\ (e.mode # "linear" => NotAbove(e)) => f.output <= e.output
           /\ f.eg_state = "release" => Falls(e, f)
<1> PICK lower : lower = A!Lowered(e, e.release)
    OBVIOUS
<1>1. e.release \in StageTimes /\ e.output \in Nat /\ e.output_db \in Int
      BY StageFields
<1>2. /\ lower.output \in Int /\ lower.output_db \in Int /\ lower.output_db <= e.output_db
      /\ e.mode = "linear" => lower.output < e.output
      /\ e.mode # "linear" => /\ lower.output_db < e.output_db
                             /\ lower.output = A!dbToLinear(lower.output_db) /\ lower.output \in Nat
      /\ lower = Written(e, lower.output, lower.output_db, "release")
      BY <1>1, LoweredKeeps
<1> DEFINE output == lower.output
           db == lower.output_db
           ended == IF e.mode = "linear" THEN output <= 0 ELSE db <= NOISE_FLOOR
<1>3. f = IF ended THEN [lower EXCEPT !.output = 0, !.eg_state = "inactive"] ELSE lower
      BY DEF A!Released
<1>4. /\ output \in Int /\ db \in Int /\ db <= e.output_db
      /\ e.mode = "linear" => output < e.output
      /\ e.mode # "linear" => db < e.output_db /\ output = A!dbToLinear(db) /\ output \in Nat
      BY <1>2
<1>5. CASE ended
  <2>1. f = [Written(e, output, db, "release") EXCEPT !.output = 0, !.eg_state = "inactive"]
        BY <1>2, <1>3, <1>5
  <2> HIDE DEF output, db
  <2>2. f = Written(e, 0, db, "inactive")
        BY <2>1 DEF Written, AdsrType
  <2>3. IsWritten(f, e, 0, db, "inactive")
        BY <1>4, <2>2, StageTypes
  <2>. QED BY <1>4, <2>3 DEF IsWritten
<1>6. CASE ~ended
  <2>1. f = Written(e, output, db, "release")
        BY <1>2, <1>3, <1>6
  <2> HIDE DEF output, db
  <2>2. output \in Nat
        BY <1>4, <1>6
  <2>3. IsWritten(f, e, output, db, "release")
        BY <1>4, <2>1, <2>2, StageTypes
  <2>4. ASSUME e.mode # "linear"
        PROVE  /\ NotAbove(f) /\ NotBelow(f)
               /\ NotAbove(e) => output <= e.output
    <3>1. output = A!dbToLinear(db) /\ db < e.output_db
          BY <1>4, <2>4
    <3>2. A!dbToLinear(db) <= A!dbToLinear(e.output_db) /\ A!dbToLinear(e.output_db) \in Nat
          BY <1>1, <1>4, <3>1, dbToLinearRises
    <3>3. db < 0 => A!dbToLinear(db) <= A!dbToLinear(db + 1)
          BY <1>4, AdsrBounds, dbToLinearRises
    <3>4. NotAbove(f)
          BY <2>2, <2>3, <3>1 DEF IsWritten, NotAbove
    <3>5. NotBelow(f)
          BY <2>3, <3>1, <3>3 DEF IsWritten, NotBelow
    <3>. QED BY <1>1, <2>2, <3>1, <3>2, <3>4, <3>5 DEF NotAbove
  <2>5. Falls(e, f)
        BY <1>4, <2>3 DEF IsWritten, Falls
  <2>6. e.mode = "linear" => output <= e.output
        BY <1>1, <1>4, <2>2
  <2>. QED BY <1>4, <2>3, <2>4, <2>5, <2>6 DEF IsWritten
<1>. QED BY <1>5, <1>6
LEMMA GatedIs ==
    ASSUME NEW g \in AdsrType, NEW e, e = A!Gated(g)
    PROVE  /\ e \in AdsrType /\ e.output = g.output /\ e.output_db = g.output_db
           /\ e.trigger = g.trigger /\ e.mode = g.mode
           /\ e.eg_state = IF g.trigger /\ g.eg_state \in {"inactive", "release"} THEN "attack"
                          ELSE IF ~g.trigger /\ g.eg_state # "inactive" THEN "release"
                          ELSE g.eg_state
<1>1. CASE g.trigger /\ g.eg_state \in {"inactive", "release"}
      BY <1>1 DEF A!Gated, AdsrType
<1>2. CASE ~g.trigger /\ g.eg_state # "inactive"
  <2>1. e = [g EXCEPT !.eg_state = "release"]
        BY <1>2 DEF A!Gated
  <2>. QED BY <1>2, <2>1 DEF AdsrType
<1>3. CASE /\ ~(g.trigger /\ g.eg_state \in {"inactive", "release"})
           /\ ~(~g.trigger /\ g.eg_state # "inactive")
  <2>1. e = g
        BY <1>3 DEF A!Gated
  <2>. QED BY <1>3, <2>1
<1>. QED BY <1>1, <1>2, <1>3

LEMMA AdsrSampleKeeps ==
    ASSUME AdsrInv, A!Sample
    PROVE  /\ AdsrInv'
           /\ tracking => /\ eg'.eg_state = "attack" => eg'.output >= eg.output
                          /\ eg'.eg_state = "release" => eg'.output <= eg.output
<1> PICK e : e = A!Gated(eg)
    OBVIOUS
<1>1. /\ e \in AdsrType /\ e.output = eg.output /\ e.output_db = eg.output_db
      /\ e.trigger = eg.trigger /\ e.mode = eg.mode
      /\ e.eg_state = IF eg.trigger /\ eg.eg_state \in {"inactive", "release"} THEN "attack"
                     ELSE IF ~eg.trigger /\ eg.eg_state # "inactive" THEN "release"
                     ELSE eg.eg_state
      BY GatedIs DEF AdsrInv
<1>2. eg' = CASE e.eg_state = "attack"  -> A!Attacked(e)
              [] e.eg_state = "decay"   -> A!Decayed(e)
              [] e.eg_state = "release" -> A!Released(e)
              [] OTHER                  -> e
      BY DEF A!Sample
<1>3. tracking' = CASE e.eg_state \notin {"attack", "decay", "release"} -> tracking
                    [] e.eg_state = "attack" /\ e.mode = "exponential" -> eg'.output_db <= 0
                    [] OTHER -> e.mode # "linear"
      BY DEF A!Sample
<1>4. /\ eg \in AdsrType /\ tracking \in BOOLEAN /\ e.output_db <= A!Loudest
      /\ eg.eg_state \in {"inactive", "attack", "decay", "sustain", "release"}
      BY <1>1, StageFields DEF AdsrInv
<1>5. CASE e.eg_state = "attack"
  <2>1. eg' = A!Attacked(e)
        BY <1>2, <1>5
  <2>2. tracking' \in BOOLEAN
    <3>1. CASE e.mode = "exponential"
      <4>1. tracking' = (eg'.output_db <= 0)
            BY <1>3, <1>5, <3>1
      <4>. QED BY <4>1
    <3>2. CASE e.mode # "exponential"
      <4>1. tracking' = (e.mode # "linear")
            BY <1>3, <1>5, <3>2
      <4>. QED BY <4>1, Zenon
    <3>. QED BY <3>1, <3>2
  <2>3. tracking' => e.mode # "linear" /\ (e.mode = "exponential" => eg'.output_db <= 0)
        BY <1>3, <1>5
  <2>4. e.output_db <= Ceiling
        BY <1>1, <1>5 DEF AdsrInv
  <2>5. /\ eg' \in AdsrType /\ eg'.eg_state \in {"attack", "decay"}
        /\ eg'.output_db <= A!Loudest /\ eg'.trigger = e.trigger
        /\ eg'.eg_state = "attack" => eg'.output_db <= Ceiling
        /\ e.mode # "linear" /\ (e.mode = "exponential" => eg'.output_db <= 0)
               => NotAbove(eg') /\ NotBelow(eg')
        /\ eg'.eg_state = "attack" /\ (e.output = 0 \/ NotBelow(e)) => eg'.output >= e.output
        BY <1>1, <1>5, <2>1, <2>4, AttackedKeeps
  <2>6. AdsrInv'
        BY <2>2, <2>3, <2>5 DEF AdsrInv
  <2>7. tracking => e.output = 0 \/ NotBelow(e)
        BY <1>1, <1>4, <1>5 DEF AdsrInv, NotBelow
  <2>. QED BY <1>1, <2>5, <2>6, <2>7
<1>6. CASE e.eg_state = "decay"
  <2>1. eg' = A!Decayed(e)
        BY <1>2, <1>6
  <2>2. tracking' = (e.mode # "linear")
        BY <1>3, <1>6
  <2>3. tracking' \in BOOLEAN /\ (tracking' => e.mode # "linear")
        BY <2>2, Zenon
  <2>4. /\ eg' \in AdsrType /\ eg'.eg_state \in {"decay", "sustain"}
        /\ eg'.output_db <= e.output_db /\ eg'.trigger = e.trigger
        /\ e.mode # "linear" => NotAbove(eg')
        BY <1>1, <1>4, <1>6, <2>1, DecayedKeeps
  <2>5. eg'.output_db <= A!Loudest
        BY <1>1, <1>4, <2>4, StageFields, AdsrBounds
  <2>. QED BY <2>3, <2>4, <2>5 DEF AdsrInv
<1>7. CASE e.eg_state = "release"
  <2>1. eg' = A!Released(e)
        BY <1>2, <1>7
  <2>2. tracking' = (e.mode # "linear")
        BY <1>3, <1>7
  <2>3. tracking' \in BOOLEAN /\ (tracking' => e.mode # "linear")
        BY <2>2, Zenon
  <2>4. /\ eg' \in AdsrType /\ eg'.eg_state \in {"release", "inactive"}
        /\ eg'.output_db <= e.output_db /\ eg'.trigger = e.trigger
        /\ eg'.eg_state = "inactive" => eg'.output = 0
        /\ e.mode # "linear" /\ eg'.eg_state = "release" => NotAbove(eg') /\ NotBelow(eg')
        /\ eg'.eg_state = "release" /\ (e.mode # "linear" => NotAbove(e)) => eg'.output <= e.output
        BY <1>1, <1>4, <1>7, <2>1, ReleasedKeeps
  <2>5. eg'.output_db <= A!Loudest
        BY <1>1, <1>4, <2>4, StageFields, AdsrBounds
  <2>6. ~eg'.trigger
        BY <1>1, <1>4, <1>7, <2>4
  <2>7. AdsrInv'
        BY <2>3, <2>4, <2>5, <2>6 DEF AdsrInv
  <2>8. tracking => NotAbove(e)
        BY <1>1, <1>4, <1>7 DEF AdsrInv, NotAbove
  <2>. QED BY <1>1, <2>4, <2>7, <2>8
<1>8. CASE e.eg_state \notin {"attack", "decay", "release"}
  <2>1. eg' = e /\ tracking' = tracking
        BY <1>2, <1>3, <1>8
  <2>2. e.eg_state = eg.eg_state
        BY <1>1, <1>8
  <2>3. /\ e.eg_state \notin {"attack", "release"}
        /\ e.trigger /\ e.eg_state = "inactive" => FALSE
        BY <1>1, <1>8
  <2>. QED BY <1>1, <1>4, <1>8, <2>1, <2>2, <2>3 DEF AdsrInv, NotAbove
<1>. QED BY <1>5, <1>6, <1>7, <1>8

LEMMA AdsrInit == A!Init => AdsrInv
<1> SUFFICES ASSUME A!Init
             PROVE  AdsrInv
    OBVIOUS
<1> DEFINE n == CHOOSE n \in StageTimes : TRUE
           s == CHOOSE s \in Sustains : TRUE
<1>1. n \in StageTimes /\ s \in Sustains
      BY AdsrConstants
<1>2. eg = [output |-> 0, output_db |-> NOISE_FLOOR, eg_state |-> "inactive", trigger |-> FALSE,
            mode |-> "hybrid", attack |-> n, decay |-> n, release |-> n, sustain |-> s]
      BY DEF A!Init
<1> HIDE DEF n, s
<1>3. /\ eg \in AdsrType /\ eg.output = 0 /\ eg.output_db = NOISE_FLOOR
      /\ eg.eg_state = "inactive" /\ eg.trigger = FALSE
      BY <1>1, <1>2, AdsrBounds DEF AdsrType, A!Modes
<1>4. NOISE_FLOOR <= A!Loudest
      BY AdsrBounds
<1>5. tracking \in BOOLEAN
      BY Zenon DEF A!Init
<1>. QED BY <1>3, <1>4, <1>5 DEF AdsrInv

LEMMA SetAdsrKeeps ==
    ASSUME AdsrInv, A!SetAttribute
    PROVE  AdsrInv'
<1>1. UNCHANGED tracking
      BY DEF A!SetAttribute
<1>2. ASSUME eg' \in AdsrType, UNCHANGED <<eg.output, eg.output_db, eg.eg_state>>,
             eg'.trigger => eg.trigger \/ eg.output_db <= Ceiling
      PROVE  AdsrInv'
      BY <1>1, <1>2 DEF AdsrInv, NotAbove, NotBelow
<1>3. ASSUME NEW t \in BOOLEAN, A!setTrigger(t)
      PROVE  AdsrInv'
  <2>1. eg' = [eg EXCEPT !.trigger = t] /\ (t => eg.output_db \in Basement..Ceiling)
        BY <1>3 DEF A!setTrigger
  <2>2. t => eg.output_db <= Ceiling
        BY <2>1, AdsrConstants
  <2>3. /\ eg' \in AdsrType /\ eg'.trigger = t
        /\ UNCHANGED <<eg.output, eg.output_db, eg.eg_state>>
        BY <2>1 DEF AdsrInv, AdsrType
  <2>. QED BY <1>2, <2>2, <2>3
<1>4. ASSUME NEW n \in StageTimes, A!setAttack(n) \/ A!setDecay(n) \/ A!setRelease(n)
      PROVE  AdsrInv'
  <2>1. /\ eg' \in AdsrType /\ eg'.trigger = eg.trigger
        /\ UNCHANGED <<eg.output, eg.output_db, eg.eg_state>>
        BY <1>4 DEF A!setAttack, A!setDecay, A!setRelease, AdsrInv, AdsrType
  <2>. QED BY <1>2, <2>1
<1>5. ASSUME NEW s \in Sustains, A!setSustain(s)
      PROVE  AdsrInv'
  <2>1. /\ eg' \in AdsrType /\ eg'.trigger = eg.trigger
        /\ UNCHANGED <<eg.output, eg.output_db, eg.eg_state>>
        BY <1>5 DEF A!setSustain, AdsrInv, AdsrType
  <2>. QED BY <1>2, <2>1
<1>6. ASSUME NEW m \in A!Modes, A!setMode(m)
      PROVE  AdsrInv'
  <2>1. /\ eg' \in AdsrType /\ eg'.trigger = eg.trigger
        /\ UNCHANGED <<eg.output, eg.output_db, eg.eg_state>>
        BY <1>6 DEF A!setMode, AdsrInv, AdsrType
  <2>. QED BY <1>2, <2>1
<1>. QED BY <1>3, <1>4, <1>5, <1>6 DEF A!SetAttribute

LEMMA AdsrStep ==
    ASSUME AdsrInv, [A!Next]_adsrVars
    PROVE  AdsrInv'
<1>1. CASE UNCHANGED adsrVars
      BY <1>1 DEF adsrVars, AdsrInv, NotAbove, NotBelow
<1>. QED BY <1>1, SetAdsrKeeps, AdsrSampleKeeps DEF A!Next

LEMMA AdsrAlways == Spec => []AdsrInv
<1>1. Init => AdsrInv
      BY AdsrInit DEF Init
<1>2. AdsrInv /\ [Next]_vars => AdsrInv'
      BY AdsrStep, UnitSteps
<1>. QED BY <1>1, <1>2, PTL DEF Spec

LEMMA AdsrTypes == ASSUME AdsrInv PROVE A!TypeOK
BY DEF AdsrInv, AdsrType, A!TypeOK

(* TTAdsr: as long as the two levels move together an attack never makes   *)
(* the envelope drop, nor a release jump up, for every table from decibels *)
(* to amplitudes that rises and whatever the method was before.            *)
THEOREM EnvelopeNeverTheWrongWay == Spec => NeverTheWrongWay
<1>1. ASSUME AdsrInv, [Next]_vars
      PROVE  [ A!Sample /\ tracking =>
                 /\ eg'.eg_state = "attack" => eg'.output >= eg.output
                 /\ eg'.eg_state = "release" => eg'.output <= eg.output ]_(A!vars)
      BY <1>1, AdsrSampleKeeps
<1>. QED BY <1>1, AdsrAlways, PTL DEF Spec, NeverTheWrongWay, A!NeverTheWrongWay

(* Every sample of an attack raises the level of the method at work, and   *)
(* every sample of a decay or a release lowers it, unless the stage is     *)
(* over; which stage it is the trigger says, and the next is the next in   *)
(* order.  With the fairness of the process methods this is why            *)
(* FollowsItsGate holds as long as the method stays.                       *)
StagesMoveOn ==
    A!Sample =>
        LET stage == A!Gated(eg).eg_state
        IN  /\ stage = "attack" =>
                   \/ eg'.eg_state = "decay"
                   \/ eg'.eg_state = stage /\ Rises(eg, eg')
            /\ stage = "decay" =>
                   \/ eg'.eg_state = "sustain"
                   \/ eg'.eg_state = stage /\ Falls(eg, eg')
            /\ stage = "release" =>
                   \/ eg'.eg_state = "inactive" /\ eg'.output = 0
                   \/ eg'.eg_state = stage /\ Falls(eg, eg')
            /\ stage \in {"inactive", "sustain"} => eg' = eg

THEOREM EveryStageMovesOn == Spec => [][StagesMoveOn]_vars
<1>1. ASSUME AdsrInv, A!Sample
      PROVE  StagesMoveOn
  <2> PICK e : e = A!Gated(eg)
      OBVIOUS
  <2>1. /\ e \in AdsrType /\ e.output = eg.output /\ e.output_db = eg.output_db /\ e.mode = eg.mode
        /\ e.eg_state = IF eg.trigger /\ eg.eg_state \in {"inactive", "release"} THEN "attack"
                       ELSE IF ~eg.trigger /\ eg.eg_state # "inactive" THEN "release"
                       ELSE eg.eg_state
        BY <1>1, GatedIs DEF AdsrInv
  <2>2. eg' = CASE e.eg_state = "attack"  -> A!Attacked(e)
                [] e.eg_state = "decay"   -> A!Decayed(e)
                [] e.eg_state = "release" -> A!Released(e)
                [] OTHER                  -> e
        BY <1>1 DEF A!Sample
  <2>3. e.output_db <= A!Loudest /\ (e.eg_state = "attack" => e.output_db <= Ceiling)
        BY <1>1, <2>1 DEF AdsrInv
  <2>4. (Rises(e, eg') => Rises(eg, eg')) /\ (Falls(e, eg') => Falls(eg, eg'))
        BY <2>1 DEF Rises, Falls
  <2>5. CASE e.eg_state = "attack"
    <3>1. /\ eg'.eg_state \in {"attack", "decay"}
          /\ eg'.eg_state = "attack" => Rises(e, eg')
          BY <2>1, <2>2, <2>3, <2>5, AttackedKeeps
    <3>. QED BY <2>4, <2>5, <3>1 DEF StagesMoveOn
  <2>6. CASE e.eg_state = "decay"
    <3>1. /\ eg'.eg_state \in {"decay", "sustain"}
          /\ eg'.eg_state = "decay" => Falls(e, eg')
          BY <2>1, <2>2, <2>3, <2>6, DecayedKeeps
    <3>. QED BY <2>4, <2>6, <3>1 DEF StagesMoveOn
  <2>7. CASE e.eg_state = "release"
    <3>1. /\ eg'.eg_state \in {"release", "inactive"}
          /\ eg'.eg_state = "inactive" => eg'.output = 0
          /\ eg'.eg_state = "release" => Falls(e, eg')
          BY <2>1, <2>2, <2>3, <2>7, ReleasedKeeps
    <3>. QED BY <2>4, <2>7, <3>1 DEF StagesMoveOn
  <2>8. CASE e.eg_state \notin {"attack", "decay", "release"}
    <3>1. /\ ~(eg.trigger /\ eg.eg_state \in {"inactive", "release"})
          /\ ~(~eg.trigger /\ eg.eg_state # "inactive")
          BY <2>1, <2>8
    <3>2. e = eg
          BY <3>1 DEF A!Gated
    <3>3. eg' = eg
          BY <2>2, <2>8, <3>2
    <3>. QED BY <2>8, <3>3 DEF StagesMoveOn
  <2>. QED BY <2>5, <2>6, <2>7, <2>8
<1>2. AdsrInv => StagesMoveOn
      BY <1>1 DEF StagesMoveOn
<1>. QED BY <1>2, AdsrAlways, PTL

----------------------------------------------------------------------------
(* All of them                                                             *)

(* The members of every unit keep their types: indices stay in their       *)
(* tables, counts do not become negative, modes are those there are.       *)
THEOREM UnitsTypeOK == Spec => []TypeOK
<1>1. AdsrInv /\ RampInv /\ LimiterInv /\ BufferInv /\ MixerInv /\ PlayerInv /\ GainInv => TypeOK
      BY AdsrTypes, RampTypes, LimiterTypes, BufferTypes, MixerTypes, PlayerTypes, GainTypes
      DEF TypeOK
<1>. QED BY <1>1, AdsrAlways, RampAlways, LimiterAlways, BufferAlways, MixerAlways, PlayerAlways,
            GainAlways, PTL
=============================================================================
