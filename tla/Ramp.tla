-------------------------------- MODULE Ramp --------------------------------
(***************************************************************************)
(* TTRamp (extensions/GeneratorLib/source/TTRamp.cpp): a value that moves  *)
(* to its destination by a step.  The step is computed when a time is set, *)
(* the values are plain attributes that anyone may write while it moves,   *)
(* and four process methods share the stopping condition two by two.       *)
(*                                                                         *)
(* Values are whole numbers, and so are the steps (OnGrid).  A time is a   *)
(* number of samples; in milliseconds it may be shorter than one, and the  *)
(* division by zero samples gives an infinity, or NaN: not a number.       *)
(***************************************************************************)
EXTENDS Integers

CONSTANTS Values,       \* CurrentValue and DestinationValue
          Times,        \* rampSamples
          VectorSizes, Channels,   \* of the output signal
          Infinity,     \* beyond all the values
          NaN           \* none of them

ConstantsOK ==
    /\ Values \subseteq Nat /\ Times \subseteq Nat /\ 0 \in Times
    /\ VectorSizes \subseteq Nat \ {0} /\ Channels \subseteq Nat \ {0}
    /\ Infinity \in Nat \ {0} /\ \A v \in Values : v < Infinity
    /\ NaN \notin Int

VARIABLE ramp

vars == <<ramp>>

Modes == {"sample", "vector"}
Methods == {"SampleAccurateUp", "SampleAccurateDown", "VectorAccurateUp", "VectorAccurateDown"}

(* The arithmetic of the attributes, as floating point does it.            *)
Plus(a, b) == IF a = NaN \/ b = NaN THEN NaN ELSE a + b
Divided(a, n) ==
    CASE a = NaN \/ (n = 0 /\ a = 0) -> NaN
      [] a # NaN /\ n = 0 /\ a # 0   -> IF a > 0 THEN Infinity ELSE -Infinity
      [] OTHER                       -> a \div n

(* setStep(): what is left to go, in rampSamples equal steps.              *)
StepTo(r, n) ==
    LET step == Divided(IF r.current = NaN THEN NaN ELSE r.destination - r.current, n)
    IN  [r EXCEPT !.step = step, !.direction = IF step # NaN /\ step < 0 THEN "DOWN" ELSE "UP"]

setupProcess(r) ==
    [r EXCEPT !.method =
        CASE r.mode = "sample" /\ r.direction = "UP"   -> "SampleAccurateUp"
          [] r.mode = "sample" /\ r.direction = "DOWN" -> "SampleAccurateDown"
          [] r.mode = "vector" /\ r.direction = "UP"   -> "VectorAccurateUp"
          [] OTHER                                     -> "VectorAccurateDown"]

Started(r, n) == setupProcess(StepTo(r, n))

(* A time of zero: the ramp is at its destination.                         *)
Ended(r) == setupProcess([r EXCEPT !.step = 0, !.current = r.destination, !.direction = "UP"])

(* Bound: a ramp is asked for only when its step is a whole number.        *)
OnGrid(n) == IF n = 0 \/ ramp.current = NaN THEN TRUE ELSE (ramp.destination - ramp.current) % n = 0

(* Slip: a rising ramp waits to meet its destination exactly.              *)
ReachedExactly(r, value) ==
    IF r.method \in {"SampleAccurateUp", "VectorAccurateUp"} THEN value = r.destination
    ELSE value # NaN /\ value <= r.destination

Reached(r, value) ==
    /\ value # NaN
    /\ IF r.method \in {"SampleAccurateUp", "VectorAccurateUp"} THEN value >= r.destination
       ELSE value <= r.destination

(* Slip: the value is clamped, and the ramp goes on.                       *)
AdvancedForEver(r, vs, numChannels) ==
    LET value == Plus(r.current, IF r.step = NaN THEN NaN ELSE r.step * vs * numChannels)
    IN  IF r.step # 0 /\ Reached(r, value) THEN [r EXCEPT !.current = r.destination]
        ELSE [r EXCEPT !.current = value]

(* One vector.  Either way each channel advances the one value by a whole  *)
(* vector; the vector methods do it in one go and write one sample.        *)
Advanced(r, vs, numChannels) ==
    LET value == Plus(r.current, IF r.step = NaN THEN NaN ELSE r.step * vs * numChannels)
    IN  IF r.step = 0 THEN r
        ELSE IF Reached(r, value) THEN [r EXCEPT !.step = 0, !.current = r.destination]
        ELSE [r EXCEPT !.current = value]

----------------------------------------------------------------------------
Init == ramp = setupProcess([current |-> 0, destination |-> 0, step |-> 0,
                             direction |-> "UP", mode |-> "vector",
                             method |-> "VectorAccurateUp"])

RampTimeInSamples(n) ==
    /\ OnGrid(n)
    /\ ramp' = IF n = 0 THEN Ended(ramp) ELSE Started(ramp, n)

(* The time in milliseconds: zero of them, or some that make n samples.    *)
setRampTime(n, isZero) ==
    /\ OnGrid(n) /\ (isZero => n = 0)
    /\ ramp' = IF isZero THEN Ended(ramp) ELSE Started(ramp, n)

setMode(m) == ramp' = setupProcess([ramp EXCEPT !.mode = m])
Stop == ramp' = [ramp EXCEPT !.step = 0]
setCurrentValue(v) == ramp' = [ramp EXCEPT !.current = v]
setDestinationValue(v) == ramp' = [ramp EXCEPT !.destination = v]

Process == \E vs \in VectorSizes, n \in Channels : ramp' = Advanced(ramp, vs, n)

Next ==
    \/ \E n \in Times : RampTimeInSamples(n) \/ \E isZero \in BOOLEAN : setRampTime(n, isZero)
    \/ \E m \in Modes : setMode(m)
    \/ Stop
    \/ \E v \in Values : setCurrentValue(v) \/ setDestinationValue(v)
    \/ Process

Spec == Init /\ [][Next]_vars

(* The audio thread keeps asking for vectors.                              *)
FairSpec == Spec /\ WF_vars(Process)

----------------------------------------------------------------------------
TypeOK ==
    ramp \in [ current : Nat \cup {NaN}, destination : Values \cup {0}, step : Int \cup {NaN}, direction : {"UP", "DOWN"},
               mode : Modes, method : Methods ]

(* A vector moves the value towards its destination and not past it,       *)
(* wherever either was put since the ramp was started; a NaN stays.        *)
NeverPast ==
    [][ Process =>
          IF NaN \in {ramp.current, ramp.step} THEN ramp'.current = NaN
          ELSE \/ ramp.current <= ramp'.current /\ ramp'.current <= ramp.destination
               \/ ramp.destination <= ramp'.current /\ ramp'.current <= ramp.current ]_vars

(* Left alone the ramp ends, except for a ramp of no samples between equal *)
(* values: its step, NaN, makes the value NaN for good.                    *)
LeftAloneArrives == <>[][Process]_vars => []<>(ramp.step = 0 \/ NaN \in {ramp.step, ramp.current})
=============================================================================
