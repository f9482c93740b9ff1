-------------------------------- MODULE Adsr --------------------------------
(***************************************************************************)
(* TTAdsr (extensions/GeneratorLib/source/TTAdsr.cpp): an envelope whose   *)
(* level is kept twice, as an amplitude and in decibels, and of which each *)
(* of the three process methods keeps only what it needs up to date.  The  *)
(* method can be changed at any sample.                                    *)
(*                                                                         *)
(* Decibels are counted in steps, amplitudes in units of the amplitude at  *)
(* NOISE_FLOOR: of the table from one to the other only that it rises is   *)
(* used.  An audio trigger is a write of Trigger before the sample.  A     *)
(* time is a number of samples: setAttack() and the others clip it to a    *)
(* millisecond at least.                                                   *)
(***************************************************************************)
EXTENDS Integers

CONSTANTS NOISE_FLOOR,
          Amplitude, \* of each number of decibels that is not below it
          Times,     \* attack_samples, decay_samples and release_samples
          Sustains,  \* sustain_amp
          Basement, Ceiling \* bounds: no attack is asked for from decibels outside these

Full == Amplitude[0]     \* the amplitude 1.0

(* The most decibels: an attack that starts from as many as are asked for  *)
(* goes no further than its longest step beyond them.                      *)
Loudest == Ceiling - NOISE_FLOOR

ConstantsOK ==
    /\ NOISE_FLOOR \in Int /\ NOISE_FLOOR < 0
    /\ Basement \in Int /\ Ceiling \in Nat
    /\ Amplitude \in [NOISE_FLOOR..Loudest -> Nat] /\ Amplitude[NOISE_FLOOR] = 1
    /\ \A db, higher \in NOISE_FLOOR..Loudest : db < higher => Amplitude[db] < Amplitude[higher]
    /\ Sustains \subseteq 0..Full /\ Sustains # {}
    /\ Times # {}
    /\ Times \subseteq { n \in Nat \ {0} : Full % n = 0 /\ NOISE_FLOOR % n = 0 }

VARIABLES eg,       \* the members of the TTAdsr
          tracking  \* history: the last step that moved one level moved the other with it

vars == <<eg, tracking>>

Modes == {"linear", "exponential", "hybrid"}

dbToLinear(db) == IF db < NOISE_FLOOR THEN 0 ELSE Amplitude[db]

linearToDb(amp) ==
    CHOOSE db \in NOISE_FLOOR..0 :
        dbToLinear(db) <= amp /\ (db = 0 \/ amp < dbToLinear(db + 1))

StepOf(samples) == Full \div samples
StepDbOf(samples) == (-NOISE_FLOOR) \div samples

(* The level goes to db, and the amplitude with it.                        *)
AtDb(e, db) == [e EXCEPT !.output_db = db, !.output = dbToLinear(db)]

(* What the trigger makes of the stage.                                    *)
Gated(e) ==
    CASE e.trigger /\ e.eg_state \in {"inactive", "release"} -> [e EXCEPT !.eg_state = "attack"]
      [] ~e.trigger /\ e.eg_state # "inactive" -> [e EXCEPT !.eg_state = "release"]
      [] OTHER -> e

(* Slip: the hybrid attack leaves the decibels to the decay.               *)
RaisedApart(e) ==
    LET output == e.output + StepOf(e.attack)
    IN  [e EXCEPT !.output = IF output >= Full THEN Full ELSE output]

(* A linear attack: the hybrid method keeps the decibels up with it.       *)
Raised(e) ==
    LET output == e.output + StepOf(e.attack)
        level  == IF output >= Full THEN Full ELSE output
    IN  IF e.mode = "linear" THEN [e EXCEPT !.output = level]
        ELSE [e EXCEPT !.output = level, !.output_db = linearToDb(level)]

(* An exponential attack caps the amplitude at its top, not the decibels.  *)
Attacked(e) ==
    LET output_db == e.output_db + StepDbOf(e.attack)
    IN  IF e.mode # "exponential"
        THEN IF Raised(e).output = Full THEN [Raised(e) EXCEPT !.eg_state = "decay"] ELSE Raised(e)
        ELSE IF output_db >= 0
             THEN [e EXCEPT !.output = Full, !.output_db = output_db, !.eg_state = "decay"]
             ELSE AtDb(e, output_db)

Lowered(e, samples) ==
    IF e.mode = "linear" THEN [e EXCEPT !.output = @ - StepOf(samples)]
    ELSE AtDb(e, e.output_db - StepDbOf(samples))

Decayed(e) ==
    LET lower == Lowered(e, e.decay)
    IN  IF lower.output <= e.sustain
        THEN [lower EXCEPT !.output = e.sustain, !.eg_state = "sustain"]
        ELSE lower

(* Slip: the last of a release is left at the floor of the decibels.       *)
ReleasedToFloor(e) ==
    LET lower == Lowered(e, e.release)
        ended == IF e.mode = "linear" THEN lower.output <= 0 ELSE lower.output_db <= NOISE_FLOOR
    IN  IF ended THEN [lower EXCEPT !.output = IF e.mode = "linear" THEN 0 ELSE @,
                                        !.eg_state = "inactive"]
        ELSE lower

Released(e) ==
    LET lower == Lowered(e, e.release)
        ended == IF e.mode = "linear" THEN lower.output <= 0 ELSE lower.output_db <= NOISE_FLOOR
    IN  IF ended THEN [lower EXCEPT !.output = 0, !.eg_state = "inactive"] ELSE lower

----------------------------------------------------------------------------
(* As the constructor leaves it: the hybrid method, and some times.        *)
Init ==
    /\ LET n == CHOOSE n \in Times : TRUE
       IN  eg = [output |-> 0, output_db |-> NOISE_FLOOR, eg_state |-> "inactive",
                 trigger |-> FALSE, mode |-> "hybrid",
                 attack |-> n, decay |-> n, release |-> n, sustain |-> CHOOSE s \in Sustains : TRUE]
    /\ tracking = TRUE

(* The attributes.  A new sample rate, through updateSr(), changes times.  *)
setTrigger(t) == (t => eg.output_db \in Basement..Ceiling) /\ eg' = [eg EXCEPT !.trigger = t]
setAttack(n)  == eg' = [eg EXCEPT !.attack = n]
setDecay(n)   == eg' = [eg EXCEPT !.decay = n]
setRelease(n) == eg' = [eg EXCEPT !.release = n]
setSustain(s) == eg' = [eg EXCEPT !.sustain = s]
setMode(m)    == eg' = [eg EXCEPT !.mode = m]

SetAttribute ==
    /\ \/ \E t \in BOOLEAN : setTrigger(t)
       \/ \E n \in Times : setAttack(n) \/ setDecay(n) \/ setRelease(n)
       \/ \E s \in Sustains : setSustain(s)
       \/ \E m \in Modes : setMode(m)
    /\ UNCHANGED tracking

(* One sample of any of the process methods.                               *)
Sample ==
    LET e == Gated(eg)
    IN  /\ eg' = CASE e.eg_state = "attack"  -> Attacked(e)
                   [] e.eg_state = "decay"   -> Decayed(e)
                   [] e.eg_state = "release" -> Released(e)
                   [] OTHER                  -> e
        /\ tracking' = CASE e.eg_state \notin {"attack", "decay", "release"} -> tracking
                         [] e.eg_state = "attack" /\ e.mode = "exponential" -> eg'.output_db <= 0
                         [] OTHER -> e.mode # "linear"

Next == SetAttribute \/ Sample

Spec == Init /\ [][Next]_vars

(* The audio thread keeps asking for samples.                              *)
FairSpec == Spec /\ WF_vars(Sample)

----------------------------------------------------------------------------
TypeOK ==
    /\ eg \in [ output : Nat, output_db : Int, trigger : BOOLEAN, mode : Modes,
                eg_state : {"inactive", "attack", "decay", "sustain", "release"},
                attack : Times, decay : Times, release : Times, sustain : Sustains ]
    /\ tracking \in BOOLEAN

(* As long as its two levels move together, an attack never makes the      *)
(* envelope drop, nor a release jump up, whatever was changed before, the  *)
(* method included.  They part when the linear method leaves output_db     *)
(* where it was, and when an exponential attack, started anew from a       *)
(* release, ends above 0 dB; the other methods then start from there.      *)
NeverTheWrongWay ==
    [][ Sample /\ tracking =>
            /\ eg'.eg_state = "attack" => eg'.output >= eg.output
            /\ eg'.eg_state = "release" => eg'.output <= eg.output ]_vars

(* While the trigger is held the envelope comes to its sustain, and once   *)
(* it is let go to silence, through any changes of times, levels and       *)
(* methods on the way.                                                     *)
FollowsItsGate ==
    /\ eg.trigger ~> (eg.eg_state = "sustain" \/ ~eg.trigger)
    /\ ~eg.trigger ~> ((eg.eg_state = "inactive" /\ eg.output = 0) \/ eg.trigger)
=============================================================================
