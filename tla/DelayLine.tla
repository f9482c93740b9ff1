------------------------------ MODULE DelayLine ------------------------------
(***************************************************************************)
(* What one channel of a TTDelay promises, whatever pointers it is made    *)
(* of: a line of samples that every sample fed to it moves on by one, and  *)
(* a tap on that line.  There is one flaw in the promise: one place of the *)
(* line, the seam, is memory that is not the line's own.  Somebody else    *)
(* may write to it, and what is there survives a Clear.                    *)
(***************************************************************************)
EXTENDS Integers

CONSTANTS Silence, Foreign

VARIABLES length,  \* samples the line has room for, 0 if it has no memory
          line,    \* line[k]: what is left of the sample fed k samples before the last
          seam,    \* the place of the line that is not its own
          delay,   \* how many samples the tap lags behind the input
          tap      \* what comes out with the next sample that is fed

lineVars == <<length, line, seam, delay, tap>>

Sample == "sample"

(* A line without memory still has the one place that is not its own.      *)
Places == 0..length

(* The tap: one set beyond the end of the line promises nothing.           *)
TapOK ==
    /\ delay \in Nat
    /\ length > 0 /\ delay = 0 => tap = Sample
    /\ delay \in 1..length => tap = line[delay - 1]

(* The line has just been made: silent, but for what was in the memory     *)
(* that is not its own.                                                    *)
Fresh ==
    /\ length \in Nat \ {0}
    /\ line = [k \in Places |-> IF k = 0 THEN Foreign ELSE Silence]
    /\ seam = 0

Init == Fresh /\ TapOK

(* A new length, and maybe with it a new delay.                            *)
Make == Fresh'

(* The memory is gone.                                                     *)
Lose == length' = 0

SetDelay == UNCHANGED <<length, seam, line>>

Feed ==
    /\ length > 0
    /\ UNCHANGED <<length, delay>>
    /\ seam' = IF seam = length THEN 0 ELSE seam + 1
    /\ line' = [k \in Places |-> IF k = 0 THEN Sample ELSE line[k - 1]]

Clear ==
    /\ line' = [k \in Places |-> IF k = seam THEN line[k] ELSE Silence]
    /\ UNCHANGED <<length, seam, delay>>

WriteSeam ==
    /\ line' = [line EXCEPT ![seam] = Foreign]
    /\ UNCHANGED <<length, seam, delay>>

Next == (Lose \/ SetDelay \/ Feed \/ Clear \/ WriteSeam \/ Make) /\ TapOK'

Spec == Init /\ [][Next]_lineVars
=============================================================================
