------------------------------ MODULE MCUnits ------------------------------
(* Small values for the constants of the units.                            *)
EXTENDS Units

(* Four steps of 6 dB, within which an envelope rises in two or in four    *)
(* samples, and those it can overshoot by; the sustains are one above and  *)
(* one at full level.                                                      *)
Floor == -4
Lowest == -6
Doubling == [db \in Floor..(-Floor) |-> 2 ^ (db - Floor)]
TwoOrFour == {2, 4}
Levels == {4, 16}

(* Distances that one, two and three samples divide, and that vectors of   *)
(* two samples on two channels overshoot.                                  *)
Distances == {0, 2, 6}
UpToThree == 0..3
OneOrTwo == {1, 2}

(* A file shorter than two vectors, and one that two vectors fill.         *)
ShortAndWide == {[channels |-> 1, frames |-> 3], [channels |-> 2, frames |-> 2]}
=============================================================================
