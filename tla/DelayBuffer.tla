----------------------------- MODULE DelayBuffer -----------------------------
(***************************************************************************)
(* TTDelayBuffer (library/includes/TTDelayBuffer.h), the circular buffer   *)
(* of one channel of a delay, and the three loops of TTDelay               *)
(* (extensions/EffectsLib/TTDelay.cpp) that run a sample through it.       *)
(*                                                                         *)
(* Pointers are indices from &mBuffer[0]: head() is 0, and tail(), which   *)
(* is mEndPointer, is the size of the buffer, one past its last sample.    *)
(* The memory at that index belongs to nobody, or to somebody else.        *)
(*                                                                         *)
(* A sample is told by its age: how many samples came after it.            *)
(***************************************************************************)
EXTENDS Integers, Sequences

CONSTANTS Silence,     \* a sample that clear() has zeroed
          Foreign      \* what memory holds that is not the buffer's

ASSUME ContentAssumption == Silence # Foreign /\ Silence \notin Nat /\ Foreign \notin Nat

Content == Nat \cup {Silence, Foreign}

(* A new TTDelayBuffer: no memory, the pointers NULL.  A buffer is live if *)
(* its pointers point into its memory.                                     *)
NewBuffer ==
    [live |-> FALSE, size |-> 0, write |-> 0, read |-> 0, cells |-> [i \in {0} |-> Foreign]]

(* The indices its pointers go through.                                    *)
Indices(b) == 0..b.size

(* resize() and then clear(): zeroes, and both pointers at the head.       *)
Resized(b, n) ==
    [live |-> TRUE, size |-> n, write |-> 0, read |-> 0,
     cells |-> [i \in 0..n |-> IF i < n THEN Silence ELSE Foreign]]

(* Slip: the loop that zeroes the samples ends one short.                  *)
ClearedShort(b) ==
    [b EXCEPT !.cells = [i \in Indices(b) |-> IF i < b.size - 1 THEN Silence ELSE b.cells[i]]]

(* clear(): the samples of mBuffer, which tail() is not one of.            *)
Cleared(b) ==
    [b EXCEPT !.cells = [i \in Indices(b) |-> IF i < b.size THEN Silence ELSE b.cells[i]]]

(* Slip: the read pointer wraps as if tail() were the last sample.         *)
PositionedShort(b, d) ==
    LET r == b.write - d
    IN  [b EXCEPT !.read = IF ~b.live THEN @ ELSE IF r < 0 THEN b.size + r ELSE r]

(* setDelay(): puts the read pointer d samples behind the write pointer.   *)
(* A buffer with no memory keeps its pointers to nowhere.                  *)
Positioned(b, d) ==
    LET r == b.write - d
    IN  [b EXCEPT !.read = IF ~b.live THEN @
                           ELSE IF r < 0 THEN b.size + r + 1
                           ELSE IF r > b.size THEN r - b.size
                           ELSE r]

(* Slip: a pointer is only wrapped when it is before the head.             *)
WrapBelow(b, p) == IF p < 0 THEN b.size + p + 1 ELSE p

(* wrapPointer()                                                           *)
Wrap(b, p) == IF p > b.size THEN p - b.size
              ELSE IF p < 0 THEN b.size + p + 1
              ELSE p

(* Slip: the pointer wraps before it has been to tail().                   *)
AdvancedShort(b, p) == IF p + 1 >= b.size THEN 0 ELSE p + 1

(* Slip: the pointer goes one further than tail().                         *)
AdvancedLate(b, p) == IF p > b.size THEN 0 ELSE p + 1

(* What the loops do to a pointer they have used.                          *)
Advanced(b, p) == IF p + 1 > b.size THEN 0 ELSE p + 1

(* Where the delay is longer than the buffer, the read pointer starts      *)
(* before its head.                                                        *)
At(b, p) == IF p \in Indices(b) THEN b.cells[p] ELSE Foreign

Older(content) == IF content \in Nat THEN content + 1 ELSE content

(* The input goes to the write pointer.                                    *)
Written(b) ==
    [b EXCEPT !.cells = [i \in Indices(b) |-> IF i = b.write THEN 0 ELSE Older(b.cells[i])]]

(* After a sample: both pointers have moved on, whichever the loop.        *)
Fed(b) ==
    [Written(b) EXCEPT !.write = Advanced(b, b.write), !.read = Advanced(b, b.read)]

(* calculateNoInterpolation(): the one sample that is the output.          *)
Heard(b) == At(Written(b), b.read)

(* The indices a loop reads: calculateLinearInterpolation() and            *)
(* calculateCubicInterpolation() have moved the pointers by then.          *)
Taps(b, loop) ==
    LET r == Advanced(b, b.read)
    IN  CASE loop = "none"   -> <<b.read>>
          [] loop = "linear" -> <<Wrap(b, r + 1), r>>
          [] loop = "cubic"  -> <<Wrap(b, r + 1), Wrap(b, r), Wrap(b, r - 1), Wrap(b, r - 2)>>
=============================================================================
