--------------------------- MODULE DelayImplements ---------------------------
(***************************************************************************)
(* Every channel of Delay is a DelayLine: the circular buffer, with its    *)
(* two pointers, is the line, and setters and samples come to it in any    *)
(* order.                                                                  *)
(***************************************************************************)
EXTENDS Delay

ASSUME FirstChannelAssumption == 0 \notin ChannelCounts

(* The index that was written k samples before the last.                   *)
WrittenBefore(b, k) ==
    IF k < b.write THEN b.write - 1 - k ELSE b.write - 1 - k + (b.size + 1)

(* What is left there of that sample: itself, silence, or another's data.  *)
(* A sample of any other age is out of place: it has no counterpart in a   *)
(* DelayLine.                                                              *)
LeftOf(content, k) ==
    IF content \notin Nat THEN content ELSE IF content = k THEN "sample" ELSE "misplaced"

LineOf(b) == [k \in Indices(b) |-> LeftOf(b.cells[WrittenBefore(b, k)], k)]

(* The seam is the memory past the last sample of the buffer: going back   *)
(* from the write pointer it comes right after the head.                   *)
SeamOf(b) == b.write

TapOf(b, d) == LeftOf(Heard(b), d)

First == mBuffers[0]

Line ==
    INSTANCE DelayLine WITH length <- IF First.live THEN First.size ELSE 0,
                            line   <- LineOf(First),
                            seam   <- SeamOf(First),
                            delay  <- delay.samples,
                            tap    <- TapOf(First, delay.samples)

(* The first channel of a delay, the one it always has, implements a       *)
(* DelayLine through every change of its parameters and of its channels.   *)
ImplementsDelayLine == Line!Spec
=============================================================================
