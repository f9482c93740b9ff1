--------------------------- MODULE MCAudioObject ---------------------------
(* An audio object used by two threads, each with signals of its own; the  *)
(* control thread processes in place.                                      *)
EXTENDS AudioObject

CONSTANTS audio, control, a1, a2, a3, a4, b1, b2, x, y

MCThreads == {audio, control}
MCSignals == {a1, a2, a3, a4, b1, b2, x, y}
MCInputs  == [t \in MCThreads |-> IF t = audio THEN <<a1, a2>> ELSE <<b1, b2>>]
MCOutputs == [t \in MCThreads |-> IF t = audio THEN <<a3, a4>> ELSE <<b1, b2>>]
MCScratch == <<x, y>>
=============================================================================
