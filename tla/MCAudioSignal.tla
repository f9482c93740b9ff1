---------------------------- MODULE MCAudioSignal ----------------------------
(* TTAudioSignal on a small instance: up to three channels, two vector     *)
(* sizes, as many blocks as two generations of vectors need.               *)
EXTENDS AudioSignal, TLC

(* Blocks are interchangeable, and so are the host's vectors.              *)
Addresses == Permutations(Block) \cup Permutations(HostVector)
=============================================================================
