------------------------------ MODULE MCDelay ------------------------------
(* Delays of up to three samples, in one or two channels, at two rates of  *)
(* which neither divides the other.                                        *)
EXTENDS DelayImplements
=============================================================================
