--------------------------- MODULE MCGainExternal ---------------------------
(* Two channels, and a host that may double its vector size.               *)
EXTENDS GainExternal
=============================================================================
