---------------------------- MODULE MCCrossFade ----------------------------
(* One microphone with the direct sound and one reflection: a tap that is  *)
(* compared with itself, and one that is compared with the other.          *)
EXTENDS CrossFade
=============================================================================
