---------------------------- MODULE MCNimfHangul ----------------------------
(* Instances of NimfHangul for TLC: contexts and keys are model values of  *)
(* the configurations.                                                     *)
EXTENDS NimfHangul
=============================================================================
