---------------------------- MODULE MCNimfEngines ---------------------------
(* Instances of NimfEngines for TLC: engines and contexts are model values *)
(* of the configurations.                                                  *)
EXTENDS NimfEngines
=============================================================================
