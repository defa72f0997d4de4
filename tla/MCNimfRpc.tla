----------------------------- MODULE MCNimfRpc -----------------------------
(* Instances of NimfRpc for TLC: applications, contexts and call types are *)
(* model values of the configurations.                                     *)
EXTENDS NimfRpc
=============================================================================
