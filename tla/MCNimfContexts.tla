--------------------------- MODULE MCNimfContexts ---------------------------
(* Instances of NimfContexts for TLC: MaxId replaces 65535.                *)
EXTENDS NimfContexts
=============================================================================
