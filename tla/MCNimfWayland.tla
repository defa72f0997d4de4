--------------------------- MODULE MCNimfWayland ----------------------------
(* The Wayland service; wayland.cfg has the bounds. *)
EXTENDS NimfWayland
=============================================================================
