---------------------------- MODULE MCNimfDaemon ----------------------------
(* Instances of NimfDaemon for TLC.                                        *)
EXTENDS NimfDaemon, TLC

(* Lock files and processes are interchangeable; so are applications.      *)
Symmetry == Permutations(Daemons) \cup Permutations(Inodes) \cup Permutations(Clients)
=============================================================================
