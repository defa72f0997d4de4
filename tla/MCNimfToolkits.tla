--------------------------- MODULE MCNimfToolkits ---------------------------
(* Two fields in an application of each toolkit. *)
EXTENDS NimfToolkits, TLC
CONSTANTS f1, f2
MCFields == {f1, f2}
Symmetric == Permutations(MCFields)
(* Only properties of Qt are about positions: a field of GTK has told its   *)
(* own before it is typed into.                                             *)
Located == Gtk => \A f \in Fields : fields[f].typed # <<>> => ims[f].area = f
=============================================================================
