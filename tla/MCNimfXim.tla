----------------------------- MODULE MCNimfXim ------------------------------
(* Two clients, one of which may use the extension for keys. *)
EXTENDS NimfXim
CONSTANTS c1, c2
MCClients == {c1, c2}
MCExtended == {c2}
MCSwitching == {c2}
MCMortal == {c2}
MCKeys == (c1 :> 3) @@ (c2 :> 1)
=============================================================================
