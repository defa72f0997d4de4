---------------------------- MODULE MCNimfAnthy -----------------------------
(* The Japanese engine; anthy.cfg has the bounds. *)
EXTENDS NimfAnthy
(* A bound: a text in which a small tsu stands for a digit is edited and    *)
(* committed, in romaji as the settings were; the conversion is followed up *)
(* of other texts.                                                          *)
LostDigit == "tsu" \in ToSet(app.committed \o Spelled(app.text))
LostDigitIsEdited == LostDigit => ~window.visible /\ changes = 0
=============================================================================
