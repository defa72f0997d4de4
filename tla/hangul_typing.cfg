SPECIFICATION Spec
CONSTANTS
  ICs = {ic1, ic2}
  Inline = {ic1}
  Letters = {g, a}
  Doubles = {g}
  Symbols = {dash}
  Others = {x}
  Hanja = hanja
  Callbacks = {"commit", "preedit-changed", "preedit-end", "delete-surrounding"}
  MaxLetters = 2
  MaxText = 3
  NoIC = NoIC
INVARIANTS NothingLost ShownInv StartsAndEnds
PROPERTY HandlersEnd
