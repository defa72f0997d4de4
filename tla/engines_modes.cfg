SPECIFICATION SettledSpec
CONSTANTS
  Engines = {sys, hangul, anthy, rime}
  SystemKeyboard = sys
  ICs = {ic1, ic2}
  Broken = {rime}
  Server = Server
  Null = Null
  Dangling = Dangling
INVARIANTS EngineIsAlive ListsInv HotkeyGoesRound
PROPERTY DefaultIsKept
