SPECIFICATION Spec
CONSTANTS
  Sizes = {0, 1, 2, 3, 4}
  Counts = {0, 1, 2}
INVARIANTS
  ReadsWhatWasWritten
  FrameFits
CHECK_DEADLOCK FALSE
