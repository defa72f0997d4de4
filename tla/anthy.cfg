CONSTANTS
  Many = 11
  Few = 1
  MaxTyped = 3
  MaxChanges = 1
SPECIFICATION Spec
INVARIANTS TextIsKept WindowAgrees
PROPERTY ScrollEnds
CHECK_DEADLOCK FALSE
CONSTRAINT LostDigitIsEdited
