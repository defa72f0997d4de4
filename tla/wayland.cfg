CONSTANTS
  MaxContexts = 2
  MaxKeys = 2
  MaxShifts = 1
  MaxSerial = 1
SPECIFICATION Spec
INVARIANTS FieldsApart ContextFollows
PROPERTIES EventsHandled RequestsFlushed
CHECK_DEADLOCK FALSE
