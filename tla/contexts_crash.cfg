SPECIFICATION Spec
CONSTANTS
  MaxId = 3
  NoCall = NoCall
INVARIANTS ContextsInv NoOrphans CreatedIsKnown
PROPERTY ContextsGetCreated
