SPECIFICATION NestedSpec
CONSTANTS
  Conns = {a, b}
  ICs = {i}
  Methods = {filter, reset}
  Signals = {commit}
  Emitting = {filter}
  SignalBudget = 1
  CallbackBudget = 1
  MaxDepth = 4
  NoMsg = NoMsg
INVARIANTS NestingInv OwnReply RepliesReachWaiter
PROPERTIES ImplementsNestedCalls CallReturns DaemonUnwinds
