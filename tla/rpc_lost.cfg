SPECIFICATION LossySpec
CONSTANTS
  Conns = {a, b}
  ICs = {i, j}
  Methods = {filter}
  Signals = {commit}
  Emitting = {filter}
  SignalBudget = 1
  CallbackBudget = 0
  MaxDepth = 4
  NoMsg = NoMsg
PROPERTY CallReturns
