CONSTANTS
  f1 = f1
  f2 = f2
  Fields <- MCFields
  App = App
  NoField = NoField
  Toolkits = {"gtk3", "gtk4", "qt"}
  Keys = {"a", "ga", "emoji", "Return"}
SPECIFICATION Spec
INVARIANTS KeysReachField ComposedIsShown ContextsAgree
SYMMETRY Symmetric
CONSTRAINT Located
