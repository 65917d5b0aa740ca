SPECIFICATION Spec
CONSTANTS
  k1 = k1
  k2 = k2
  b1 = b1
  b2 = b2
  Keys = {k1, k2}
  Bodies = {b1, b2}
  NoKey = NoKey
  MaxUnits = 4
  MaxForeign = 1
  Requests = {1, 2}
  SeedUnits <- Seeds
  MaxEdits = 1
  MaxRemovals = 1
INVARIANTS
  EditsSurvive
  ForgetsAreIntended
  
PROPERTIES
  NoSilentDisplacement
CHECK_DEADLOCK FALSE
