SPECIFICATION Spec
CONSTANTS
  MaxFacts = 2
  MinWords = 4
  LastTime = 2
  Bodies = {b1, b2}
  NoBody = NoBody
  Writers = {w1, w2}
  MaxRows = 6
  MaxCalls = 3
SYMMETRY Symmetry
INVARIANTS
  BoundedCollidesOnlyInRace
PROPERTIES
  ImplementsTimeline
  CorrectionKeepsHistory
CHECK_DEADLOCK FALSE
