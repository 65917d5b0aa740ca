SPECIFICATION Spec
CONSTANTS
  e1 = e1
  e2 = e2
  r1 = r1
  Episodes = {e1, e2}
  Matching = {e1}
  NoEpisode = NoEpisode
  Readers = {r1}
  MaxItems = 1
  LastTime = 2
  MaxRows = 3
  Undated = Undated
  Unreadable = 0
  HalfLife = 30
  UndatedScore <- UndatedAs
  Precision = 1
  MaxInt = 1000000
  None = None
  MinAnchor = 3
CONSTRAINT OthersStay
INVARIANTS
  SurvivesOnlyByRace
PROPERTIES
  
  AnswerIsCurrent
CHECK_DEADLOCK FALSE
