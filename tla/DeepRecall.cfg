SPECIFICATION FairSpec
CONSTANTS
  s1 = s1
  s2 = s2
  Sources = {s1, s2}
  Unknown = Unknown
  Routes = {"azure", "Azure", "other"}
  Allowed = {"azure", "Azure"}
  GenIds = {"g1", "g2"}
  NoId = NoId
  NoRoute = NoRoute
  Turns <- MCTurns
  MaxEvidence = 2
  MaxSpend = 9
  MaxContext = 11
  MaxTools = 3
  Wall = 3
  Reserve = 2
  MaxRetries = 2
  MalformedLimit = 1
  PromptSize = 2
  Completion = 1
  InPrice = 1
  OutPrice = 3
  PriceUnit = 2
  BillSizes = {1}
  Kinds <- MCKinds
  NoKey = NoKey
  MaxCands = 4
  MaxDeepCands = 3
  Window = 2
  MaxChunks = 2
  TargetMin = 2
  TargetMax = 3
  HardMax = 5
  MaxSubchunks = 3
  Arm <- Voyage
  Width = 2
  Bodies <- MCBodies
  MaxAttempts = 2
  Packing = TRUE
  Budget = 6
  Merge = TRUE
  RenderCap = 0
  RerankLimit = 2
  K = 2
  PoolDepth = 3
  Quota = 1
INVARIANTS NothingUnaccounted PackAccounts AnswersOnlyFromEvidence
PROPERTIES RecallEnds
CHECK_DEADLOCK FALSE
