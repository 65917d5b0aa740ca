SPECIFICATION Spec
CONSTANTS
    Episodes = {"mirror", "summary", "mirror2"}
    Marks = {"m1"}
    Corrections = {"y"}
    FamilyOf <- MCFamilyOf
    BodyOf <- MCBodyOf
    MaxUnits = 3
    MaxHalvings = 1
CONSTRAINT TwoOverlap
CHECK_DEADLOCK FALSE
INVARIANTS PromotionIsEarned
  
