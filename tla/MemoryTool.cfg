SPECIFICATION Spec
CONSTANTS
  Keys <- MCKeys
  Bodies <- MCBodies
  NoKey = NoKey
  MaxUnits = 4
  MaxForeign = 1
  Requests = {1, 2, 3}
  SeedUnits <- MCSeeds
  Blank = Blank
  Hidden = {"node_modules"}
  MaxBody = 2
  MaxView = 3
  MaxIndex = 8
  MaxListing = 4
  PathOrder <- MCOrder
  Commands <- MCCommands
  PageLimit = 1
  MaxOpen = 2
  Open = Open
  NoCommand = NoCommand

  
PROPERTIES
  ImplementsFiles
  
CHECK_DEADLOCK FALSE
