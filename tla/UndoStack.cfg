SPECIFICATION Spec
CONSTANTS
  NoFunction = NoFunction
  Categories = {"app"}
  Levels = {"info", "debug"}
  DefaultLevels = {"info", "debug"}
  Accounts = {"giro"}
  Below <- OneCategory
  CategoryNames <- SmallNames
  MaxEntries = 4
INVARIANT LevelsFollowStack
PROPERTY ReloadReproduces
