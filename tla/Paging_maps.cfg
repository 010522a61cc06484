CONSTANTS
  MaxFrames = 12
  WordBits = 2
  BoolBits = 1
  Reserved = 3
  Sizes = {11, 12, 14}
  Maps <- MCMaps
  PerTable = 4
  IdTables = 2
  VPages = {1, 4, 8, 9, 12}
  PFrames = {7}
  None = None
SPECIFICATION Spec
INVARIANTS FramesSound TablesOwn TranslationKept OnlyUnseenLost
CONSTRAINT Orderly
