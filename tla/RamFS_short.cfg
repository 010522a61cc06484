\* The first write of all.
CONSTANTS
  MaxFiles = 4
  MaxOpen = 1
  MaxBlocks = 3
  BlockSize = 1
  Direct = 1
  Word = 8
  Names <- AllNames
  Paths <- TreePaths
  Modes <- TreeModes
  Writes <- OneByte
  Offsets = {}
  BufSize = 2
  MaxPos = 0
SPECIFICATION FileSpec
PROPERTIES WritesWhatFits
