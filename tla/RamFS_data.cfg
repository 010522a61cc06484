\* Two files and two descriptors: writes, appends, truncations and seeks over
\* the boundary of a block, with fewer blocks than the files have room for.
CONSTANTS
  MaxFiles = 4
  MaxOpen = 2
  MaxBlocks = 3
  BlockSize = 2
  Direct = 2
  Word = 8
  Names <- AllNames
  Paths <- DataPaths
  Modes <- DataModes
  Writes <- Texts
  Offsets = {1}
  BufSize = 1
  MaxPos = 2
SPECIFICATION FileSpec
CONSTRAINT NotStale
INVARIANTS ContentsKept CopyKept
