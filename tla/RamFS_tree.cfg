\* Nested, nameless and open directories, and inodes handed out again; then
\* directories made and removed around the working directory, and walked.
\* With every inode lost each call fails, and a call that fails is a stutter.
CONSTANTS
  MaxFiles = 5
  MaxOpen = 2
  MaxBlocks = 3
  BlockSize = 1
  Direct = 1
  Word = 4
  Names <- TreeNames
  Paths <- TreePaths
  Modes <- TreeModes
  Writes <- OneByte
  Offsets = {}
  MaxPos = 0
  Spelling <- Letters
  MaxPath = 6
  Relative <- RelativePaths
CHECK_DEADLOCK FALSE
SPECIFICATION CwdSpec
INVARIANTS TreeSound BlocksExclusive CwdFound TreeListed
