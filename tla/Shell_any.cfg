CONSTANTS
  EditMaxSize = 8
  EditMaxLines = 4
  Letters = {"a", "b"}
  Files <- MCFiles
  Olds <- MCOlds
  Texts <- MCTexts
  MaxEdits = 3
  MaxBlocks = 3
  Items = {0, 2}
  MaxEnv = 3
  EnvNameLen = 3
  EnvValLen = 3
  NameChars = {"A", "B"}
  Names <- MCNames
  Typed <- MCTyped
  Behind <- MCBehind
  MaxAtJobs = 2
  TickHz = 2
  TickWord = 8
  Delays = {0, 1, 3}
  MaxJobs = 3
  MaxTicks = 5
  Rows = 2
  Columns = 3
  MaxSpawns = 7
  SnakeW = 4
  SnakeH = 2
  StartLen = 2
  MaxLen = 4
  MaxScore = 30
  Alphabet = {"a", "b", "c", "d"}
  Words <- MCWords
  MaxWrong = 2
  GuiMaxWindows = 2
  Blocks = {b1, b2, b3}
  MaxWidgetId = 3
  MaxUses = 2
  Height = 2
  Width = 3
  TabStop = 2
  LineTab = 2
  LineMax = 5
  MaxSerial = 3
  MaxCaptures = 2
  LineRoom = 3
  RingLines = 2
  KeptLines = 3
  ColumnStop = 2
  Printed = {" ", "/", "a"}
  ShortRun = 2
  Ascii <- MCAscii
  IntWord = 32768
  LongBits = 4
  FpOne = 16
  PowTurns = 11
  MaxFact = 6
  FpNamed <- MCFpNamed
  MaxSegments = 3
  MaxArgs = 3
  Pieces <- MCPieces
  MostPieces <- MCMostPieces
  MaxDepth = 3
  LineParts <- MCLineParts
  ScriptLines <- MCScriptLines
  TypedLines <- MCTypedLines
SPECIFICATION ShellSpec
INVARIANTS EditsKept ScriptRuns GamesFair PrintedShown EnvKept JobsOnTime
  WidgetsOwned CommandsExact LibraryExact QuotesRespected
PROPERTIES ScriptsEnd
SYMMETRY Symmetry
