\* Two lines, of which one is replaced.
CONSTANTS
  EditMaxSize = 8
  EditMaxLines = 4
  Letters = {"a", "b"}
  Files <- MCFiles
  Olds <- MCOlds
  Texts <- MCTexts
  MaxEdits = 1
SPECIFICATION EditorSpec
INVARIANTS LinesAsTyped
