SPECIFICATION Spec
CONSTANTS
  Chars = {"a"}
  NL = "n"
  Capacity = 5
  screenrows = 2
  screencols = 3
  MaxRows = 2
  MaxCols = 4
  NoFile = NoFile
  FirstFiles <- MCFirstFiles
CHECK_DEADLOCK FALSE
INVARIANTS TypeOK CursorInText ScreenShowsText CleanKeepsRows SaveReadsBack
PROPERTY LeavesTextByPasteOnly
