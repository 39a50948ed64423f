SPECIFICATION Spec
CONSTANTS
  Chars = {"a"}
  NL = "n"
  Capacity = 4
  screenrows = 2
  screencols = 2
  MaxRows = 3
  MaxCols = 2
  NoFile = NoFile
  FirstFiles <- MCFirstFiles
CHECK_DEADLOCK FALSE
INVARIANT CleanMeansSaved
