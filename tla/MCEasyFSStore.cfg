CONSTANTS
  TOTAL_BLOCKS = 6
  FIRST_DATA_BLOCK = 3
  BLOCK_SIZE = 2
  MAX_DIR_ENTRIES = 2
  Names = {"a", "b", "c"}
  Stored <- MCShort
  Vals = {"v", "w"}
  Sizes = {0, 1}
SPECIFICATION ClientsSpec
PROPERTY ImplementsFileStore

