CONSTANTS
  TOTAL_BLOCKS = 6
  FIRST_DATA_BLOCK = 3
  BLOCK_SIZE = 2
  MAX_DIR_ENTRIES = 2
  Names = {"a", "long", "longer"}
  Stored <- MCStored
  Vals = {"v"}
  Sizes = {0, 1}
SPECIFICATION ClientsSpec
INVARIANT NamesUnique
