CONSTANTS
  TOTAL_BLOCKS = 6
  FIRST_DATA_BLOCK = 3
  BLOCK_SIZE = 2
  MAX_DIR_ENTRIES = 2
  Names = {"a", "long", "longer"}
  Stored <- MCStored
  Vals = {"v", "w"}
  Sizes = {0, 1, 2, 5}
SPECIFICATION ClientsSpec
INVARIANTS TypeOK NoSharedBlock BitmapMatchesDirectory DuplicatesOnlyFromCutNames CleanOrUnmarked
PROPERTY LostOnlyWithoutRoom
