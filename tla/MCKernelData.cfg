SPECIFICATION Spec
CONSTANTS
  KEYS = 2
  MaxTicks = 3
  MaxVisits = 2
INVARIANT ProgramHasData
CHECK_DEADLOCK FALSE
