SPECIFICATION Spec
CONSTANTS
  KEYS = 2
  MaxTicks = 3
  MaxVisits = 2
INVARIANTS SegmentsInPlace StackCost
PROPERTIES UptimeStandsStill KeyEndsWait
CHECK_DEADLOCK FALSE
