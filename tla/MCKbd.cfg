CONSTANTS
  KBD_BUF_SIZE = 3
  CharKeys = {"A"}
  SpecialKeys = {"UP"}
  DeadKeys = {"F1"}
  ShiftKeys <- MCBothShifts
  MaxPending = 1
SPECIFICATION Spec
INVARIANTS ByteHasInterrupt ShiftTracked
PROPERTIES ImplementsKeyQueue ByteIsRead
CHECK_DEADLOCK FALSE
