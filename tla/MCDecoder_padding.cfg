SPECIFICATION Spec
CONSTANTS
  Base = 2
  Layouts <- PaddedLayout
INVARIANTS
  BtfIsDecoded
CHECK_DEADLOCK FALSE
