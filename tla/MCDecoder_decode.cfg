SPECIFICATION Spec
CONSTANTS
  Base = 2
  Layouts <- AllLayouts
INVARIANTS
  TypeOK
  DenseIsDecoded
  OffsetIsLayout
  PanicsUnterminatedOnly
CHECK_DEADLOCK FALSE
