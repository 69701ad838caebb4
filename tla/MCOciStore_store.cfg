SPECIFICATION Spec
CONSTANTS
  c1 = c1
  c2 = c2
  i1 = i1
  i2 = i2
  f1 = f1
  x = x
  y = y
  Procs = {c1, c2}
  Refs = {x, y}
  Images = {i1, i2, f1, Empty}
  Sources = {i2}
  Empty = Empty
  Foreign = {f1}
  Registries <- OneOfEach
  NoImage = NoImage
  NoRef = NoRef
  MaxCommands = 3
SYMMETRY Alike
INVARIANTS
  TypeOK
  HalvesExplained
  LocalDamageRepaired
  BuildSavesItsOutput
PROPERTIES
  
  TornStays
CHECK_DEADLOCK FALSE
