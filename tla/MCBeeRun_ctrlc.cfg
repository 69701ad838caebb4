SPECIFICATION FairSpec
CONSTANTS
  ring = ring
  ring2 = ring2
  hash = hash
  NoMap = NoMap
  Maps = {hash}
  RingBufs = {}
  NilInstrument = {}
  Outcomes <- AllDecode
  Filtered = {}
  Tty = TRUE
  RootHasFocus = FALSE
  EntriesCap = 1
  MaxEntries = 1
  MaxKeys = 0
PROPERTIES
  CtrlCQuits
CHECK_DEADLOCK FALSE
