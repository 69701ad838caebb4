SPECIFICATION FairSpec
CONSTANTS
  ring = ring
  ring2 = ring2
  hash = hash
  NoMap = NoMap
  Maps = {ring, ring2, hash}
  RingBufs = {ring, ring2}
  NilInstrument = {}
  Outcomes <- AllDecode
  Filtered = {}
  Tty = TRUE
  RootHasFocus = FALSE
  EntriesCap = 1
  MaxEntries = 0
  MaxKeys = 1
PROPERTIES
  EveryTableShown
CHECK_DEADLOCK FALSE
