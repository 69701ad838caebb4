SPECIFICATION FairSpec
CONSTANTS
  ring = ring
  ring2 = ring2
  hash = hash
  NoMap = NoMap
  Maps = {ring, ring2, hash}
  RingBufs = {ring, ring2}
  NilInstrument = {ring2}
  Outcomes <- MayFail
  Filtered = {}
  Tty = FALSE
  RootHasFocus = FALSE
  EntriesCap = 1
  MaxEntries = 1
  MaxKeys = 0
PROPERTIES
  SignalEndsNoTty
