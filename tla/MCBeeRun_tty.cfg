SPECIFICATION FairSpec
CONSTANTS
  ring = ring
  ring2 = ring2
  hash = hash
  NoMap = NoMap
  Maps = {ring, hash}
  RingBufs = {ring}
  NilInstrument = {}
  Outcomes <- MayFail
  Filtered = {hash}
  Tty = TRUE
  RootHasFocus = FALSE
  EntriesCap = 1
  MaxEntries = 2
  MaxKeys = 2
INVARIANTS
  TypeOK
  NoSendAfterClose
  NothingLeftBehind
  EntriesHaveTables
  IndexesArePositions
  FocusTracksIndex
  NothingLostAtReturn
PROPERTIES
  StreamSpec
  CancelEndsLoad
  CtrlCQuitsOnceUp
  EveryEntryShown
CHECK_DEADLOCK FALSE
