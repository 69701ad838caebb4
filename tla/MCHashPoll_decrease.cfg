SPECIFICATION Spec
CONSTANTS
  NKeys = 1
  Bucket <- OneBucket
  ProgramOps = {"increment", "delete"}
  Half = 8
  Instruments = {"counter"}
  Matching = {1}
  MapSize = 1
  EntriesCap = 1
  MaxWrites = 4
INVARIANTS
  CounterWorks
CHECK_DEADLOCK FALSE
