SPECIFICATION FairSpec
CONSTANTS
  NKeys = 3
  Bucket <- TwoBuckets
  ProgramOps = {"increment", "decrement", "delete"}
  Half = 2
  Instruments = {"counter", "gauge", "noop"}
  Matching = {1, 3}
  MapSize = 2
  EntriesCap = 2
  MaxWrites = 4
INVARIANTS
  TypeOK
  CounterAddsUp
  PollIsComplete
PROPERTIES
  DisplayNeverGoesBack
  DisplayCatchesUp
  MetricCatchesUp
CHECK_DEADLOCK FALSE
