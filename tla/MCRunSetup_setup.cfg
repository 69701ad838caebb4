SPECIFICATION FairSpec
CONSTANTS
  r1 = r1
  r2 = r2
  Runs = {r1, r2}
  NoRun = NoRun
  Scenarios <- AllScenarios
  Matches <- RegexMatches
  Values = {"a", "b"}
INVARIANTS
  TypeOK
  NoneAbandoned
  FilterMeansFlags
  WatchesEverything
  NothingAttachedAfterClose
  PinsAreOwn
PROPERTIES
  SignalEndsLoad
