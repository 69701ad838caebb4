SPECIFICATION Spec
CONSTANTS
  t1 = t1
  t2 = t2
  t3 = t3
  o1 = o1
  o2 = o2
  o3 = o3
  NoThread = NoThread
  NoObject = NoObject
  Programs = {"tcpconnect"}
  Threads = {t1, t2}
  Process <- OneProcess
  Objects = {o1, o2}
  Addresses = {"a", "b"}
  Word = 8
  MaxEntries = 2
  MaxCounts = 2
  RingSize = 1
  MaxCalls = 3
INVARIANTS
  CountsAreTotals
CHECK_DEADLOCK FALSE
