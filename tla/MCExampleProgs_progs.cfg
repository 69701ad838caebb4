SPECIFICATION Spec
CONSTANTS
  t1 = t1
  t2 = t2
  t3 = t3
  o1 = o1
  o2 = o2
  o3 = o3
  NoThread = NoThread
  NoObject = NoObject
  Programs = {"tcpconnect", "activeconn", "opensnoop", "tcpconnlat", "capable", "exitsnoop", "oomkill", "kprobetcp"}
  Threads = {t1, t2, t3}
  Process <- OneProcess
  Objects = {o1, o2, o3}
  Addresses = {"a", "b"}
  Word = 8
  MaxEntries = 2
  MaxCounts = 1
  RingSize = 1
  MaxCalls = 3
SYMMETRY Interchangeable
INVARIANTS
  TypeOK
  EntryOfThisCall
  NoStaleEntries
  CountsExactAlone
CHECK_DEADLOCK FALSE
