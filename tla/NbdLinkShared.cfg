CONSTANTS
  Threads = {t1, t2}
  None = None
  MaxCalls = 2
  MaxConn = 3
  MaxCrashes = 1
  MaxTries = 2
  MaxCount = 2
  BufLen = 0
  DropMax = 2
  MallocFails = TRUE
  Ops = {"open", "close", "query", "new"}
SPECIFICATION FairSpec
INVARIANTS
  IInv
  OwnAnswer
  NoLeak
PROPERTIES
  CallsReturn
CHECK_DEADLOCK FALSE
