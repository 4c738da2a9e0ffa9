CONSTANTS
  Threads = {t1}
  None = None
  MaxCalls = 2
  MaxConn = 2
  MaxCrashes = 1
  MaxTries = 2
  MaxCount = 1
  BufLen = 1
  DropMax = 3
  MallocFails = FALSE
  Ops = {"open", "query"}
SPECIFICATION Spec
INVARIANTS
  ReturnDocumented
CHECK_DEADLOCK FALSE
