SPECIFICATION FairSpec
CONSTANTS
  r1 = r1
  r2 = r2
  r3 = r3
  th1 = th1
  th2 = th2
  NoRequest = NoRequest
  Requests = {r1, r2}
  Threads = {th1}
  ThreadOf <- MCOneThread
  MaxConcurrent = 2
  StreamJSON = FALSE
  Env = {"cancel", "deadline", "redisError", "panic", "stop", "runningExpiry"}
  MaxFaults = 1
PROPERTIES SlotReturned LockFreed
CHECK_DEADLOCK FALSE
