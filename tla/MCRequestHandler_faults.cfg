SPECIFICATION Spec
CONSTANTS
  r1 = r1
  r2 = r2
  r3 = r3
  th1 = th1
  th2 = th2
  NoRequest = NoRequest
  Requests = {r1, r2}
  Threads = {th1}
  ThreadOf <- MCOneThread
  MaxConcurrent = 2
  StreamJSON = FALSE
  Env = {"redisError", "disconnect", "crash", "stop", "runningExpiry"}
  MaxFaults = 2
INVARIANTS HandlerTypeOK SlotsExact OneAtATime
PROPERTIES TakesTurns WritesUnderLock
CHECK_DEADLOCK FALSE
