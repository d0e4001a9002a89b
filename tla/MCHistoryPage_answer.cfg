SPECIFICATION PageSpec
CONSTANTS
  r1 = r1
  th1 = th1
  NoRequest = NoRequest
  Requests = {r1}
  Threads = {th1}
  ThreadOf <- MCOneThread
  MaxConcurrent = 1
  StreamJSON = FALSE
  Env = {}
  MaxFaults = 0
  Viewed = th1
  PageTail = 2
INVARIANTS AnswerShown
CHECK_DEADLOCK FALSE
