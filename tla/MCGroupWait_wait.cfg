SPECIFICATION GroupWaitFairSpec
CONSTANTS
  t1 = t1
  t2 = t2
  t3 = t3
  th1 = th1
  w1 = w1
  NoTask = NoTask
  Tasks = {t1, t2, t3}
  Threads = {th1}
  Workers = {w1}
  ThreadOf <- MCOneThread
  WorkerOf <- MCOneWorker
  Grouped = {t1, t2}
  Env = {"clientDeath", "stop", "waitTimeout", "redisError", "cancel", "contextDone"}
  MaxFaults = 1
  MaxCalls = 2
  MaxCancels = 1
INVARIANTS VerdictFinal
PROPERTIES GroupWaitEnds EveryTaskEnds LockGivenUp
CHECK_DEADLOCK FALSE
