SPECIFICATION RecoverySpec
CONSTANTS
  t1 = t1
  t2 = t2
  th1 = th1
  w1 = w1
  NoTask = NoTask
  Tasks = {t1}
  Threads = {th1}
  Workers = {w1}
  ThreadOf <- MCOneThread
  WorkerOf <- MCOneWorker
  Grouped = {}
  Env = {"operatorDeath", "cancel", "crash", "lostReply", "redisError"}
  MaxFaults = 1
  MaxScans = 2
  Impatient = TRUE
INVARIANTS NothingLost
PROPERTIES CancelSurvives
CHECK_DEADLOCK FALSE
