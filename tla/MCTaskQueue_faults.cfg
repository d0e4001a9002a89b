SPECIFICATION Spec
CONSTANTS
  t1 = t1
  t2 = t2
  t3 = t3
  th1 = th1
  w1 = w1
  w2 = w2
  NoTask = NoTask
  Tasks = {t1, t2}
  Threads = {th1}
  Workers = {w1}
  ThreadOf <- MCOneThread
  WorkerOf <- MCOneWorker
  Grouped = {t2}
  Env = {"crash", "lostReply", "clientDeath", "stop", "redisError", "cancel", "lockExpiry", "manualUnlock", "parallelCalls"}
  MaxFaults = 1
INVARIANTS TypeOK PayloadKept AtMostOnce InstructionFirst
PROPERTIES KeepsPromise CancelHonoured
CHECK_DEADLOCK FALSE
