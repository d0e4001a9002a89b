SPECIFICATION Spec
CONSTANTS
  t1 = t1
  t2 = t2
  t3 = t3
  th1 = th1
  w1 = w1
  w2 = w2
  NoTask = NoTask
  Tasks = {t1, t2, t3}
  Threads = {th1}
  Workers = {w1, w2}
  ThreadOf <- MCOneThread
  WorkerOf <- MCTwoWorkers
  Grouped = {t3}
  Env = {"crash", "lostReply", "contextDone", "workerError"}
  MaxFaults = 1
INVARIANTS ThreadSerial LockCovers LockReturned GroupBeforeQueue
PROPERTIES GroupGated
CHECK_DEADLOCK FALSE
