SPECIFICATION FairSpec
CONSTANTS
  t1 = t1
  root = root
  child = child
  NoThread = NoThread
  NoTask = NoTask
  Threads = {root, child}
  Tasks = {t1}
  TaskThread <- MCTaskBelow
  Parents <- MCChain
  Callers = {root, child}
  Env = {"crash", "redisError", "blindRead", "workerCrash", "create"}
  MaxEvents = 1
  Histories <- MCHistories
  Sizes = {1, 2, 3}
  Stores <- MCStores
  Trees <- MCTrees
INVARIANTS DeletionTypeOK ActiveTaskKept RootExclusive TreeRight ReadsRight
PROPERTIES DeletionLockReturned
CHECK_DEADLOCK FALSE
