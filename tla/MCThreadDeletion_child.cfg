SPECIFICATION Spec
CONSTANTS
  t1 = t1
  root = root
  child = child
  NoThread = NoThread
  NoTask = NoTask
  Threads = {root, child}
  Tasks = {t1}
  TaskThread <- MCTaskBelow
  Parents <- MCChain
  Callers = {root}
  Env = {}
  MaxEvents = 1
  Histories = {}
  Sizes = {}
  Stores = {}
  Trees = {}
INVARIANTS ChildRequestSeen
CHECK_DEADLOCK FALSE
