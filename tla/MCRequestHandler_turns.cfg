SPECIFICATION Spec
CONSTANTS
  r1 = r1
  r2 = r2
  r3 = r3
  th1 = th1
  th2 = th2
  NoRequest = NoRequest
  Requests = {r1, r2, r3}
  Threads = {th1}
  ThreadOf <- MCOneThread
  MaxConcurrent = 2
  StreamJSON = TRUE
  Env = {"cancel", "tasks"}
  MaxFaults = 0
SYMMETRY MCSymmetry
INVARIANTS StatusSettles NotCompleteYet BusyMeansRunning
PROPERTIES StatusOwner
CHECK_DEADLOCK FALSE
