SPECIFICATION Spec
CONSTANTS
  t1 = t1
  t2 = t2
  NoTask = NoTask
  Tasks = {t1, t2}
  Beat = 1
  TTL = 3
  PollEvery = 3
  CheckEvery = 6
  LostAfter = 6
  StuckAfter = 4
  Cooldown = 6
  TaskTimeout = 5
  Horizon = 11
  MaxFaults = 2
INVARIANTS HealthTypeOK OnlineHonest StuckReported
PROPERTIES CooldownKept
