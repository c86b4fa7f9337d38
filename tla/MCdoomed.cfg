CONSTANTS
  p = p
  c = c
  NULL = NULL
  Jobs = {p, c}
  Workers = {w1}
  Needs <- ChildNeedsParent
  CronJobs = {}
  BrokenCron = {}
  MaxAttempts = 1
  AttemptCap = 1
  Timeout = 1
  Grace = 1
  MaxDelay = 1
  Concurrency = 1
  Callers = {r}
SPECIFICATION SteadyFairSpec
PROPERTY QueuedNotDoomed
