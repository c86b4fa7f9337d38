CONSTANTS
  p = p
  c = c
  NULL = NULL
  Jobs = {p}
  Workers = {w1, w2}
  Needs <- NeedsNothing
  CronJobs = {}
  BrokenCron = {}
  MaxAttempts = 2
  AttemptCap = 3
  Timeout = 1
  Grace = 1
  MaxDelay = 1
  Concurrency = 1
  Callers = {r}
SPECIFICATION Spec
INVARIANT NeverDoubleRun
