CONSTANTS
  p = p
  c = c
  NULL = NULL
  Jobs = {p}
  Workers = {w1}
  Needs <- NeedsNothing
  CronJobs = {}
  BrokenCron = {}
  MaxAttempts = 1
  AttemptCap = 2
  Timeout = 1
  Grace = 1
  MaxDelay = 1
  Concurrency = 1
  Callers = {r}
SPECIFICATION SteadySpec
INVARIANT DeadHasEntry
