CONSTANTS
  p = p
  c = c
  NULL = NULL
  Jobs = {p, c}
  Workers = {w1}
  Needs <- ChildNeedsParent
  CronJobs = {c}
  BrokenCron = {}
  MaxAttempts = 2
  AttemptCap = 2
  Timeout = 1
  Grace = 1
  MaxDelay = 1
  Concurrency = 1
  Callers = {r}
SPECIFICATION SteadyFairSpec
INVARIANT DependencyOrder
PROPERTIES ContractSpec ScheduledPromoted ReadyUnblocked BlockedNotDoomed
