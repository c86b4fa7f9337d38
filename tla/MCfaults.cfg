CONSTANTS
  p = p
  c = c
  NULL = NULL
  Jobs = {p}
  Workers = {w1}
  Needs <- NeedsNothing
  CronJobs = {}
  BrokenCron = {p}
  MaxAttempts = 1
  AttemptCap = 1
  Timeout = 1
  Grace = 0
  MaxDelay = 1
  Concurrency = 2
  Callers = {r}
SPECIFICATION FairSpec
INVARIANTS TypeOK ClaimIsStamped
PROPERTY ClaimsResolve
