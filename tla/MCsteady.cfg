CONSTANTS
  NULL = NULL
  Jobs = {j}
  Workers = {w1, w2}
  Needs <- NeedsNothing
  CronJobs = {}
  BrokenCron = {}
  MaxAttempts = 2
  AttemptCap = 3
  Timeout = 2
  Grace = 1
  MaxDelay = 1
  Concurrency = 1
  Callers = {r1, r2}
  Candidates = {w1, w2, w3}
  NoOne = NoOne
  Nobody = Nobody
  LockTTL = 6
  RenewEvery = 2
  Members = {1, 2}
  Shards = {1, 2}
  Score <- Scores
  MemberTTL = 6
  RefreshEvery = 2
SPECIFICATION FleetSpec
SYMMETRY Symmetry
INVARIANTS OneWriter RowFollowsLease OutcomeRecorded SteadyInv PunctualKeepsKey LossNoticed SweepsGoOn ShardsSettle ShardsPolled
PROPERTIES ContractSpec
