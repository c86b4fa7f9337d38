CONSTANTS
  NULL = NULL
  Users = {a, b}
  DemoUser = a
  MaxPairs = 2
  Tabs = {t1}
  Reqs = {r1, r2}
SPECIFICATION FairSpec
INVARIANTS SessionInv SessionOfOneUser ProjectOfUser AwaitedRefreshRuns
PROPERTIES PresentedOnce RequestsSettle RefusalEndsSession
