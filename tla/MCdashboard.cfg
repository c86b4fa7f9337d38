CONSTANTS
  NULL = NULL
  TickLength = 5
  Views <- MostViews
SPECIFICATION DashboardSpec
INVARIANTS DashboardTypeOK PollingKeepsUp AnnouncedShown OwnCommandSeen OptimismSettles LiveAgain
