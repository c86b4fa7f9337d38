CONSTANTS
  NULL = NULL
  TickLength = 1
  Views <- TwoViews
SPECIFICATION Spec
INVARIANT FlushedOnceASecond
