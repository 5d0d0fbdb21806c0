CONSTANTS
  Issues = {i1}
  Rules = {k1}
  ticker = ticker
  request = request
  Runners = {ticker, request}
  Ticker = ticker
  MaxClock = 3
  MaxVer = 3
  MaxTasks = 2
  Retention = 2
  Settings <- Circumstances
  Nil = Nil
SPECIFICATION FairSyncSpec
INVARIANT OneTaskPerRetention
PROPERTIES TasksFollowIssues WantedIssueGetsTask
CHECK_DEADLOCK FALSE
