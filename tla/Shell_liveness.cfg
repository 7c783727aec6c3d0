SPECIFICATION ExecutionSpec
CONSTANTS
  h1 = h1
  h2 = h2
  Hosts <- TwoHosts
  NoHost = NoHost
  Budgets <- OneBudget
  HostCalls <- ShellCalls
  MaxQueue = 2
  MaxCost = 1
  MaxChunk = 1
  s1 = s1
  s2 = s2
  s3 = s3
  Callers <- TwoHosts
  Sessions <- ThreeSessions
  Nothing = Nothing
  WallTimes <- MCWallTimes
  WordLimit = 8
  Margin = 2
  MaxPending = 2
PROPERTIES RunningEnds CallsReturn StopTakesEffect ShellAnswers
CHECK_DEADLOCK FALSE
