SPECIFICATION FairSpec
CONSTANTS
  h1 = h1
  h2 = h2
  Hosts <- TwoHosts
  NoHost = NoHost
  Budgets <- OneBudget
  HostCalls <- WaitCalls
  MaxQueue = 2
  MaxCost = 1
  MaxChunk = 1
PROPERTIES WaitersReturn
CHECK_DEADLOCK FALSE
