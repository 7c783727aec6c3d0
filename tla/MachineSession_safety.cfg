SPECIFICATION Spec
CONSTANTS
  h1 = h1
  h2 = h2
  Hosts <- TwoHosts
  NoHost = NoHost
  Budgets <- SmallBudgets
  HostCalls <- AllCalls
  MaxQueue = 3
  MaxCost = 2
  MaxChunk = 2
SYMMETRY HostSymmetry
INVARIANTS RequestsAreQueued NoMissedWakeup BudgetsInForce PromisesArePending
PROPERTIES  BudgetsHold
CHECK_DEADLOCK FALSE
