SPECIFICATION FairSpec
CONSTANTS
  Nodes = {1, 2}
  MaxGen = 2
  MaxConns = 2
  Lanes <- ThreeLanes
  Ordered <- ActorLanes
  MaxMessages <- Budgets
  MaxFaults = 1
  UnreachableAfter = 2
INVARIANTS
  ConnectionsAgree
  NeverTwice
  ReportsMatch
PROPERTIES
  DialsEnd
CHECK_DEADLOCK FALSE
