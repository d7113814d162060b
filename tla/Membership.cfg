SPECIFICATION FairMembershipSpec
CONSTANTS
  Peers = {p1}
  Generations = 3
  Clock <- Early
  Stored = {p1}
  Count = 1
INVARIANTS
  EventsTellAll
  WaiterIsCurrent
PROPERTIES
  RestartIsNewer
  DownIsTold
CHECK_DEADLOCK FALSE
