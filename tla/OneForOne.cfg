SPECIFICATION FairSpec
CONSTANTS
  k1 = k1
  k2 = k2
  k3 = k3
  Names = {k1, k2, k3}
  Children <- ThreeChildren
  Mode <- Mixed
  Registrable = {k3}
  Removable = {k2, k3}
  MaxRestarts = 2
  Limited = {k2}
  MaxChildRestarts = 1
INVARIANTS
  TypeOK
  ExitingTracksChildren
  NoneLeftDead
PROPERTIES
  IsSupervisedGroup
  ShutdownRunsDown
CHECK_DEADLOCK FALSE
