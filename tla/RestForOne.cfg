SPECIFICATION FairSpec
CONSTANTS
  k1 = k1
  k2 = k2
  k3 = k3
  k4 = k4
  NoName = NoName
  Names = {k1, k2, k3, k4}
  Children <- FourChildren
  Mode <- Mixed
  Registrable = {k1}
  Removable = {k1, k2}
  MaxRestarts = 2
  Limited = {k3}
  MaxChildRestarts = 1
CONSTRAINT
  Gathered
INVARIANTS
  CascadeTracksChildren
PROPERTIES
  IsGroupUntilPanic
  StopsInReverseOrder
  StoppingEnds
CHECK_DEADLOCK FALSE
