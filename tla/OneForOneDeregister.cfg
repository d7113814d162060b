SPECIFICATION FairSpec
CONSTANTS
  k1 = k1
  k2 = k2
  k3 = k3
  Names = {k1, k2}
  Children <- TwoChildren
  Mode <- OnErrorMode
  Registrable = {}
  Removable = {k2}
  MaxRestarts = 1
  Limited = {}
  MaxChildRestarts = 0
PROPERTIES
  ExitCompletes
CHECK_DEADLOCK FALSE
