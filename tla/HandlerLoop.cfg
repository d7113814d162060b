SPECIFICATION FairSpec
CONSTANTS
  c1 = c1
  c2 = c2
  u1 = u1
  u2 = u2
  m1 = m1
  m2 = m2
  Channels = {c1, c2}
  NoChannel = none
  Users = {u1, u2}
  Msgs = {m1, m2}
  Bounds <- Families
CHECK_DEADLOCK FALSE
INVARIANTS
  RegisteredWhileHeld
  NormalExitHandlesAll
PROPERTIES
  ShutdownResolves
