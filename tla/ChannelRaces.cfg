SPECIFICATION Spec
CONSTANTS
  r1 = r1
  r2 = r2
  r3 = r3
  m1 = m1
  m2 = m2
  s1 = s1
  s2 = s2
  NoRun = NoRun
  Runs = {r1, r2, r3}
  Msgs = {}
  IgnoreExiting = {}
  Sigs = {s1}
  Kind <- SuspendResume
  Loop <- OneAlways
  ManualInit = {r2}
  Respawn = "anytime"
  Keep = 1
INVARIANTS
  HistoriesTally
CHECK_DEADLOCK FALSE
