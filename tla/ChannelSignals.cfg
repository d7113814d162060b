SPECIFICATION Spec
CONSTANTS
  r1 = r1
  r2 = r2
  r3 = r3
  m1 = m1
  m2 = m2
  s1 = s1
  s2 = s2
  NoRun = NoRun
  Runs = {r1, r2}
  Msgs = {m1}
  IgnoreExiting = {}
  Sigs = {s1, s2}
  Kind <- ShutdownSuspend
  Loop <- OneSignal
  ManualInit = {}
  Respawn = "joined"
  Keep = 0
INVARIANTS
  ShutdownKeepsQueued
  ExitHistoryMatchesRuns
PROPERTIES
  IsProcessSlot
  SuspendedTakesNoMessage
CHECK_DEADLOCK FALSE
