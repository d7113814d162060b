SPECIFICATION FairMonitorSpec
CONSTANTS
  r1 = r1
  r2 = r2
  m1 = m1
  m2 = m2
  s1 = s1
  NoRun = NoRun
  Runs = {r1}
  Msgs = {m1, m2}
  IgnoreExiting = {}
  Sigs = {s1}
  Kind <- AllShutdown
  Loop <- AllEvent
  ManualInit = {}
  Respawn = "joined"
  Keep = 1
  Waits = {"init"}
PROPERTIES
  QueuedIsTaken
  ShutdownEndsRun
  MonitorReturns
CHECK_DEADLOCK FALSE
