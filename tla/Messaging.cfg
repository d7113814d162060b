SPECIFICATION FairSpec
CONSTANTS
  Ids = {1, 2, 3}
  Plans <- Mixes
  Size <- Sizes
  LaneRoom = 2
  MaxMessages = 2
  MaxBytes = 3
  MaxFaults = 1
INVARIANTS
  PendingIsAwaited
  AdmissionBound
  MonitorsAreHeld
  OrderOnStream
PROPERTIES
  ReportedLossEndsWaits
CHECK_DEADLOCK FALSE
