SPECIFICATION FairProgramSpec
CONSTANTS
  Names = {a, b, c}
  Blueprint = {c}
  MaxChanges = 4
  MaxStarts = 2
CHECK_DEADLOCK FALSE
INVARIANTS
  FollowsSource
PROPERTIES
  EventsAreTaken
  SignalEndsNode
