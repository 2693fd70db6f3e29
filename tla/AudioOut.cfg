SPECIFICATION OutSpec
CONSTANTS
  Lists <- MCLists
  Wishes <- MCWishes
  Sinks = {"sink"}
  MaxResets = 1
  MaxUpsets = 2
  Total = 2
  QueueSize = 1
  StopThreads = {"gui"}
  MaxPlays = 2
INVARIANTS
  HandlesValid
  PlayedIsReported
PROPERTIES
  EachOnItsDevice
  PlaybackEnds
CHECK_DEADLOCK FALSE
