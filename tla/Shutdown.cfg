SPECIFICATION Spec
CONSTANTS
    MaxProcs = 2
    Connects <- MCConnects
    Pollers <- MCPollers
    MaxWork = 2
    MaxImages = 1
    MaxFaults = 1
INVARIANTS
  TornDown
  PttDropped
PROPERTIES
  RigNotPulled
  ShutdownEnds
