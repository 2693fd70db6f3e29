SPECIFICATION Spec
CONSTANTS
    p1 = p1
    p2 = p2
    Pages <- MCPages
    MaxConnections = 2
    MaxStreams = 1
    MaxPerPage = 1
    MaxRenders = 1
    QueueSize = 1
    MaxFrames = 2
    Gui = Gui
    None = None
    MaxWork = 3
SYMMETRY Pages2
INVARIANTS
  PlacesGivenBack
  PreviewCurrent
  LostLeaseNoticed
CHECK_DEADLOCK FALSE
