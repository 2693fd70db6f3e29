\* Two starters, three overlays of which two collide, two crashes.
SPECIFICATION FilesSpec
CONSTANTS
    Names <- AllFiles
    Starters <- MCStarters
    Legacy <- MCLegacy
    MaxSuffix = 3
    MaxEdits = 2
    MaxCrashes = 2
INVARIANTS
  OnDisk
  LaunchesKeepTemplates
CHECK_DEADLOCK FALSE
