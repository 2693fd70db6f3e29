SPECIFICATION Spec
CONSTANTS
    Rates = {44, 48}
    InitRate = 44
    TciRate = 96
    MaxOpens = 3
    MaxSwaps = 2
    MaxEvents = 4
    MaxQueued = 2
INVARIANTS
  HearsTheStream
  NothingForgotten
CHECK_DEADLOCK FALSE
