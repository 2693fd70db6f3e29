SPECIFICATION LinksSpec
CONSTANTS
    MaxCalls = 2
    MaxConns = 3
    MaxUpsets = 2
    FlexCallers = {"tx", "win"}
    MaxLinks = 2
    MaxCommands = 4
    MaxSessions = 3
    MaxStarts = 2
    MaxTx = 2
    MaxTunes = 2
    MaxTurns = 1
    SettleRetries = 2
INVARIANTS
  ToldTrue
  LossHandled
  FollowsSession
CHECK_DEADLOCK FALSE
