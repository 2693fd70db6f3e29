SPECIFICATION FairSpec
CONSTANTS
  Clients = {c1, c2}
  NoClient = NoClient
  Handlers = {h1, h2}
  Ticker = ticker
  Gui = gui
  HeartbeatTimeout = 1
  MinTxInterval = 2
  LeaseTimeout = 2
  ConfirmWindow = 3
  MaxRequests = 2
INVARIANTS
  LeaseHonoured
  CallbacksKept
PROPERTIES
  PromiseKept
  RemoteCarrierEnds
