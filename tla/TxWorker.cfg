SPECIFICATION FairSpec
CONSTANTS
  Radios = {r1}
  Manual = manual
  NoRig = NoRig
  Gui = gui
  Remote = remote
  MaxTx = 2
  UnkeyAttempts = 2
INVARIANTS
  StopHonoured
  CarrierAccounted
PROPERTIES
  PromiseKept
  NoCompletionAfterStop
  TransmissionsEnd
