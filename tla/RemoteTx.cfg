SPECIFICATION FairSpec
CONSTANTS
  MaxRequests = 2
  MaxLocal = 2
INVARIANTS
  Supervised
  NeverBehindLocal
PROPERTIES
  LocalUnharmed
  RequestsEnd
