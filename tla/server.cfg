SPECIFICATION FairSpec
CHECK_DEADLOCK FALSE
CONSTANTS
  Requests = {r1, r2}
  Configs <- MCConfigs
  Records <- MCRecords
  Books <- MCBooks
  Address <- MCAddress
  AutoEndpoints <- MCAutoEndpoints
  None = None
  QuitCapacity = 1
INVARIANTS
  TypeOK
  AskedAsConfigured
  Sanitized
  FilteredIsResolved
PROPERTIES
  StableOrder
  ServiceSpec
  ProcessEnds
