SPECIFICATION FairSpec
CONSTANTS
  Requests = {r1}
  Peers = {"P", "Q"}
  NoPeer = "none"
  Plain = {"a1", "a2", "a3", "a4", "priv"}
  Private = {"priv"}
  Hosts <- MCHosts
  CacheKey <- MCCacheKey
  Zone <- MCZone
  Records <- MCRecords
  Modes = {"filtered"}
  DNSAddrRecursionLimit = 2
  MaxDNSAddrLookupsPerRequest = 2
  MaxDNSAddrResolvedPerRecord = 3
  MaxRecords = 2
INVARIANTS
  TypeOK
  BudgetHolds
  RoomHolds
  NothingLost
  OnlyOwnAddrs
  KeptForCause
PROPERTY RecordsServed
