\* The result of a lookup that ends just before Next counts the lookups.
SPECIFICATION Spec
CONSTANTS
  Requests = {r1}
  ProviderRequests = {r1}
  Peers = {p1}
  NoPeer = NoPeer
  MaxRecords = 1
  Cap = 1
  BufCap = 1
  Live = {}
INVARIANT ResolvedAreReturned
