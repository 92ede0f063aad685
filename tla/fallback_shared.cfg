\* Two requests compete for one slot; only r1 is sure to run on.
SPECIFICATION MCSpec
CONSTANTS
  Requests = {r1, r2}
  ProviderRequests = {r1}
  Peers = {p1}
  NoPeer = NoPeer
  MaxRecords = 1
  Cap = 1
  BufCap = 1
  Live = {r1}
INVARIANT Accounting
PROPERTIES LookupPoolSpec RequestsEnd
