\* One request whose lookups outnumber both the slots and the channel.
SPECIFICATION MCSpec
CONSTANTS
  Requests = {r1}
  ProviderRequests = {r1}
  Peers = {p1}
  NoPeer = NoPeer
  MaxRecords = 2
  Cap = 2
  BufCap = 1
  Live = {r1}
INVARIANTS TypeOK NoEarlyEnd StreamSound
PROPERTIES RecordStreamSpec LookupsFinish
