SPECIFICATION Spec
CONSTANTS
  Peers = {p1}
  Addrs = {"direct", "relay"}
  RelayAddrs = {"relay"}
  Dialers = {}
  Lookers = {l1}
  PeerProbeThreshold = 1
  MaxBackoffDuration = 1
  RecentlyConnectedTTL = 2
  RelayAddrTTL = 1
  WordSize = 8
  MaxFailures = 1
  MaxEvents = 2
INVARIANTS TypeOK Demoted RelayCapped
