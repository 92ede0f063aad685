SPECIFICATION Spec
CONSTANTS
  Peers = {p1}
  Addrs = {"direct"}
  RelayAddrs = {}
  Dialers = {d1}
  Lookers = {l1}
  PeerProbeThreshold = 1
  MaxBackoffDuration = 1
  RecentlyConnectedTTL = 1
  RelayAddrTTL = 1
  WordSize = 8
  MaxFailures = 2
  MaxEvents = 1
INVARIANT LiveSessionKept
