SPECIFICATION FairSpec
CONSTANTS
  Peers = {p1}
  Addrs = {"direct"}
  RelayAddrs = {}
  Dialers = {d1}
  Lookers = {l1}
  PeerProbeThreshold = 1
  MaxBackoffDuration = 2
  RecentlyConnectedTTL = 2
  RelayAddrTTL = 1
  WordSize = 4
  MaxFailures = 6
  MaxEvents = 1
PROPERTY DeadPeerPurged
