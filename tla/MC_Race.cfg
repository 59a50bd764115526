\* Two requests, of one machine or of two, race each other and the inventory.
CONSTANTS
  r1 = r1
  r2 = r2
  ip = ip
  NoAddr = NoAddr
  NoPacket = NoPacket
  NoReply = NoReply
  Requests = {r1, r2}
  Macs <- TwoCards
  Addrs = {ip}
  Datagrams <- RacingDatagrams
  NodeStates <- BusyLife
  SendBootFileName = TRUE
  LegacyPort = 68
  EFIPort = 4011
  UrlLength = 39
  SnameLength = 8
SPECIFICATION Spec
SYMMETRY Symmetric
INVARIANTS
  StableVerdict
PROPERTY KeepsServicePromise
