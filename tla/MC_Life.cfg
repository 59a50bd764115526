\* One request, every state of the record, every change at any moment.
CONSTANTS
  r1 = r1
  r2 = r2
  ip = ip
  NoAddr = NoAddr
  NoPacket = NoPacket
  NoReply = NoReply
  Requests = {r1}
  Macs <- OneCard
  Addrs = {ip}
  Datagrams <- LifeDatagrams
  NodeStates <- WholeLife
  SendBootFileName = TRUE
  LegacyPort = 68
  EFIPort = 4011
  UrlLength = 39
  SnameLength = 8
SPECIFICATION FairSpec
INVARIANTS
  TypeOK
  IInv
  StableVerdict
PROPERTIES
  KeepsServicePromise
  EveryRequestSettles
