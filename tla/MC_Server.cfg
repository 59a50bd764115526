\* Two requests in a process that may fail to start, fail, or be stopped.
CONSTANTS
  r1 = r1
  r2 = r2
  ip = ip
  NoAddr = NoAddr
  NoPacket = NoPacket
  NoReply = NoReply
  Requests = {r1, r2}
  Macs <- OneCard
  Addrs = {ip}
  Datagrams <- ServerDatagrams
  NodeStates <- BusyLife
  SendBootFileName = TRUE
  LegacyPort = 68
  EFIPort = 4011
  UrlLength = 39
  SnameLength = 8
  Active = TRUE
SPECIFICATION ProxyFairSpec
INVARIANT WholeStart
PROPERTIES
  AnswersWhileListening
  HandlerInProcess
  StartupSettles
  SettlesOrExits
