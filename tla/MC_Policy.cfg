\* Every kind of datagram, the pre-check off: file, port and destination.
CONSTANTS
  r1 = r1
  r2 = r2
  ip = ip
  NoAddr = NoAddr
  NoPacket = NoPacket
  NoReply = NoReply
  Requests = {r1}
  Macs <- AllCards
  Addrs = {ip}
  Datagrams <- EveryDatagram
  NodeStates <- AnyLife
  SendBootFileName = FALSE
  LegacyPort = 68
  EFIPort = 4011
  UrlLength = 39
  SnameLength = 8
SPECIFICATION Spec
INVARIANT
  FirmwareMatchesPort
\* One datagram and one record state: the server stops and nothing is left to do.
CHECK_DEADLOCK FALSE
